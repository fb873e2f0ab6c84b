---------------------------- MODULE ProxyRequest ----------------------------
(***************************************************************************)
(* The proxied request in meowsight-proxy: who it is attributed to, how    *)
(* the upstream's answer is passed on while the token usage is read from   *)
(* it, when the RequestEvent is emitted, and what a shutdown does to the   *)
(* requests in flight.                                                     *)
(*                                                                         *)
(*   internal/proxy/tagger.go              TagFromRequestWithKey           *)
(*   internal/proxy/provider/openai.go     Handler and its two modes       *)
(*   internal/proxy/provider/anthropic.go  Handler and its two modes       *)
(*   cmd/meowsight-proxy/main.go           the server and its shutdown     *)
(*                                                                         *)
(* The upstream and the client are external. An answer is a sequence of    *)
(* lines; the body of an answer that is not a stream is one line. Here the *)
(* key resolver may answer anything: what it may answer, and when, is the  *)
(* subject of Attribution. What Emit does with an event is the subject of  *)
(* EventPipeline.                                                          *)
(***************************************************************************)
EXTENDS Naturals, Sequences, FiniteSetsExt

CONSTANTS
  Text,          \* the names of tenants, agents and events, "" for none
  Requests,      \* the requests clients send
  OpenAI,        \* those for the OpenAI handler; the others are for Anthropic
  Streaming,     \* those that ask for a streamed answer
  OwnOptions,    \* OpenAI streams that set stream_options without include_usage
  Header,        \* Header[r]: [tenant, agent] of the X-Meowsight headers, "" if absent
  WithKey,       \* those that carry an API key
  Mappings,      \* the [tenant, agent] a key may stand for
  Nil,           \* the resolver's answer for a key it does not know
  Response,      \* Response[r]: the lines of the upstream's full answer
  Flaky,         \* requests whose upstream connection may fail or break
  Hanging,       \* requests whose upstream may never answer
  StoreMayFail   \* TRUE iff a lookup in the key store may fail

\* A line: "event" (with its name), "data" or "usage" (with token counts),
\* "long" (over the scanner's 1 MB), or "other" (nothing the handler parses).
Line == [kind : {"event", "data", "usage", "long", "other"}, name : Text,
         in : Nat, out : Nat]

Plain == Requests \ Streaming

ASSUME RequestAssumption ==
  /\ {"", "default", "unknown"} \subseteq Text
  /\ OpenAI \subseteq Requests /\ Streaming \subseteq Requests
  /\ OwnOptions \subseteq OpenAI \cap Streaming
  /\ Header \in [Requests -> [tenant : Text, agent : Text]]
  /\ WithKey \subseteq Requests
  /\ Mappings \subseteq [tenant : Text, agent : Text] /\ Nil \notin Mappings
  /\ \A r \in Requests : Response[r] \in Seq(Line) /\ Response[r] # <<>>
  /\ \A r \in Plain : Len(Response[r]) = 1
  /\ Flaky \subseteq Requests /\ Hanging \subseteq Requests
  /\ StoreMayFail \in BOOLEAN

\* Every data line of an Anthropic stream follows the line that names its event.
ASSUME StreamAssumption ==
  \A r \in Streaming \ OpenAI : \A i \in DOMAIN Response[r] :
    Response[r][i].kind = "data" => i > 1 /\ Response[r][i - 1].kind = "event"

VARIABLES
  mode,     \* the process: "up", "closing" (pool.Close), "draining", "down"
  client,   \* client[r]: "on", or "gone" (the request's context is cancelled)
  pc,       \* pc[r]: where the handler of r is
  who,      \* who[r]: the TagResult; keyed iff the key was resolved and swapped
  read,     \* read[r]: lines read from the upstream and passed on
  usage,    \* usage[r]: currentEvent, inputTokens and outputTokens
  end,      \* end[r]: how the handling of r ended
  emitted   \* emitted[r]: the events passed to Emit for r

vars == <<mode, client, pc, who, read, usage, end, emitted>>

NoUsage == [event |-> "", in |-> 0, out |-> 0]
Unknown == [tenant |-> "default", agent |-> "unknown", keyed |-> FALSE]

TypeOK ==
  /\ mode \in {"up", "closing", "draining", "down"}
  /\ client \in [Requests -> {"on", "gone"}]
  /\ pc \in [Requests -> {"idle", "tag", "lookup", "forward", "copy", "emit",
                          "reply", "done"}]
  /\ who \in [Requests -> [tenant : Text, agent : Text, keyed : BOOLEAN]]
  /\ \A r \in Requests : read[r] \in 0..Len(Response[r])
  /\ usage \in [Requests -> [event : Text, in : Nat, out : Nat]]
  /\ end \in [Requests -> {"none", "whole", "broken", "failed", "cut"}]
  /\ \A r \in Requests : Len(emitted[r]) <= 1

Init ==
  /\ mode = "up"
  /\ client = [r \in Requests |-> "on"]
  /\ pc = [r \in Requests |-> "idle"]
  /\ who = [r \in Requests |-> Unknown]
  /\ read = [r \in Requests |-> 0]
  /\ usage = [r \in Requests |-> NoUsage]
  /\ end = [r \in Requests |-> "none"]
  /\ emitted = [r \in Requests |-> <<>>]

Active(r) == pc[r] \notin {"idle", "done"}

Finish(r, how) ==
  /\ pc' = [pc EXCEPT ![r] = "done"]
  /\ end' = [end EXCEPT ![r] = how]

-----------------------------------------------------------------------------
(* Clients *)

\* The server accepts requests until Shutdown closes its listener, also while
\* the pool is being closed.
Arrive(r) ==
  /\ pc[r] = "idle" /\ mode \in {"up", "closing"}
  /\ pc' = [pc EXCEPT ![r] = "tag"]
  /\ UNCHANGED <<mode, client, who, read, usage, end, emitted>>

\* The client disconnects, or a write to it fails (WriteTimeout): the server
\* cancels the request's context.
ClientLeaves(r) ==
  /\ Active(r) /\ client[r] = "on"
  /\ client' = [client EXCEPT ![r] = "gone"]
  /\ UNCHANGED <<mode, pc, who, read, usage, end, emitted>>

-----------------------------------------------------------------------------
(* Attribution: TagFromRequestWithKey *)

Or(value, default) == IF value = "" THEN default ELSE value

\* Header values win over those of the key or the defaults, field by field.
Identity(r, base) ==
  [tenant |-> Or(Header[r].tenant, base.tenant),
   agent  |-> Or(Header[r].agent, base.agent),
   keyed  |-> base.keyed]

\* Whom an answer of the resolver stands for; its key is swapped with a mapping.
Base(m) ==
  IF m = Nil THEN Unknown ELSE [tenant |-> m.tenant, agent |-> m.agent, keyed |-> TRUE]

HasBoth(r) == Header[r].tenant # "" /\ Header[r].agent # ""

\* Mutation of Asks: one header is enough.
AsksWithoutHeaders(r) == r \in WithKey /\ Header[r].tenant = "" /\ Header[r].agent = ""

\* The resolver is asked about a key unless both headers are there.
Asks(r) == r \in WithKey /\ ~HasBoth(r)

Tagged(r, tag) ==
  /\ pc' = [pc EXCEPT ![r] = "forward"]
  /\ who' = [who EXCEPT ![r] = tag]
  /\ UNCHANGED <<mode, client, read, usage, end, emitted>>

TagByHeaders(r) ==
  /\ pc[r] = "tag" /\ ~Asks(r)
  /\ Tagged(r, Identity(r, Unknown))

\* Resolve misses its cache and asks the store, on a connection of the pool.
Lookup(r) ==
  /\ pc[r] = "tag" /\ Asks(r)
  /\ mode = "up"
  /\ pc' = [pc EXCEPT ![r] = "lookup"]
  /\ UNCHANGED <<mode, client, who, read, usage, end, emitted>>

\* Resolve answers, a mapping or that it knows none, from its cache or from the
\* lookup.
Resolves(r, m) ==
  /\ pc[r] = "lookup" \/ (pc[r] = "tag" /\ Asks(r))
  /\ Tagged(r, Identity(r, Base(m)))

\* It answers nil for an error: the closed pool refuses the lookup, the lookup
\* fails, or is cancelled with the request.
ResolveFails(r) ==
  /\ \/ pc[r] = "tag" /\ Asks(r) /\ mode # "up"
     \/ pc[r] = "lookup" /\ (StoreMayFail \/ client[r] = "gone")
  /\ Tagged(r, Identity(r, Unknown))

-----------------------------------------------------------------------------
(* The upstream's answer *)

\* Mutation of AsksForUsage: the request is forwarded as it is.
AsksForNothing(r) == r \notin OpenAI \cap Streaming

\* stream_options.include_usage is added to an OpenAI stream request that has
\* no stream_options of its own; without it the upstream reports no usage.
AsksForUsage(r) == r \in OpenAI \cap Streaming => r \notin OwnOptions

\* What the upstream sends: unless asked, a line that would have stated the usage
\* states nothing the handler parses.
Lines(r) ==
  IF AsksForUsage(r) THEN Response[r]
  ELSE [i \in DOMAIN Response[r] |->
          IF Response[r][i].kind = "usage" THEN [Response[r][i] EXCEPT !.kind = "other"]
          ELSE Response[r][i]]

\* Mutation of Interrupted: the streaming client has no timeout.
InterruptedUntimed(r) == client[r] = "gone" \/ r \in Flaky

\* The client is gone, the connection breaks, or the streaming client's five
\* minutes have passed.
Interrupted(r) == client[r] = "gone" \/ r \in Flaky \/ r \in Hanging \cap Streaming

Connect(r) ==
  /\ pc[r] = "forward"
  /\ pc' = [pc EXCEPT ![r] = "copy"]
  /\ UNCHANGED <<mode, client, who, read, usage, end, emitted>>

\* The request's body cannot be read (400), or the upstream not reached (502).
ConnectFails(r) ==
  /\ pc[r] = "forward" /\ Interrupted(r)
  /\ Finish(r, "failed")
  /\ UNCHANGED <<mode, client, who, read, usage, emitted>>

\* What one line of the stream, or the body of a plain answer, adds.
OpenAIUsage(u, l) ==
  IF l.kind = "usage" THEN [u EXCEPT !.in = l.in, !.out = l.out] ELSE u

\* Mutation of AnthropicUsage: the running totals are added up.
AnthropicUsageAdds(u, l) ==
  CASE l.kind = "event"                               -> [u EXCEPT !.event = l.name]
    [] l.kind = "data" /\ u.event = "message_start"   -> [u EXCEPT !.in = l.in]
    [] l.kind = "data" /\ u.event = "message_delta"   -> [u EXCEPT !.out = @ + l.out]
    [] OTHER                                          -> u

\* The event name stays in force until the next event line.
AnthropicUsage(u, l) ==
  CASE l.kind = "event"                               -> [u EXCEPT !.event = l.name]
    [] l.kind = "data" /\ u.event = "message_start"   -> [u EXCEPT !.in = l.in]
    [] l.kind = "data" /\ u.event = "message_delta"   -> [u EXCEPT !.out = l.out]
    [] OTHER                                          -> u

AddUsage(r, l) ==
  IF r \in OpenAI \cup Plain THEN OpenAIUsage(usage[r], l) ELSE AnthropicUsage(usage[r], l)

\* A line is passed on to the client, then parsed.
ReadLine(r) ==
  /\ pc[r] = "copy" /\ r \in Streaming
  /\ read[r] < Len(Lines(r)) /\ Lines(r)[read[r] + 1].kind # "long"
  /\ read' = [read EXCEPT ![r] = @ + 1]
  /\ usage' = [usage EXCEPT ![r] = AddUsage(r, Lines(r)[read[r] + 1])]
  /\ UNCHANGED <<mode, client, pc, who, end, emitted>>

\* The scanner stops: at the end, on an error, or at a line over its limit.
StreamEnds(r) ==
  /\ pc[r] = "copy" /\ r \in Streaming
  /\ \/ read[r] = Len(Lines(r)) /\ end' = [end EXCEPT ![r] = "whole"]
     \/ /\ read[r] < Len(Lines(r))
        /\ Interrupted(r) \/ Lines(r)[read[r] + 1].kind = "long"
        /\ end' = [end EXCEPT ![r] = "broken"]
  /\ pc' = [pc EXCEPT ![r] = "emit"]
  /\ UNCHANGED <<mode, client, who, read, usage, emitted>>

\* ModifyResponse has read the whole body; without prompt tokens in it nothing
\* is emitted.
ReadBody(r) ==
  /\ pc[r] = "copy" /\ r \in Plain
  /\ read' = [read EXCEPT ![r] = 1]
  /\ usage' = [usage EXCEPT ![r] = AddUsage(r, Lines(r)[1])]
  /\ pc' = [pc EXCEPT ![r] = IF usage'[r].in > 0 THEN "emit" ELSE "reply"]
  /\ UNCHANGED <<mode, client, who, end, emitted>>

\* ModifyResponse returns the error, the ReverseProxy answers 502.
BodyFails(r) ==
  /\ pc[r] = "copy" /\ r \in Plain /\ Interrupted(r)
  /\ Finish(r, "failed")
  /\ UNCHANGED <<mode, client, who, read, usage, emitted>>

-----------------------------------------------------------------------------
(* The event, and the plain answer after it *)

Event(r) == [who |-> who[r], in |-> usage[r].in, out |-> usage[r].out]

\* Mutation of Emit: a publish that timed out is tried again.
EmitRetries(r) ==
  /\ pc[r] = "emit"
  /\ emitted' = [emitted EXCEPT ![r] = Append(@, Event(r))]
  /\ pc' = [pc EXCEPT ![r] = IF r \in Streaming THEN "done" ELSE "reply"] \/ pc' = pc
  /\ UNCHANGED <<mode, client, who, read, usage, end>>

\* Emit is called and returns, within its five seconds. A stream is through;
\* a plain answer waits for it.
Emit(r) ==
  /\ pc[r] = "emit"
  /\ emitted' = [emitted EXCEPT ![r] = Append(@, Event(r))]
  /\ pc' = [pc EXCEPT ![r] = IF r \in Streaming THEN "done" ELSE "reply"]
  /\ UNCHANGED <<mode, client, who, read, usage, end>>

Reply(r) ==
  /\ pc[r] = "reply"
  /\ Finish(r, IF client[r] = "on" THEN "whole" ELSE "broken")
  /\ UNCHANGED <<mode, client, who, read, usage, emitted>>

-----------------------------------------------------------------------------
(* Shutdown *)

Signal ==
  /\ mode = "up"
  /\ mode' = "closing"
  /\ UNCHANGED <<client, pc, who, read, usage, end, emitted>>

\* pool.Close returns when no lookup holds a connection; then Shutdown closes
\* the listener.
PoolClosed ==
  /\ mode = "closing"
  /\ \A r \in Requests : pc[r] # "lookup"
  /\ mode' = "draining"
  /\ UNCHANGED <<client, pc, who, read, usage, end, emitted>>

\* Mutation of Exit: Shutdown has no deadline.
ExitWhenIdle ==
  /\ mode = "draining"
  /\ \A r \in Requests : ~Active(r)
  /\ mode' = "down"
  /\ UNCHANGED <<client, pc, who, read, usage, end, emitted>>

\* Shutdown returns, because every handler has or because its ten seconds have
\* passed; main returns, and what is still in flight is cut off.
Exit ==
  /\ mode = "draining"
  /\ mode' = "down"
  /\ pc' = [r \in Requests |-> IF Active(r) THEN "done" ELSE pc[r]]
  /\ end' = [r \in Requests |-> IF Active(r) THEN "cut" ELSE end[r]]
  /\ UNCHANGED <<client, who, read, usage, emitted>>

-----------------------------------------------------------------------------
Ask(r) == ResolveFails(r) \/ \E m \in Mappings \cup {Nil} : Resolves(r, m)
Tag(r) == TagByHeaders(r) \/ Lookup(r)
Answer(r) == Connect(r) \/ ReadLine(r) \/ ReadBody(r)
Fail(r) == ConnectFails(r) \/ BodyFails(r)

\* The steps without an answer of the resolver.
Serve ==
  \/ \E r \in Requests :
       \/ Arrive(r) \/ ClientLeaves(r) \/ Tag(r) \/ Answer(r) \/ StreamEnds(r)
       \/ Fail(r) \/ Emit(r) \/ Reply(r)
  \/ Signal \/ PoolClosed \/ Exit

Next == Serve \/ \E r \in Requests : Ask(r)

Spec == Init /\ [][Next]_vars

(***************************************************************************)
(* Fairness. The Go scheduler runs the handlers and main; the key store    *)
(* answers or refuses a query (which has no timeout of its own: a lookup   *)
(* that hangs for good is left out); an upstream answers unless it hangs;  *)
(* a cancelled context and the timers of Client, Emit and Shutdown take    *)
(* effect. A plain request to a hanging upstream has no timer              *)
(* (DefaultTransport).                                                     *)
(***************************************************************************)
Fairness ==
  /\ \A r \in Requests : /\ WF_vars(Tag(r) \/ Ask(r)) /\ WF_vars(StreamEnds(r))
                         /\ WF_vars(Emit(r)) /\ WF_vars(Reply(r))
                         /\ WF_vars(Fail(r))
  /\ \A r \in Requests \ Hanging : WF_vars(Answer(r))
  /\ WF_vars(PoolClosed) /\ WF_vars(Exit)

FairSpec == Spec /\ Fairness

-----------------------------------------------------------------------------
(* Properties *)

\* The reference for the parsing: the usage that the first n lines of an answer
\* report is the last one stated in them. In an Anthropic stream the event line
\* before a data line says what the data states.
LastOf(lines, S) == IF S = {} THEN [in |-> 0, out |-> 0] ELSE lines[Max(S)]

DataOf(lines, n, name) ==
  {i \in 2..n : /\ lines[i].kind = "data"
                /\ lines[i - 1].kind = "event" /\ lines[i - 1].name = name}

ReportedUsage(r, lines, n) ==
  IF r \in OpenAI \cup Plain
  THEN LET last == LastOf(lines, {i \in 1..n : lines[i].kind = "usage"})
       IN  [in |-> last.in, out |-> last.out]
  ELSE [in  |-> LastOf(lines, DataOf(lines, n, "message_start")).in,
        out |-> LastOf(lines, DataOf(lines, n, "message_delta")).out]

\* An event states the usage that the upstream reported in exactly the lines
\* passed on to the client, also when the stream broke off or was cut short by
\* an overlong line (openai.go:183-214, anthropic.go:170-211).
EventsStateForwardedUsage ==
  \A r \in Requests : emitted[r] # <<>> =>
    [in |-> emitted[r][1].in, out |-> emitted[r][1].out] = ReportedUsage(r, Lines(r), read[r])

\* An answer that has been read to its end, and for which the upstream counts
\* tokens, is accounted for by one event with the full usage before its handler
\* returns, whether or not the client is still there (openai.go:115-133, 216-234:
\* Emit has a context of its own). A handler cut off by the end of the process
\* may lose it, and an OpenAI stream that opts out of usage has none.
CompleteAnswersAreCounted ==
  \A r \in Requests \ OwnOptions :
    LET full == ReportedUsage(r, Response[r], Len(Response[r]))
    IN  /\ pc[r] = "done" /\ end[r] # "cut"
        /\ read[r] = Len(Lines(r)) /\ full.in > 0
        => emitted[r] = <<[who |-> who[r], in |-> full.in, out |-> full.out]>>

\* A handler returns: a streamed one by its client's timeout even if the
\* upstream hangs, a plain one if the upstream answers.
RequestsFinish ==
  \A r \in Streaming \cup (Requests \ Hanging) : Active(r) ~> pc[r] = "done"

\* A signal stops the proxy, whatever requests hang (main.go:88-103).
ShutdownEnds == mode = "closing" ~> mode = "down"

=============================================================================
