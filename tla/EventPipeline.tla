---------------------------- MODULE EventPipeline ----------------------------
(***************************************************************************)
(* The event pipeline of MeowSight: the proxy's Emitter publishes one      *)
(* RequestEvent per proxied request to the JetStream work queue EVENTS,    *)
(* and the ingest processes pull deliveries from it through one durable    *)
(* consumer, run the metric, audit and agent handlers on each event in     *)
(* order, and Ack, Nak or Term the delivery.                               *)
(*                                                                         *)
(*   internal/adapter/nats/emitter.go    Emit                              *)
(*   internal/adapter/nats/consumer.go   NewConsumer, Start, Stop          *)
(*   cmd/meowsight-ingest/main.go        the handlers, start and shutdown  *)
(*                                                                         *)
(* JetStream, the network and the stores are external: they are modelled   *)
(* by what the code asks of them (a work queue with an explicit ack        *)
(* policy, AckWait, MaxDeliver, MaxAge, a prefetching iterator).           *)
(***************************************************************************)
EXTENDS Naturals, Sequences, FiniteSets

CONSTANTS
  Events,        \* the messages ever published, one per RequestEvent
  Malformed,     \* those whose payload json.Unmarshal rejects
  TenantTokens,  \* TenantTokens[e]: the dot-separated tokens of the tenant id
  Workers,       \* the ingest processes
  Reliable,      \* workers that never crash, stop or lose their connection
  Broken,        \* handlers whose store may fail
  SlowHandlers,  \* TRUE iff an event may wait or be handled longer than AckWait
  Expiring,      \* events for which MaxAge may pass while they are stored
  MaxDeliver,    \* the consumer's MaxDeliver
  Prefetch,      \* PullMaxMessages: deliveries buffered in the iterator
  MaxFaults,     \* bound on crashes, stops, closed connections and lost sends
  NoMsg          \* stands for "no delivery in hand"

\* metricHandler, auditHandler and agentHandler, in registration order.
Metric == 1
Audit == 2
Agent == 3
Handlers == {Metric, Audit, Agent}

\* The n-th delivery of message ev by the server.
Delivery == [ev : Events, n : 1..MaxDeliver]

ASSUME PipelineAssumption ==
  /\ Malformed \subseteq Events
  /\ TenantTokens \in [Events -> Seq(STRING)]
  /\ Reliable \subseteq Workers
  /\ Broken \subseteq Handlers
  /\ SlowHandlers \in BOOLEAN
  /\ Expiring \subseteq Events
  /\ MaxDeliver \in Nat \ {0}
  /\ Prefetch \in Nat \ {0}
  /\ MaxFaults \in Nat
  /\ NoMsg \notin Delivery

VARIABLES
  pub,          \* pub[e]: the Emit call for e, as its caller sees it
  fate,         \* fate[e]: where the message is, seen from the stream
  delivered,    \* delivered[e]: deliveries the consumer has counted for e
  outstanding,  \* messages delivered and awaiting an answer
  mode,         \* mode[w]: "down", "running", or "stopping" (context cancelled)
  conn,         \* conn[w]: "open", or "closed" for good after MaxReconnects
  pc,           \* pc[w]: where Start's loop is
  inbox,        \* inbox[w]: the iterator's buffer
  msg,          \* msg[w]: the delivery in hand
  at,           \* at[w]: the next handler to call
  allOK,        \* allOK[w]: the loop's local variable
  rows,         \* rows[h][d]: how often h has applied delivery d to its store
  faults        \* faults so far, at most MaxFaults

streamVars == <<pub, fate, delivered, outstanding>>
loopVars == <<pc, inbox, msg, at, allOK>>
vars == <<pub, fate, delivered, outstanding, mode, conn, pc, inbox, msg, at,
          allOK, rows, faults>>

TypeOK ==
  /\ pub \in [Events -> {"idle", "sending", "acked", "failed"}]
  /\ fate \in [Events -> {"unsent", "wire", "lost", "stored", "acked",
                          "termed", "expired"}]
  /\ delivered \in [Events -> 0..MaxDeliver]
  /\ outstanding \subseteq Events
  /\ mode \in [Workers -> {"down", "running", "stopping"}]
  /\ conn \in [Workers -> {"open", "closed"}]
  /\ pc \in [Workers -> {"select", "next", "handle"}]
  /\ inbox \in [Workers -> Seq(Delivery)]
  /\ msg \in [Workers -> Delivery \cup {NoMsg}]
  /\ at \in [Workers -> 1..4]
  /\ allOK \in [Workers -> BOOLEAN]
  /\ rows \in [Handlers -> [Delivery -> Nat]]
  /\ faults \in 0..MaxFaults

Init ==
  /\ pub = [e \in Events |-> "idle"]
  /\ fate = [e \in Events |-> "unsent"]
  /\ delivered = [e \in Events |-> 0]
  /\ outstanding = {}
  /\ mode = [w \in Workers |-> "down"]
  /\ conn = [w \in Workers |-> "open"]
  /\ pc = [w \in Workers |-> "select"]
  /\ inbox = [w \in Workers |-> <<>>]
  /\ msg = [w \in Workers |-> NoMsg]
  /\ at = [w \in Workers |-> 1]
  /\ allOK = [w \in Workers |-> TRUE]
  /\ rows = [h \in Handlers |-> [d \in Delivery |-> 0]]
  /\ faults = 0

Fault == faults < MaxFaults /\ faults' = faults + 1

-----------------------------------------------------------------------------
(* Publishing: one Emit call per event *)

\* The subject tokens: an empty tenant id becomes "default", and a tenant id
\* with dots in it becomes several tokens.
Subject(e) ==
  <<"events">> \o (IF TenantTokens[e] = <<>> THEN <<"default">> ELSE TenantTokens[e])
               \o <<"request">>

\* The consumer's filter subject events.*.request: * stands for one token.
MatchesFilter(e) ==
  /\ Len(Subject(e)) = 3
  /\ Subject(e)[1] = "events"
  /\ Subject(e)[3] = "request"

\* json.Marshal fails, or Publish sends the message (or queues it in the
\* client's reconnect buffer) and waits for the server's answer.
Emit(e) ==
  /\ pub[e] = "idle"
  /\ \/ pub' = [pub EXCEPT ![e] = "failed"] /\ UNCHANGED fate
     \/ /\ pub' = [pub EXCEPT ![e] = "sending"]
        /\ fate' = [fate EXCEPT ![e] = "wire"]
  /\ UNCHANGED <<delivered, outstanding, mode, conn, loopVars, rows, faults>>

\* The call returns: with the server's answer, or with an error once its
\* five seconds have passed, whatever has become of the message.
EmitReturns(e) ==
  /\ pub[e] = "sending"
  /\ \/ /\ fate[e] \notin {"wire", "lost"}
        /\ pub' = [pub EXCEPT ![e] = "acked"]
     \/ pub' = [pub EXCEPT ![e] = "failed"]
  /\ UNCHANGED <<fate, delivered, outstanding, mode, conn, loopVars, rows, faults>>

-----------------------------------------------------------------------------
(* The stream and its durable consumer "ingest-writer" (external) *)

Store(e) ==
  /\ fate[e] = "wire"
  /\ fate' = [fate EXCEPT ![e] = "stored"]
  /\ UNCHANGED <<pub, delivered, outstanding, mode, conn, loopVars, rows, faults>>

\* The message never reaches the server.
LosePublish(e) ==
  /\ fate[e] = "wire"
  /\ Fault
  /\ fate' = [fate EXCEPT ![e] = "lost"]
  /\ UNCHANGED <<pub, delivered, outstanding, mode, conn, loopVars, rows>>

\* Mutation of CanDeliver: one delivery too many.
CanDeliverOnceMore(e) ==
  /\ fate[e] = "stored" /\ MatchesFilter(e) /\ e \notin outstanding
  /\ delivered[e] <= MaxDeliver

CanDeliver(e) ==
  /\ fate[e] = "stored"
  /\ MatchesFilter(e)
  /\ e \notin outstanding
  /\ delivered[e] < MaxDeliver

CountDelivery(e) ==
  /\ delivered' = [delivered EXCEPT ![e] = @ + 1]
  /\ outstanding' = outstanding \cup {e}

\* A pull request of w is answered with the next delivery of e.
Deliver(e, w) ==
  /\ CanDeliver(e)
  /\ mode[w] # "down" /\ conn[w] = "open"
  /\ Len(inbox[w]) < Prefetch
  /\ CountDelivery(e)
  /\ inbox' = [inbox EXCEPT ![w] = Append(@, [ev |-> e, n |-> delivered[e] + 1])]
  /\ UNCHANGED <<pub, fate, mode, conn, pc, msg, at, allOK, rows, faults>>

\* The server counts a delivery that no process receives.
LoseDelivery(e) ==
  /\ CanDeliver(e)
  /\ Fault
  /\ CountDelivery(e)
  /\ UNCHANGED <<pub, fate, mode, conn, loopVars, rows>>

\* Worker w holds a copy of e: buffered in its iterator, or in hand.
Holds(w, e) ==
  \/ \E i \in 1..Len(inbox[w]) : inbox[w][i].ev = e
  \/ msg[w] # NoMsg /\ msg[w].ev = e

\* AckWait runs out. It counts from the delivery, so the time a copy spends in
\* the iterator's buffer behind other events counts too.
AckWaitExpires(e) ==
  /\ e \in outstanding
  /\ ~SlowHandlers => \A w \in Workers : ~Holds(w, e)
  /\ outstanding' = outstanding \ {e}
  /\ UNCHANGED <<pub, fate, delivered, mode, conn, loopVars, rows, faults>>

\* The stream discards an event that is older than MaxAge.
Expire(e) ==
  /\ e \in Expiring
  /\ fate[e] = "stored"
  /\ fate' = [fate EXCEPT ![e] = "expired"]
  /\ UNCHANGED <<pub, delivered, outstanding, mode, conn, loopVars, rows, faults>>

\* How the server takes an answer, late ones included: Ack and Term remove
\* the message, Nak makes it deliverable again at once.
Removed(e, verdict) ==
  /\ fate' = [fate EXCEPT ![e] = IF @ = "stored" THEN verdict ELSE @]
  /\ outstanding' = outstanding \ {e}

Requeued(e) ==
  /\ outstanding' = outstanding \ {e}
  /\ UNCHANGED fate

\* The answer of w does not arrive; Start ignores the error.
AnswerLost(w) ==
  /\ \/ conn[w] = "closed" /\ UNCHANGED faults
     \/ conn[w] = "open" /\ Fault
  /\ UNCHANGED <<fate, outstanding>>

-----------------------------------------------------------------------------
(* The ingest process: start, shutdown, crash *)

Start(w) ==
  /\ mode[w] = "down"
  /\ mode' = [mode EXCEPT ![w] = "running"]
  /\ UNCHANGED <<streamVars, conn, loopVars, rows, faults>>

\* A signal: main calls consumer.Stop and cancel, so the context is cancelled.
Stop(w) ==
  /\ w \notin Reliable
  /\ mode[w] = "running"
  /\ Fault
  /\ mode' = [mode EXCEPT ![w] = "stopping"]
  /\ UNCHANGED <<streamVars, conn, loopVars, rows>>

\* The process is gone, and everything it held in memory with it.
GoesDown(w) ==
  /\ mode' = [mode EXCEPT ![w] = "down"]
  /\ conn' = [conn EXCEPT ![w] = "open"]
  /\ pc' = [pc EXCEPT ![w] = "select"]
  /\ inbox' = [inbox EXCEPT ![w] = <<>>]
  /\ msg' = [msg EXCEPT ![w] = NoMsg]
  /\ at' = [at EXCEPT ![w] = 1]
  /\ allOK' = [allOK EXCEPT ![w] = TRUE]

\* main returns without waiting for the goroutine that runs Start.
Exit(w) ==
  /\ mode[w] = "stopping"
  /\ GoesDown(w)
  /\ UNCHANGED <<streamVars, rows, faults>>

Crash(w) ==
  /\ w \notin Reliable
  /\ mode[w] # "down"
  /\ Fault
  /\ GoesDown(w)
  /\ UNCHANGED <<streamVars, rows>>

\* The client gives up reconnecting: the iterator is closed for good, and what
\* it buffered is gone.
CloseConn(w) ==
  /\ w \notin Reliable
  /\ mode[w] # "down" /\ conn[w] = "open"
  /\ Fault
  /\ conn' = [conn EXCEPT ![w] = "closed"]
  /\ inbox' = [inbox EXCEPT ![w] = <<>>]
  /\ UNCHANGED <<streamVars, mode, pc, msg, at, allOK, rows>>

-----------------------------------------------------------------------------
(* The loop of Consumer.Start *)

\* Mutation of Select: it does not look at the context.
SelectIgnoresContext(w) ==
  /\ mode[w] # "down" /\ pc[w] = "select"
  /\ pc' = [pc EXCEPT ![w] = "next"]
  /\ UNCHANGED <<streamVars, mode, conn, inbox, msg, at, allOK, rows, faults>>

\* The select at the top of the loop.
Select(w) ==
  /\ mode[w] = "running" /\ pc[w] = "select"
  /\ pc' = [pc EXCEPT ![w] = "next"]
  /\ UNCHANGED <<streamVars, mode, conn, inbox, msg, at, allOK, rows, faults>>

\* iter.Next fails: a missed heartbeat, or a closed iterator. The loop
\* continues, whatever the error.
NextFails(w) ==
  /\ mode[w] = "running" /\ pc[w] = "next"
  /\ inbox[w] = <<>>
  /\ pc' = [pc EXCEPT ![w] = "select"]
  /\ UNCHANGED <<streamVars, mode, conn, inbox, msg, at, allOK, rows, faults>>

\* Start sees the cancelled context, at the select or when iter.Next fails.
Return(w) ==
  /\ mode[w] = "stopping"
  /\ pc[w] = "select" \/ (pc[w] = "next" /\ inbox[w] = <<>>)
  /\ GoesDown(w)
  /\ UNCHANGED <<streamVars, rows, faults>>

\* Mutation of NextMalformed: the message is skipped, not terminated.
NextMalformedSkips(w) ==
  /\ mode[w] # "down" /\ pc[w] = "next"
  /\ inbox[w] # <<>> /\ Head(inbox[w]).ev \in Malformed
  /\ inbox' = [inbox EXCEPT ![w] = Tail(@)]
  /\ pc' = [pc EXCEPT ![w] = "select"]
  /\ UNCHANGED <<streamVars, mode, conn, msg, at, allOK, rows, faults>>

NextMalformed(w) ==
  /\ mode[w] # "down" /\ pc[w] = "next"
  /\ inbox[w] # <<>> /\ Head(inbox[w]).ev \in Malformed
  /\ inbox' = [inbox EXCEPT ![w] = Tail(@)]
  /\ pc' = [pc EXCEPT ![w] = "select"]
  /\ \/ Removed(Head(inbox[w]).ev, "termed") /\ UNCHANGED faults
     \/ AnswerLost(w)
  /\ UNCHANGED <<pub, delivered, mode, conn, msg, at, allOK, rows>>

NextEvent(w) ==
  /\ mode[w] # "down" /\ pc[w] = "next"
  /\ inbox[w] # <<>> /\ Head(inbox[w]).ev \notin Malformed
  /\ inbox' = [inbox EXCEPT ![w] = Tail(@)]
  /\ msg' = [msg EXCEPT ![w] = Head(inbox[w])]
  /\ at' = [at EXCEPT ![w] = Metric]
  /\ allOK' = [allOK EXCEPT ![w] = TRUE]
  /\ pc' = [pc EXCEPT ![w] = "handle"]
  /\ UNCHANGED <<streamVars, mode, conn, rows, faults>>

\* The handler's write to its store, one row set per call.
Applied(h, d) == rows' = [rows EXCEPT ![h][d] = @ + 1]

\* Mutation of HandleOK: allOK holds the result of the latest handler only.
HandleOKForgets(w) ==
  /\ pc[w] = "handle" /\ at[w] \in Handlers
  /\ Applied(at[w], msg[w])
  /\ at' = [at EXCEPT ![w] = @ + 1]
  /\ allOK' = [allOK EXCEPT ![w] = TRUE]
  /\ UNCHANGED <<streamVars, mode, conn, pc, inbox, msg, faults>>

HandleOK(w) ==
  /\ pc[w] = "handle" /\ at[w] \in Handlers
  /\ Applied(at[w], msg[w])
  /\ at' = [at EXCEPT ![w] = @ + 1]
  /\ UNCHANGED <<streamVars, mode, conn, pc, inbox, msg, allOK, faults>>

\* Mutation of HandleErr: the loop over the handlers stops at the first error.
HandleErrBreaks(w) ==
  /\ pc[w] = "handle" /\ at[w] \in Handlers
  /\ at[w] \in Broken \/ mode[w] = "stopping"
  /\ Applied(at[w], msg[w]) \/ UNCHANGED rows
  /\ at' = [at EXCEPT ![w] = Agent + 1]
  /\ allOK' = [allOK EXCEPT ![w] = FALSE]
  /\ UNCHANGED <<streamVars, mode, conn, pc, inbox, msg, faults>>

\* Mutation of HandleErr: the delivery is negatively acknowledged at once.
HandleErrNaks(w) ==
  /\ pc[w] = "handle" /\ at[w] \in Handlers
  /\ at[w] \in Broken \/ mode[w] = "stopping"
  /\ Applied(at[w], msg[w]) \/ UNCHANGED rows
  /\ at' = [at EXCEPT ![w] = @ + 1]
  /\ allOK' = [allOK EXCEPT ![w] = FALSE]
  /\ Requeued(msg[w].ev)
  /\ UNCHANGED <<pub, delivered, mode, conn, pc, inbox, msg, faults>>

\* The handler returns an error: its store fails, or its context is cancelled.
\* The write may have been applied all the same.
HandleErr(w) ==
  /\ pc[w] = "handle" /\ at[w] \in Handlers
  /\ at[w] \in Broken \/ mode[w] = "stopping"
  /\ Applied(at[w], msg[w]) \/ UNCHANGED rows
  /\ at' = [at EXCEPT ![w] = @ + 1]
  /\ allOK' = [allOK EXCEPT ![w] = FALSE]
  /\ UNCHANGED <<streamVars, mode, conn, pc, inbox, msg, faults>>

\* The end of an iteration: its local variables are gone.
Iterate(w) ==
  /\ pc' = [pc EXCEPT ![w] = "select"]
  /\ msg' = [msg EXCEPT ![w] = NoMsg]
  /\ at' = [at EXCEPT ![w] = 1]
  /\ allOK' = [allOK EXCEPT ![w] = TRUE]
  /\ UNCHANGED <<pub, delivered, mode, conn, inbox, rows>>

Ack(w) ==
  /\ pc[w] = "handle" /\ at[w] \notin Handlers /\ allOK[w]
  /\ \/ conn[w] = "open" /\ Removed(msg[w].ev, "acked") /\ UNCHANGED faults
     \/ AnswerLost(w)
  /\ Iterate(w)

\* Mutation of Nak: the worker retries the delivery it has in hand.
NakRetries(w) ==
  /\ pc[w] = "handle" /\ at[w] \notin Handlers /\ ~allOK[w]
  /\ at' = [at EXCEPT ![w] = Metric]
  /\ allOK' = [allOK EXCEPT ![w] = TRUE]
  /\ UNCHANGED <<streamVars, mode, conn, pc, inbox, msg, rows, faults>>

\* Mutation of Nak: the event is terminated after a failed attempt.
NakTerminates(w) ==
  /\ pc[w] = "handle" /\ at[w] \notin Handlers /\ ~allOK[w]
  /\ conn[w] = "open" /\ Removed(msg[w].ev, "termed") /\ UNCHANGED faults
  /\ Iterate(w)

\* Nak carries no delay.
Nak(w) ==
  /\ pc[w] = "handle" /\ at[w] \notin Handlers /\ ~allOK[w]
  /\ \/ conn[w] = "open" /\ Requeued(msg[w].ev) /\ UNCHANGED faults
     \/ AnswerLost(w)
  /\ Iterate(w)

-----------------------------------------------------------------------------
StreamNext ==
  \E e \in Events :
    \/ Emit(e) \/ EmitReturns(e) \/ Store(e) \/ LosePublish(e)
    \/ LoseDelivery(e) \/ AckWaitExpires(e) \/ Expire(e)
    \/ \E w \in Workers : Deliver(e, w)

Loop(w) ==
  \/ Select(w) \/ NextFails(w) \/ Return(w) \/ NextMalformed(w) \/ NextEvent(w)
  \/ HandleOK(w) \/ HandleErr(w) \/ Ack(w) \/ Nak(w)

ProcessNext(w) == Start(w) \/ Stop(w) \/ Exit(w) \/ Crash(w) \/ CloseConn(w)

Next == StreamNext \/ \E w \in Workers : ProcessNext(w) \/ Loop(w)

Spec == Init /\ [][Next]_vars

\* The step the loop of w is at, unless it waits in iter.Next.
LoopStep(w) ==
  \/ Select(w) \/ NextMalformed(w) \/ NextEvent(w)
  \/ HandleOK(w) \/ HandleErr(w) \/ Ack(w) \/ Nak(w)

(***************************************************************************)
(* Fairness. The Go scheduler runs the loop; main exits after a signal     *)
(* without waiting for anything; JetStream answers an open pull request    *)
(* with a deliverable message and its AckWait timers fire; the operator    *)
(* keeps the reliable workers started. Nothing restarts the other workers  *)
(* (docker-compose.yml sets no restart policy), and iter.Next may wait.    *)
(***************************************************************************)
Fairness ==
  /\ \A w \in Workers : WF_vars(LoopStep(w)) /\ WF_vars(Exit(w))
  /\ \A w \in Reliable : WF_vars(Start(w))
  /\ \A e \in Events : /\ WF_vars(\E w \in Workers : Deliver(e, w))
                       /\ WF_vars(AckWaitExpires(e))

FairSpec == Spec /\ Fairness

\* As FairSpec, and no store is down for ever: a handler that is called again
\* and again succeeds in the end.
RecoveringSpec ==
  FairSpec /\ \A w \in Workers, h \in Handlers : SF_vars(at[w] = h /\ HandleOK(w))

-----------------------------------------------------------------------------
(* Properties *)

Recorded(h, e) == \E n \in 1..MaxDeliver : rows[h][[ev |-> e, n |-> n]] > 0

\* At-least-once, end to end: the server takes an event off the stream as
\* acknowledged only if one and the same delivery of it went through all three
\* handlers (consumer.go:113-126), whatever crashes, redeliveries and late
\* answers of other workers there were.
AckedMeansHandled ==
  \A e \in Events : fate[e] = "acked" =>
    \E n \in 1..MaxDeliver : \A h \in Handlers : rows[h][[ev |-> e, n |-> n]] > 0

\* Duplicates come from redelivery only: no handler applies one delivery twice,
\* so an event has at most as many copies of a row as the server has counted
\* deliveries of it, and at most MaxDeliver (consumer.go:62).
DuplicatesAreRedeliveries ==
  \A h \in Handlers, d \in Delivery :
    rows[h][d] <= IF d.n <= delivered[d.ev] THEN 1 ELSE 0

\* One failing store does not keep an event from the others: when a running
\* worker is about to answer, every handler whose store works has recorded the
\* delivery, although an earlier handler failed (consumer.go:114-123).
HealthySinksReceive ==
  \A w \in Workers :
    mode[w] = "running" /\ pc[w] = "handle" /\ at[w] \notin Handlers =>
      \A h \in Handlers \ Broken : rows[h][msg[w]] > 0

\* If events are handled within AckWait, no two workers have copies of the same
\* event at once, so nothing is handled concurrently with itself: a copy is out
\* of its worker's hands before the event can be delivered again.
ExclusiveHandling ==
  ~SlowHandlers =>
    \A v, w \in Workers, e \in Events : Holds(v, e) /\ Holds(w, e) => v = w

\* The stream keeps e, but the consumer will not deliver it any more.
GivenUp(e) ==
  /\ fate[e] = "stored" /\ delivered[e] = MaxDeliver
  /\ \A w \in Workers : ~Holds(w, e)

\* If events are handled within AckWait and no store fails, only faults cost
\* deliveries, and each of them at most two of any event: a process that is told
\* to stop may Nak its copy and be sent one more, which it drops. So MaxDeliver = 5
\* gives an event up after three faults at the earliest (consumer.go:62, 91-98).
RetriesAreFaults ==
  ~SlowHandlers /\ Broken = {} =>
    \A e \in Events : /\ delivered[e] <= 1 + 2 * faults
                      /\ GivenUp(e) => MaxDeliver <= 2 * faults

\* Refinement: the pipeline implements the ledger. Only an event whose payload
\* is malformed, or one older than MaxAge, may leave the stream unrecorded.
LedgerState(e) ==
  CASE fate[e] \in {"unsent", "wire", "lost"} -> "none"
    [] fate[e] = "stored"                     -> "accepted"
    [] fate[e] = "acked"                      -> "done"
    [] fate[e] \in {"termed", "expired"}      -> "dropped"

Ledger == INSTANCE DeliveryLedger WITH
  Droppable <- Malformed \cup Expiring,
  state     <- [e \in Events |-> LedgerState(e)],
  recorded  <- [h \in Handlers |-> {e \in Events : Recorded(h, e)}]

ImplementsLedger == Ledger!Spec

\* Every stored event the consumer's filter selects is settled in the end: it
\* is acknowledged, or terminated if its payload is malformed, or discarded if it
\* may outlive MaxAge. MaxDeliver leaves attempts over for the faults of a run.
Settled(e) ==
  \/ fate[e] = "acked"
  \/ fate[e] = "termed" /\ e \in Malformed
  \/ fate[e] = "expired" /\ e \in Expiring

StoredIsSettled ==
  \A e \in Events : MatchesFilter(e) => (fate[e] = "stored" ~> Settled(e))

\* Every stored event reaches every sink whose store works, although another
\* sink fails on every attempt (consumer.go:114-123 goes on after an error).
HealthySinksGetEveryEvent ==
  \A e \in Events \ Malformed, h \in Handlers \ Broken : MatchesFilter(e) =>
    (fate[e] = "stored" ~> Recorded(h, e))

\* "The audit writer records every proxied LLM request" (README.md:353): every
\* stored event is audited in the end if the store recovers. Naks without a
\* delay use up MaxDeliver before it does.
EveryRequestAudited ==
  \A e \in Events \ Malformed : MatchesFilter(e) =>
    (fate[e] = "stored" ~> Recorded(Audit, e))

=============================================================================
