-------------------------- MODULE ProxyRequestProofs --------------------------
(***************************************************************************)
(* Any number of requests, and answers of any length, that may be broken   *)
(* off anywhere: that an event states the usage of what was passed on,     *)
(* once, and in full if all of it was. Then the same requests with the key *)
(* resolver they ask, whatever an operator does to the key: whom a request *)
(* is attributed to.                                                       *)
(***************************************************************************)
EXTENDS Attribution, TLAPS

Tags == [tenant : Text, agent : Text, keyed : BOOLEAN]
Usages == [event : Text, in : Nat, out : Nat]

Typed ==
  /\ TypeOK
  /\ read \in [Requests -> Nat]
  /\ emitted \in [Requests -> Seq([who : Tags, in : Nat, out : Nat])]

\* What has been read and emitted in each phase of a handler. Nothing changes
\* the usage or the identity once the event has been emitted.
Staged(r) ==
  /\ pc[r] \in {"idle", "tag", "lookup", "forward"} => read[r] = 0
  /\ pc[r] = "copy" /\ r \in Plain => read[r] = 0
  /\ pc[r] \in {"idle", "tag", "lookup", "forward", "copy", "emit"} => emitted[r] = <<>>
  /\ pc[r] = "reply" => emitted[r] = <<Event(r)>> \/ usage[r].in = 0
  /\ pc[r] = "done" => \/ end[r] = "cut"
                       \/ end[r] = "failed" /\ read[r] = 0
                       \/ emitted[r] = <<Event(r)>> \/ usage[r].in = 0
  /\ emitted[r] = <<>> \/ emitted[r] = <<Event(r)>>
  /\ end[r] = "cut" => pc[r] = "done"

\* The usage read so far is what the lines read so far report, and the current
\* event is the one named by the last of them, if that one names an event.
Accounted(r) ==
  /\ [in |-> usage[r].in, out |-> usage[r].out] = ReportedUsage(r, Lines(r), read[r])
  /\ read[r] > 0 /\ Lines(r)[read[r]].kind = "event"
       => r \in OpenAI \cup Plain \/ usage[r].event = Lines(r)[read[r]].name

Inv ==
  /\ Typed
  /\ \A r \in Requests : Staged(r) /\ Accounted(r)

\* The steps of one request's handler and client.
RequestNext(r) ==
  \/ Arrive(r) \/ ClientLeaves(r) \/ Tag(r) \/ Ask(r) \/ Answer(r) \/ StreamEnds(r)
  \/ Fail(r) \/ Emit(r) \/ Reply(r)

-----------------------------------------------------------------------------
(* Lemmas about the operators *)

\* The lines that arrive are as many as the upstream's answer has.
LEMMA LinesType ==
  ASSUME NEW r \in Requests
  PROVE  /\ Len(Response[r]) \in Nat \ {0} /\ DOMAIN Response[r] = 1..Len(Response[r])
         /\ Lines(r) \in Seq(Line) /\ Len(Lines(r)) = Len(Response[r])
         /\ \A i \in 1..Len(Response[r]) : Lines(r)[i] \in Line
<1>0. Response[r] \in Seq(Line) /\ Response[r] # <<>>
  BY RequestAssumption
<1>1. /\ Response[r] \in Seq(Line) /\ Response[r] # <<>>
      /\ Len(Response[r]) \in Nat /\ DOMAIN Response[r] = 1..Len(Response[r])
  BY <1>0
<1>2. Len(Response[r]) # 0
  BY <1>1
<1>3. \A i \in 1..Len(Response[r]) : Response[r][i] \in Line
  BY <1>1
<1>4. CASE AsksForUsage(r)
  BY <1>1, <1>2, <1>3, <1>4 DEF Lines
<1>5. CASE ~AsksForUsage(r)
  <2> DEFINE L(i) == IF Response[r][i].kind = "usage"
                     THEN [Response[r][i] EXCEPT !.kind = "other"] ELSE Response[r][i]
  <2>1. \A i \in 1..Len(Response[r]) : L(i) \in Line
    BY <1>3 DEF Line
  <2>2. Lines(r) = [i \in 1..Len(Response[r]) |-> L(i)]
    BY <1>1, <1>5 DEF Lines
  <2> HIDE DEF L
  <2>3. Lines(r) \in Seq(Line) /\ Len(Lines(r)) = Len(Response[r])
    BY <1>1, <2>1, <2>2
  <2>. QED BY <1>1, <1>2, <2>1, <2>2, <2>3
<1>. QED BY <1>4, <1>5

\* In an Anthropic stream a data line follows the line that names its event.
LEMMA DataFollowsEvent ==
  ASSUME NEW r \in Streaming \ OpenAI, NEW i \in 1..Len(Lines(r)), Lines(r)[i].kind = "data"
  PROVE  i > 1 /\ Lines(r)[i - 1].kind = "event"
<1>1. r \in Requests /\ AsksForUsage(r)
  BY RequestAssumption DEF AsksForUsage
<1>2. Lines(r) = Response[r] /\ i \in DOMAIN Response[r]
  BY <1>1, LinesType DEF Lines
<1>. QED BY <1>2, StreamAssumption

\* The maximum of a set of numbers to which a greater one is added.
LEMMA MaxTop ==
  ASSUME NEW n \in Nat, NEW S \in SUBSET (1..n)
  PROVE  Max(S \cup {n + 1}) = n + 1
<1> DEFINE T == S \cup {n + 1}
<1>1. n + 1 \in T /\ \A y \in T : n + 1 >= y /\ y \in Nat
  OBVIOUS
<1> HIDE DEF T
<1>2. Max(T) \in T /\ \A y \in T : Max(T) >= y
  BY <1>1 DEF Max
<1>3. Max(T) = n + 1
  BY <1>1, <1>2
<1>. QED BY <1>3 DEF T

\* A further line becomes the last one of its kind, or leaves the last one.
LEMMA LastOfNext ==
  ASSUME NEW lines, NEW n \in Nat, NEW S \in SUBSET (1..n)
  PROVE  LastOf(lines, S \cup {n + 1}) = lines[n + 1]
<1>1. S \cup {n + 1} # {}
  OBVIOUS
<1>. QED BY <1>1, MaxTop DEF LastOf

LEMMA UsageLinesNext ==
  ASSUME NEW lines, NEW n \in Nat
  PROVE  LET U(m) == {i \in 1..m : lines[i].kind = "usage"}
         IN  /\ U(n) \in SUBSET (1..n)
             /\ U(n + 1) = IF lines[n + 1].kind = "usage" THEN U(n) \cup {n + 1} ELSE U(n)
<1>1. 1..(n + 1) = (1..n) \cup {n + 1}
  OBVIOUS
<1>. QED BY <1>1

LEMMA DataOfNext ==
  ASSUME NEW lines, NEW n \in Nat, NEW name
  PROVE  /\ DataOf(lines, n, name) \in SUBSET (1..n)
         /\ DataOf(lines, n + 1, name) =
              IF n > 0 /\ lines[n + 1].kind = "data"
                       /\ lines[n].kind = "event" /\ lines[n].name = name
              THEN DataOf(lines, n, name) \cup {n + 1} ELSE DataOf(lines, n, name)
<1>1. 2..(n + 1) = IF n > 0 THEN (2..n) \cup {n + 1} ELSE {}
  <2>1. CASE n = 0
    <3>1. \A i \in 2..(0 + 1) : FALSE
      OBVIOUS
    <3>. QED BY <2>1, <3>1
  <2>2. CASE n > 0
    BY <2>2
  <2>. QED BY <2>1, <2>2
<1>2. (n + 1) - 1 = n /\ (n = 0 => 2..n = {})
  OBVIOUS
<1>. QED BY <1>1, <1>2 DEF DataOf

-----------------------------------------------------------------------------
(* Reading *)

\* The next line adds to the usage what it adds to the usage reported.
LEMMA ReadAccounts ==
  ASSUME NEW r \in Requests, Typed, Accounted(r), read[r] < Len(Lines(r)),
         read'[r] = read[r] + 1, usage'[r] = AddUsage(r, Lines(r)[read[r] + 1])
  PROVE  Accounted(r)' /\ usage'[r] \in Usages
<1> DEFINE n == read[r]
           l == Lines(r)[n + 1]
           u == usage[r]
<1>1. n \in Nat /\ l \in Line /\ u \in Usages /\ n + 1 \in 1..Len(Lines(r))
  BY LinesType DEF Typed, TypeOK, Usages
<1>2. CASE r \in OpenAI \cup Plain
  <2> DEFINE U(m) == {i \in 1..m : Lines(r)[i].kind = "usage"}
  <2>1. usage'[r] = OpenAIUsage(u, l)
    BY <1>2 DEF AddUsage
  <2>2. usage'[r] \in Usages
    BY <1>1, <2>1 DEF OpenAIUsage, Line, Usages
  <2>3. [in |-> u.in, out |-> u.out] = [in |-> LastOf(Lines(r), U(n)).in,
                                        out |-> LastOf(Lines(r), U(n)).out]
    BY <1>2 DEF Accounted, ReportedUsage
  <2>4. [in |-> usage'[r].in, out |-> usage'[r].out]
          = [in |-> LastOf(Lines(r), U(n + 1)).in, out |-> LastOf(Lines(r), U(n + 1)).out]
    <3>1. CASE l.kind = "usage"
      <4>1. LastOf(Lines(r), U(n + 1)) = l
        <5>1. U(n) \in SUBSET (1..n) /\ U(n + 1) = U(n) \cup {n + 1}
          BY <1>1, <3>1, UsageLinesNext
        <5> HIDE DEF U
        <5>. QED BY <1>1, <5>1, LastOfNext
      <4>2. usage'[r].in = l.in /\ usage'[r].out = l.out
        BY <1>1, <2>1, <3>1 DEF OpenAIUsage, Usages
      <4>. QED BY <4>1, <4>2
    <3>2. CASE l.kind # "usage"
      <4>1. U(n + 1) = U(n)
        BY <1>1, <3>2, UsageLinesNext
      <4>2. usage'[r] = u
        BY <2>1, <3>2 DEF OpenAIUsage
      <4>. QED BY <2>3, <4>1, <4>2
    <3>. QED BY <3>1, <3>2
  <2>5. ReportedUsage(r, Lines(r), n + 1)
          = [in |-> LastOf(Lines(r), U(n + 1)).in, out |-> LastOf(Lines(r), U(n + 1)).out]
    BY <1>2 DEF ReportedUsage
  <2>. QED BY <1>2, <2>2, <2>4, <2>5 DEF Accounted, Lines, AsksForUsage, ReportedUsage
<1>3. CASE r \in Streaming \ OpenAI
  <2> DEFINE D(m, name) == DataOf(Lines(r), m, name)
  <2>1. r \notin OpenAI \cup Plain
    BY <1>3 DEF Plain
  <2>2. usage'[r] = AnthropicUsage(u, l)
    BY <2>1 DEF AddUsage
  <2>3. /\ u.in = LastOf(Lines(r), D(n, "message_start")).in
        /\ u.out = LastOf(Lines(r), D(n, "message_delta")).out
    BY <2>1 DEF Accounted, ReportedUsage
  <2>4. /\ usage'[r].in = LastOf(Lines(r), D(n + 1, "message_start")).in
        /\ usage'[r].out = LastOf(Lines(r), D(n + 1, "message_delta")).out
        /\ usage'[r] \in Usages
        /\ l.kind = "event" => usage'[r].event = l.name
    <3>1. CASE l.kind = "data"
      <4>1. n > 0 /\ Lines(r)[n].kind = "event" /\ u.event = Lines(r)[n].name
        <5>1. n + 1 > 1 /\ Lines(r)[(n + 1) - 1].kind = "event"
          BY <1>1, <1>3, <3>1, DataFollowsEvent
        <5>2. n > 0 /\ (n + 1) - 1 = n
          BY <1>1, <5>1
        <5>. QED BY <2>1, <5>1, <5>2 DEF Accounted
      <4>2. ASSUME NEW name
            PROVE  D(n + 1, name) = IF u.event = name THEN D(n, name) \cup {n + 1}
                                    ELSE D(n, name)
        <5>1. D(n + 1, name) =
                IF n > 0 /\ Lines(r)[n + 1].kind = "data"
                         /\ Lines(r)[n].kind = "event" /\ Lines(r)[n].name = name
                THEN D(n, name) \cup {n + 1} ELSE D(n, name)
          BY <1>1, DataOfNext
        <5>. QED BY <3>1, <4>1, <5>1
      <4>3. \A name : LastOf(Lines(r), D(n, name) \cup {n + 1}) = l
        BY <1>1, DataOfNext, LastOfNext
      <4>4. CASE u.event = "message_start"
        <5>1. usage'[r] = [u EXCEPT !.in = l.in]
          BY <2>2, <3>1, <4>4 DEF AnthropicUsage
        <5>2. /\ usage'[r] \in Usages /\ usage'[r].in = l.in /\ usage'[r].out = u.out
          BY <1>1, <5>1 DEF Usages, Line
        <5>3. /\ LastOf(Lines(r), D(n + 1, "message_start")) = l
              /\ D(n + 1, "message_delta") = D(n, "message_delta")
          BY <4>2, <4>3, <4>4
        <5>. QED BY <2>3, <3>1, <5>2, <5>3
      <4>5. CASE u.event = "message_delta"
        <5>1. usage'[r] = [u EXCEPT !.out = l.out]
          BY <2>2, <3>1, <4>5 DEF AnthropicUsage
        <5>2. /\ usage'[r] \in Usages /\ usage'[r].out = l.out /\ usage'[r].in = u.in
          BY <1>1, <5>1 DEF Usages, Line
        <5>3. /\ LastOf(Lines(r), D(n + 1, "message_delta")) = l
              /\ D(n + 1, "message_start") = D(n, "message_start")
          BY <4>2, <4>3, <4>5
        <5>. QED BY <2>3, <3>1, <5>2, <5>3
      <4>6. CASE u.event \notin {"message_start", "message_delta"}
        <5>1. usage'[r] = u
          BY <2>2, <3>1, <4>6 DEF AnthropicUsage
        <5>. QED BY <1>1, <2>3, <3>1, <4>2, <4>6, <5>1
      <4>. QED BY <4>4, <4>5, <4>6
    <3>2. CASE l.kind # "data"
      <4>1. \A name : D(n + 1, name) = D(n, name)
        BY <1>1, <3>2, DataOfNext
      <4>2. usage'[r] = IF l.kind = "event" THEN [u EXCEPT !.event = l.name] ELSE u
        BY <2>2, <3>2 DEF AnthropicUsage
      <4>. QED BY <1>1, <2>3, <4>1, <4>2 DEF Usages, Line
    <3>. QED BY <3>1, <3>2
  <2>5. ReportedUsage(r, Lines(r), n + 1) = [in |-> usage'[r].in, out |-> usage'[r].out]
    BY <2>1, <2>4 DEF ReportedUsage
  <2>. QED BY <2>4, <2>5 DEF Accounted, Lines, AsksForUsage, ReportedUsage
<1>. QED BY <1>2, <1>3 DEF Plain

-----------------------------------------------------------------------------
(* The steps *)

\* A step of one request leaves the others and the process alone.
LEMMA Frame ==
  ASSUME Typed, NEW r \in Requests, RequestNext(r)
  PROVE  /\ mode' = mode
         /\ client'[r] = client[r] \/ client'[r] = "gone"
         /\ \A q \in Requests \ {r} :
              /\ client'[q] = client[q] /\ pc'[q] = pc[q] /\ who'[q] = who[q]
              /\ read'[q] = read[q] /\ usage'[q] = usage[q]
              /\ end'[q] = end[q] /\ emitted'[q] = emitted[q]
<1> USE DEF Typed, TypeOK
<1>1. CASE Arrive(r) \/ ClientLeaves(r) \/ Reply(r)
  BY <1>1 DEF Arrive, ClientLeaves, Reply, Finish
<1>2. CASE Tag(r) \/ Ask(r)
  BY <1>2 DEF Tag, TagByHeaders, Lookup, Ask, Resolves, ResolveFails, Tagged
<1>3. CASE Answer(r)
  BY <1>3 DEF Answer, Connect, ReadLine, ReadBody
<1>4. CASE StreamEnds(r) \/ Emit(r)
  BY <1>4 DEF StreamEnds, Emit
<1>5. CASE Fail(r)
  BY <1>5 DEF Fail, ConnectFails, BodyFails, Finish
<1>. QED BY <1>1, <1>2, <1>3, <1>4, <1>5 DEF RequestNext

\* The identity and the usage that requests begin with.
LEMMA Constants == Unknown \in Tags /\ NoUsage \in Usages
<1>1. "default" \in Text /\ "unknown" \in Text /\ "" \in Text
  BY RequestAssumption
<1>2. FALSE \in BOOLEAN /\ 0 \in Nat
  OBVIOUS
<1>3. Unknown \in Tags
  BY <1>1, <1>2, Zenon DEF Unknown, Tags
<1>4. NoUsage \in Usages
  BY <1>1, <1>2, Zenon DEF NoUsage, Usages
<1>. QED BY <1>3, <1>4

\* The identities a handler may give a request.
LEMMA TagType ==
  ASSUME NEW r \in Requests
  PROVE  /\ Identity(r, Unknown) \in Tags
         /\ \A m \in Mappings \cup {Nil} : Identity(r, Base(m)) \in Tags
<1>1. Header[r].tenant \in Text /\ Header[r].agent \in Text
  BY RequestAssumption
<1>2. ASSUME NEW base \in Tags PROVE Identity(r, base) \in Tags
  BY <1>1 DEF Identity, Or, Tags
<1>3. Unknown \in Tags
  BY Constants
<1>4. ASSUME NEW m \in Mappings \cup {Nil} PROVE Base(m) \in Tags
  <2>1. CASE m = Nil
    BY <1>3, <2>1 DEF Base
  <2>2. CASE m # Nil
    <3>1. m \in [tenant : Text, agent : Text]
      BY <2>2, RequestAssumption
    <3>. QED BY <2>2, <3>1 DEF Base, Tags
  <2>. QED BY <2>1, <2>2
<1>. QED BY <1>2, <1>3, <1>4

\* A tagging step gives the request one of them, or is the start of a lookup.
LEMMA TagStep ==
  ASSUME Typed, NEW r \in Requests, Tag(r) \/ Ask(r)
  PROVE  /\ UNCHANGED <<mode, client, read, usage, end, emitted>>
         /\ pc[r] \in {"tag", "lookup"}
         /\ \/ pc' = [pc EXCEPT ![r] = "lookup"] /\ who' = who
            \/ /\ pc' = [pc EXCEPT ![r] = "forward"]
               /\ \E tag \in Tags : who' = [who EXCEPT ![r] = tag]
<1>1. CASE TagByHeaders(r)
  BY <1>1, TagType DEF TagByHeaders, Tagged
<1>2. CASE Lookup(r)
  BY <1>2 DEF Lookup
<1>3. CASE ResolveFails(r)
  BY <1>3, TagType DEF ResolveFails, Tagged
<1>4. ASSUME NEW m \in Mappings \cup {Nil}, Resolves(r, m)
      PROVE  /\ UNCHANGED <<mode, client, read, usage, end, emitted>>
             /\ pc[r] \in {"tag", "lookup"}
             /\ pc' = [pc EXCEPT ![r] = "forward"]
             /\ \E tag \in Tags : who' = [who EXCEPT ![r] = tag]
  BY <1>4, TagType DEF Resolves, Tagged
<1>. QED BY <1>1, <1>2, <1>3, <1>4 DEF Tag, Ask

\* What an answer's step adds to the usage, and that it keeps the account.
LEMMA AnswerAccounts ==
  ASSUME Typed, NEW r \in Requests, Staged(r), Accounted(r), ReadLine(r) \/ ReadBody(r)
  PROVE  /\ Accounted(r)' /\ usage'[r] \in Usages
         /\ read'[r] = read[r] + 1 /\ read'[r] <= Len(Response[r])
<1>1. CASE ReadLine(r)
  <2>1. /\ read[r] < Len(Lines(r)) /\ read'[r] = read[r] + 1
        /\ usage'[r] = AddUsage(r, Lines(r)[read[r] + 1])
    BY <1>1 DEF ReadLine, Typed, TypeOK
  <2>2. Accounted(r)' /\ usage'[r] \in Usages
    BY <2>1, ReadAccounts
  <2>3. read[r] \in Nat /\ Len(Lines(r)) = Len(Response[r]) /\ Len(Response[r]) \in Nat
    BY LinesType DEF Typed
  <2>. QED BY <2>1, <2>2, <2>3
<1>2. CASE ReadBody(r)
  <2>1. r \in Plain /\ read[r] = 0 /\ Len(Lines(r)) = 1
    BY <1>2, LinesType, RequestAssumption DEF ReadBody, Staged
  <2>2. /\ read[r] < Len(Lines(r)) /\ read'[r] = read[r] + 1
        /\ usage'[r] = AddUsage(r, Lines(r)[read[r] + 1])
    BY <1>2, <2>1 DEF ReadBody, Typed, TypeOK
  <2>3. Accounted(r)' /\ usage'[r] \in Usages
    BY <2>2, ReadAccounts
  <2>. QED BY <2>1, <2>2, <2>3, LinesType
<1>. QED BY <1>1, <1>2

\* Every step keeps the types.
LEMMA TypedStep == Inv /\ [Next]_vars => Typed'
<1> SUFFICES ASSUME Inv, [Next]_vars PROVE Typed'
  OBVIOUS
<1>0. Typed /\ \A r \in Requests : Staged(r) /\ Accounted(r)
  BY DEF Inv
<1> USE DEF Typed, TypeOK
<1>1. ASSUME NEW r \in Requests, Arrive(r) \/ ClientLeaves(r) \/ Reply(r) PROVE Typed'
  BY <1>0, <1>1 DEF Arrive, ClientLeaves, Reply, Finish
<1>2. ASSUME NEW r \in Requests, Tag(r) \/ Ask(r) PROVE Typed'
  <2>1. /\ pc' \in [Requests -> {"idle", "tag", "lookup", "forward", "copy", "emit",
                                  "reply", "done"}]
        /\ who' \in [Requests -> Tags]
    <3>1. CASE pc' = [pc EXCEPT ![r] = "lookup"] /\ who' = who
      BY <1>0, <3>1 DEF Tags
    <3>2. ASSUME NEW tag \in Tags, pc' = [pc EXCEPT ![r] = "forward"],
                 who' = [who EXCEPT ![r] = tag]
          PROVE  pc'[r] = "forward" /\ who' \in [Requests -> Tags]
                 /\ pc' \in [Requests -> {"idle", "tag", "lookup", "forward", "copy", "emit",
                                          "reply", "done"}]
      BY <1>0, <3>2 DEF Tags
    <3>. QED BY <1>0, <1>2, <3>1, <3>2, TagStep
  <2>2. UNCHANGED <<mode, client, read, usage, end, emitted>>
    BY <1>0, <1>2, TagStep
  <2>. QED BY <1>0, <2>1, <2>2 DEF Tags
<1>3. ASSUME NEW r \in Requests, Connect(r) PROVE Typed'
  BY <1>0, <1>3 DEF Connect
<1>4. ASSUME NEW r \in Requests, ReadLine(r) \/ ReadBody(r) PROVE Typed'
  <2>1. /\ usage'[r] \in Usages /\ read'[r] = read[r] + 1
        /\ read'[r] <= Len(Response[r]) /\ Len(Response[r]) \in Nat
    BY <1>0, <1>4, AnswerAccounts, LinesType
  <2>2. /\ pc' \in [Requests -> {"idle", "tag", "lookup", "forward", "copy", "emit",
                                  "reply", "done"}]
        /\ UNCHANGED <<mode, client, who, end, emitted>>
        /\ \E v : usage' = [usage EXCEPT ![r] = v]
        /\ \E v : read' = [read EXCEPT ![r] = v]
    BY <1>0, <1>4 DEF ReadLine, ReadBody
  <2>3. usage' \in [Requests -> Usages]
    BY <1>0, <2>1, <2>2 DEF Usages
  <2>4. read' \in [Requests -> Nat] /\ \A q \in Requests : read'[q] \in 0..Len(Response[q])
    BY <1>0, <2>1, <2>2
  <2>. QED BY <1>0, <2>2, <2>3, <2>4 DEF Usages
<1>5. ASSUME NEW r \in Requests, StreamEnds(r) PROVE Typed'
  BY <1>0, <1>5 DEF StreamEnds
<1>6. ASSUME NEW r \in Requests, Fail(r) PROVE Typed'
  BY <1>0, <1>6 DEF Fail, ConnectFails, BodyFails, Finish
<1>7. ASSUME NEW r \in Requests, Emit(r) PROVE Typed'
  <2>1. Event(r) \in [who : Tags, in : Nat, out : Nat]
    BY <1>0 DEF Event, Tags
  <2>2. emitted[r] = <<>>
    BY <1>0, <1>7 DEF Staged, Emit
  <2>3. Append(emitted[r], Event(r)) \in Seq([who : Tags, in : Nat, out : Nat])
        /\ Len(Append(emitted[r], Event(r))) = 1
    BY <2>1, <2>2
  <2>4. /\ emitted' \in [Requests -> Seq([who : Tags, in : Nat, out : Nat])]
        /\ \A q \in Requests : Len(emitted'[q]) <= 1
    <3> DEFINE v == Append(emitted[r], Event(r))
    <3>1. emitted' = [emitted EXCEPT ![r] = v]
      BY <1>7 DEF Emit
    <3>2. v \in Seq([who : Tags, in : Nat, out : Nat]) /\ Len(v) = 1
      BY <2>3
    <3> HIDE DEF v
    <3>3. emitted' \in [Requests -> Seq([who : Tags, in : Nat, out : Nat])]
      BY <1>0, <3>1, <3>2, Zenon
    <3>4. ASSUME NEW q \in Requests PROVE Len(emitted'[q]) <= 1
      <4>1. emitted'[q] = IF q = r THEN v ELSE emitted[q]
        BY <1>0, <3>1, Zenon
      <4>2. Len(v) <= 1
        BY <3>2
      <4>3. Len(emitted[q]) <= 1
        BY <1>0
      <4>. QED BY <4>1, <4>2, <4>3, Zenon
    <3>. QED BY <3>3, <3>4
  <2>5. /\ pc' \in [Requests -> {"idle", "tag", "lookup", "forward", "copy", "emit",
                                  "reply", "done"}]
        /\ UNCHANGED <<mode, client, who, read, usage, end>>
    BY <1>0, <1>7 DEF Emit
  <2>. QED BY <1>0, <2>4, <2>5
<1>8. CASE Signal \/ PoolClosed
  BY <1>0, <1>8 DEF Signal, PoolClosed
<1>9. CASE Exit
  BY <1>0, <1>9 DEF Exit
<1>10. CASE UNCHANGED vars
  BY <1>0, <1>10 DEF vars
<1>. QED
  BY <1>1, <1>2, <1>3, <1>4, <1>5, <1>6, <1>7, <1>8, <1>9, <1>10 DEF Next, Serve, Answer

\* The request that takes a step keeps its stage and its account.
LEMMA OwnStep ==
  ASSUME Inv, NEW r \in Requests, RequestNext(r)
  PROVE  Staged(r)' /\ Accounted(r)'
<1>0. Typed /\ Staged(r) /\ Accounted(r) /\ mode' = mode
  BY Frame DEF Inv
<1> USE DEF Typed, TypeOK
<1>1. CASE Arrive(r)
  BY <1>0, <1>1 DEF Arrive, Staged, Accounted
<1>2. CASE ClientLeaves(r)
  BY <1>0, <1>2 DEF ClientLeaves, Staged, Accounted, Event
<1>3. CASE Tag(r) \/ Ask(r)
  <2>1. /\ UNCHANGED <<mode, client, read, usage, end, emitted>>
        /\ pc[r] \in {"tag", "lookup"} /\ pc'[r] \in {"lookup", "forward"}
    BY <1>0, <1>3, TagStep
  <2>. QED BY <1>0, <2>1 DEF Staged, Accounted
<1>4. CASE Connect(r)
  BY <1>0, <1>4 DEF Connect, Staged, Accounted
<1>5. CASE ReadLine(r)
  <2>1. Accounted(r)'
    BY <1>0, <1>5, AnswerAccounts
  <2>2. Staged(r)'
    BY <1>0, <1>5 DEF ReadLine, Staged, Plain
  <2>. QED BY <2>1, <2>2
<1>6. CASE ReadBody(r)
  <2>1. Accounted(r)' /\ usage'[r].in \in Nat
    BY <1>0, <1>6, AnswerAccounts DEF Usages
  <2>2. /\ pc[r] = "copy" /\ pc'[r] = IF usage'[r].in > 0 THEN "emit" ELSE "reply"
        /\ UNCHANGED <<mode, client, who, end, emitted>>
    BY <1>0, <1>6 DEF ReadBody
  <2>3. usage'[r].in > 0 \/ usage'[r].in = 0
    BY <2>1
  <2>4. Staged(r)'
    BY <1>0, <2>2, <2>3 DEF Staged
  <2>. QED BY <2>1, <2>4
<1>7. CASE StreamEnds(r)
  BY <1>0, <1>7 DEF StreamEnds, Staged, Accounted, Plain
<1>8. CASE Fail(r)
  BY <1>0, <1>8 DEF Fail, ConnectFails, BodyFails, Finish, Staged, Accounted
<1>9. CASE Emit(r)
  <2>1. emitted[r] = <<>> /\ emitted'[r] = Append(emitted[r], Event(r))
    BY <1>0, <1>9 DEF Emit, Staged
  <2>2. emitted'[r] = <<Event(r)>> /\ Event(r)' = Event(r)
    BY <1>9, <2>1 DEF Emit, Event
  <2>. QED BY <1>0, <1>9, <2>2 DEF Emit, Staged, Accounted
<1>10. CASE Reply(r)
  BY <1>0, <1>10 DEF Reply, Finish, Staged, Accounted, Event
<1>. QED
  BY <1>1, <1>2, <1>3, <1>4, <1>5, <1>6, <1>7, <1>8, <1>9, <1>10 DEF RequestNext, Answer

LEMMA InvStep == Inv /\ [Next]_vars => Inv'
<1> SUFFICES ASSUME Inv, [Next]_vars, NEW q \in Requests
             PROVE  Staged(q)' /\ Accounted(q)'
  BY TypedStep DEF Inv
<1>0. Typed /\ Staged(q) /\ Accounted(q)
  BY DEF Inv
<1>1. ASSUME NEW r \in Requests, RequestNext(r)
      PROVE  Staged(q)' /\ Accounted(q)'
  <2>1. CASE q = r
    BY <1>1, <2>1, OwnStep
  <2>2. CASE q # r
    BY <1>0, <1>1, <2>2, Frame DEF Staged, Accounted, Event
  <2>. QED BY <2>1, <2>2
<1>2. CASE Signal \/ PoolClosed
  BY <1>0, <1>2 DEF Signal, PoolClosed, Staged, Accounted, Event
<1>3. CASE Exit
  BY <1>0, <1>3 DEF Exit, Active, Staged, Accounted, Event, Typed, TypeOK
<1>4. CASE UNCHANGED vars
  BY <1>0, <1>4 DEF vars, Staged, Accounted, Event
<1>. QED BY <1>1, <1>2, <1>3, <1>4 DEF Next, Serve, RequestNext

LEMMA InitInv == Init => Inv
<1> SUFFICES ASSUME Init PROVE Inv
  OBVIOUS
<1>1. Typed
  <2>1. Unknown \in Tags /\ NoUsage \in Usages
    BY Constants
  <2>2. who \in [Requests -> Tags] /\ usage \in [Requests -> Usages]
    BY <2>1 DEF Init
  <2>3. emitted \in [Requests -> Seq([who : Tags, in : Nat, out : Nat])]
        /\ \A r \in Requests : Len(emitted[r]) <= 1
    BY DEF Init
  <2>4. read \in [Requests -> Nat] /\ \A r \in Requests : read[r] \in 0..Len(Response[r])
    BY LinesType DEF Init
  <2>5. /\ mode = "up" /\ client \in [Requests -> {"on", "gone"}]
        /\ pc \in [Requests -> {"idle"}] /\ end \in [Requests -> {"none"}]
    BY DEF Init
  <2>. QED BY <2>2, <2>3, <2>4, <2>5 DEF Typed, TypeOK, Tags, Usages
<1>2. ASSUME NEW r \in Requests PROVE Staged(r) /\ Accounted(r)
  <2>1. Staged(r)
    BY DEF Init, Staged
  <2>2. ReportedUsage(r, Lines(r), 0) = [in |-> 0, out |-> 0]
    <3>1. /\ {i \in 1..0 : Lines(r)[i].kind = "usage"} = {}
          /\ \A name : DataOf(Lines(r), 0, name) = {}
      BY DEF DataOf
    <3>. QED BY <3>1 DEF ReportedUsage, LastOf
  <2>3. Accounted(r)
    <3>1. read[r] = 0 /\ usage[r] = NoUsage
      BY DEF Init
    <3>2. usage[r].in = 0 /\ usage[r].out = 0 /\ ~(read[r] > 0)
      <4>1. NoUsage.in = 0 /\ NoUsage.out = 0
        BY Zenon DEF NoUsage
      <4>2. ~(0 > 0)
        OBVIOUS
      <4>. QED BY <3>1, <4>1, <4>2, Zenon
    <3>3. [in |-> usage[r].in, out |-> usage[r].out] = ReportedUsage(r, Lines(r), read[r])
      BY <2>2, <3>1, <3>2
    <3>. QED BY <3>2, <3>3 DEF Accounted
  <2>. QED BY <2>1, <2>3
<1>. QED BY <1>1, <1>2 DEF Inv

LEMMA Invariance == Spec => []Inv
  BY InitInv, InvStep, PTL DEF Spec

-----------------------------------------------------------------------------
\* The variables keep their types, and no request is emitted twice.
THEOREM TypeCorrect == Spec => []TypeOK
<1>1. Inv => TypeOK
  BY DEF Inv, Typed
<1>. QED BY <1>1, Invariance, PTL

\* An event states the usage reported in exactly the lines passed on, for any
\* answers, wherever they break off (openai.go:183-214, anthropic.go:170-211).
THEOREM EventsStateUsage == Spec => []EventsStateForwardedUsage
<1>1. Inv => EventsStateForwardedUsage
  <2> SUFFICES ASSUME Inv, NEW r \in Requests, emitted[r] # <<>>
               PROVE  [in |-> emitted[r][1].in, out |-> emitted[r][1].out]
                        = ReportedUsage(r, Lines(r), read[r])
    BY DEF EventsStateForwardedUsage
  <2>1. emitted[r] = <<Event(r)>> /\ Accounted(r)
    BY DEF Inv, Staged
  <2>2. emitted[r][1] = Event(r)
    BY <2>1
  <2>3. emitted[r][1].in = usage[r].in /\ emitted[r][1].out = usage[r].out
    BY <2>2 DEF Event
  <2>. QED BY <2>1, <2>3 DEF Accounted
<1>. QED BY <1>1, Invariance, PTL

\* An answer read to its end is accounted for by one event with its full usage,
\* whether or not the client stays (openai.go:115-133, 216-234).
THEOREM AnswersAreCounted == Spec => []CompleteAnswersAreCounted
<1>1. Inv => CompleteAnswersAreCounted
  <2> SUFFICES ASSUME Inv, NEW r \in Requests \ OwnOptions,
                      pc[r] = "done", end[r] # "cut", read[r] = Len(Lines(r)),
                      ReportedUsage(r, Response[r], Len(Response[r])).in > 0
               PROVE  emitted[r] = <<[who |-> who[r],
                        in |-> ReportedUsage(r, Response[r], Len(Response[r])).in,
                        out |-> ReportedUsage(r, Response[r], Len(Response[r])).out]>>
    BY DEF CompleteAnswersAreCounted
  <2> DEFINE full == ReportedUsage(r, Response[r], Len(Response[r]))
  <2>1. Lines(r) = Response[r] /\ read[r] = Len(Response[r]) /\ read[r] # 0
    BY LinesType DEF Lines, AsksForUsage
  <2>2. [in |-> usage[r].in, out |-> usage[r].out] = full /\ Staged(r)
    BY <2>1 DEF Inv, Accounted
  <2>3. usage[r].in = full.in /\ usage[r].out = full.out
    BY <2>2
  <2>4. usage[r].in # 0
    BY <2>3
  <2>5. emitted[r] = <<Event(r)>>
    BY <2>1, <2>2, <2>4 DEF Staged
  <2>. QED BY <2>3, <2>5 DEF Event
<1>. QED BY <1>1, Invariance, PTL

-----------------------------------------------------------------------------
(* The requests and the resolver *)

\* The times at which things have happened are past.
Dated ==
  /\ now \in Nat /\ left \in [Mappings \cup {Nil} -> Nat] /\ row \in Mappings \cup {Nil}
  /\ \A r \in Requests : answer[r].at \in 0..now

\* AttributedByTheTable for one request, without its event.
Attributed(r) ==
  /\ ~HasBoth(r) /\ pc[r] \notin {"idle", "tag", "lookup"} /\ end[r] # "cut"
  =>
    /\ answer[r].at > 0
    /\ IF answer[r].failed
       THEN /\ who[r] = Identity(r, Unknown)
            /\ mode # "up" \/ client[r] = "gone" \/ StoreMayFail
       ELSE \E m \in Mappings \cup {Nil} : who[r] = Identity(r, Base(m)) /\ HeldFor(r, m)

AttributionInv ==
  /\ Inv /\ Dated
  /\ answer \in [Requests -> [value : Mappings \cup {Nil}, at : Nat, failed : BOOLEAN]]
  /\ now > 0
  /\ \A r \in WithKey : Attributed(r)

LEMMA AttributionStep == [AttributionNext]_allVars => [Next]_vars
BY DEF AttributionNext, allVars, Tick, SetRow, Refused, Answered, Unanswered, Next, Ask

\* What the steps of the resolver do to its variables.
LEMMA Dating ==
  ASSUME AttributionInv, [AttributionNext]_allVars
  PROVE  /\ Dated'
         /\ answer' \in [Requests -> [value : Mappings \cup {Nil}, at : Nat, failed : BOOLEAN]]
         /\ now' > 0
<1> USE DEF AttributionInv, Dated
<1>1. CASE Tick
  BY <1>1 DEF Tick, Resolver!Tick
<1>2. ASSUME NEW v \in Mappings \cup {Nil}, SetRow(v) PROVE Dated' /\ UNCHANGED <<now, answer>>
  BY <1>2 DEF SetRow, Resolver!SetRow
<1>3. ASSUME NEW r \in Requests, NEW m \in Mappings \cup {Nil}, NEW failed \in BOOLEAN,
             Resolver!Gives(r, m, failed)
      PROVE  /\ Dated' /\ now' = now
             /\ answer' \in [Requests -> [value : Mappings \cup {Nil}, at : Nat, failed : BOOLEAN]]
  <2>1. [value |-> m, at |-> now, failed |-> failed]
          \in [value : Mappings \cup {Nil}, at : Nat, failed : BOOLEAN]
    OBVIOUS
  <2>2. answer' = [answer EXCEPT ![r] = [value |-> m, at |-> now, failed |-> failed]]
        /\ UNCHANGED <<now, row, left>>
    BY <1>3 DEF Resolver!Gives
  <2>3. answer' \in [Requests -> [value : Mappings \cup {Nil}, at : Nat, failed : BOOLEAN]]
    BY <2>1, <2>2
  <2>4. \A q \in Requests : answer'[q].at \in 0..now
    BY <2>2
  <2>. QED BY <2>2, <2>3, <2>4
<1>4. ASSUME NEW r \in Requests, Refused(r) PROVE Resolver!Gives(r, Nil, TRUE)
  BY <1>4 DEF Refused, Resolver!Fail
<1>5. ASSUME NEW r \in Requests, NEW m \in Mappings \cup {Nil}, Answered(r, m)
      PROVE  Resolver!Gives(r, m, FALSE)
  BY <1>5 DEF Answered, Resolver!Answer
<1>6. CASE Unanswered \/ UNCHANGED allVars
  BY <1>6 DEF Unanswered, resolverVars, allVars
<1>. QED BY <1>1, <1>2, <1>3, <1>4, <1>5, <1>6 DEF AttributionNext

\* The request that is answered is attributed as it was answered.
LEMMA AnswerAttributes ==
  ASSUME AttributionInv, NEW r \in Requests,
         Refused(r) \/ \E m \in Mappings \cup {Nil} : Answered(r, m)
  PROVE  Attributed(r)'
<1> USE DEF AttributionInv, Dated, Inv, Typed, TypeOK
<1>1. CASE Refused(r)
  <2>1. answer'[r] = [value |-> Nil, at |-> now, failed |-> TRUE]
    BY <1>1 DEF Refused, Resolver!Fail, Resolver!Gives
  <2>2. /\ who'[r] = Identity(r, Unknown)
        /\ mode' # "up" \/ client'[r] = "gone" \/ StoreMayFail
    BY <1>1 DEF Refused, ResolveFails, Tagged
  <2>. QED BY <2>1, <2>2 DEF Attributed
<1>2. ASSUME NEW m \in Mappings \cup {Nil}, Answered(r, m) PROVE Attributed(r)'
  <2>1. answer'[r] = [value |-> m, at |-> now, failed |-> FALSE] /\ UNCHANGED <<now, row, left>>
    BY <1>2 DEF Answered, Resolver!Answer, Resolver!Gives
  <2>2. who'[r] = Identity(r, Base(m))
    BY <1>2 DEF Answered, Resolves, Tagged
  <2>3. row = m \/ left[m] >= now - Age
    BY <1>2 DEF Answered, Resolver!Answer, Resolver!HeldSince
  <2>4. HeldFor(r, m)'
    BY <2>1, <2>3 DEF HeldFor, Resolver!HeldSince
  <2>. QED BY <2>1, <2>2, <2>4 DEF Attributed
<1>. QED BY <1>1, <1>2

\* What the table held for r it keeps having held.
LEMMA HeldStays ==
  ASSUME AttributionInv, NEW v \in Mappings \cup {Nil}, SetRow(v),
         NEW r \in Requests, NEW m \in Mappings \cup {Nil}, HeldFor(r, m)
  PROVE  HeldFor(r, m)'
<1>1. /\ row' = v /\ left' = [left EXCEPT ![row] = now] /\ UNCHANGED <<now, answer>>
  BY DEF SetRow, Resolver!SetRow
<1>2. now >= answer[r].at - Age
  BY AttributionAssumption DEF AttributionInv, Dated
<1>3. CASE row = m
  BY <1>1, <1>2, <1>3 DEF HeldFor, Resolver!HeldSince, AttributionInv, Dated
<1>4. CASE row # m
  BY <1>1, <1>4 DEF HeldFor, Resolver!HeldSince, AttributionInv, Dated
<1>. QED BY <1>3, <1>4

\* A step without an answer tags no request that carries the key and lacks a
\* header, and changes no tag.
LEMMA ServeKeepsTags ==
  ASSUME Inv, Serve, NEW q \in WithKey, ~HasBoth(q)
  PROVE  /\ who'[q] = who[q]
         /\ mode # "up" => mode' # "up"
         /\ client[q] = "gone" => client'[q] = "gone"
         /\ pc'[q] \notin {"idle", "tag", "lookup"} /\ end'[q] # "cut" =>
              pc[q] \notin {"idle", "tag", "lookup"} /\ end[q] # "cut"
<1> USE RequestAssumption DEF Inv, Typed, TypeOK
<1>1. ASSUME NEW r \in Requests,
             \/ Arrive(r) \/ ClientLeaves(r) \/ Tag(r) \/ Answer(r) \/ StreamEnds(r)
             \/ Fail(r) \/ Emit(r) \/ Reply(r)
      PROVE  /\ who'[q] = who[q] /\ mode' = mode
             /\ client[q] = "gone" => client'[q] = "gone"
             /\ pc'[q] \notin {"idle", "tag", "lookup"} /\ end'[q] # "cut" =>
                  pc[q] \notin {"idle", "tag", "lookup"} /\ end[q] # "cut"
  <2>1. CASE q # r
    <3>1. RequestNext(r) /\ q \in Requests \ {r}
      BY <1>1, <2>1 DEF RequestNext
    <3>. QED BY <3>1, Frame
  <2>2. CASE q = r
    <3>0. end[q] = "cut" => pc[q] = "done"
      BY DEF Staged
    <3>1. CASE Arrive(r) \/ ClientLeaves(r)
      BY <2>2, <3>0, <3>1 DEF Arrive, ClientLeaves
    <3>2. CASE Tag(r)
      BY <2>2, <3>2 DEF Tag, TagByHeaders, Asks, Lookup
    <3>3. CASE Answer(r)
      BY <2>2, <3>0, <3>3 DEF Answer, Connect, ReadLine, ReadBody
    <3>4. CASE StreamEnds(r) \/ Emit(r) \/ Reply(r)
      BY <2>2, <3>0, <3>4 DEF StreamEnds, Emit, Reply, Finish
    <3>5. CASE Fail(r)
      BY <2>2, <3>0, <3>5 DEF Fail, ConnectFails, BodyFails, Finish
    <3>. QED BY <1>1, <3>1, <3>2, <3>3, <3>4, <3>5
  <2>. QED BY <2>1, <2>2
<1>2. CASE Signal \/ PoolClosed
  BY <1>2 DEF Signal, PoolClosed
<1>3. CASE Exit
  BY <1>3 DEF Exit, Active, Staged
<1>. QED BY <1>1, <1>2, <1>3 DEF Serve

LEMMA AttributionInvStep == AttributionInv /\ [AttributionNext]_allVars => AttributionInv'
<1> SUFFICES ASSUME AttributionInv, [AttributionNext]_allVars PROVE AttributionInv'
  OBVIOUS
<1>1. Inv'
  BY AttributionStep, InvStep DEF AttributionInv
<1>2. ASSUME NEW q \in WithKey PROVE Attributed(q)'
  <2>0. Attributed(q) /\ q \in Requests
    BY RequestAssumption DEF AttributionInv
  <2>1. CASE Tick
    BY <2>0, <2>1 DEF Tick, Resolver!Tick, vars, Attributed, HeldFor, Resolver!HeldSince
  <2>2. ASSUME NEW v \in Mappings \cup {Nil}, SetRow(v) PROVE Attributed(q)'
    BY <2>0, <2>2, HeldStays DEF SetRow, Resolver!SetRow, vars, Attributed
  <2>3. ASSUME NEW r \in Requests, Refused(r) \/ \E m \in Mappings \cup {Nil} : Answered(r, m)
        PROVE  Attributed(q)'
    <3>1. CASE q = r
      BY <2>3, <3>1, AnswerAttributes
    <3>2. CASE q # r
      <4>1. Ask(r)
        BY <2>3 DEF Refused, Answered, Ask
      <4>2. /\ mode' = mode /\ client'[q] = client[q] /\ pc'[q] = pc[q] /\ who'[q] = who[q]
            /\ end'[q] = end[q]
        BY <2>0, <3>2, <4>1, Frame DEF RequestNext, AttributionInv, Inv
      <4>3. answer'[q] = answer[q] /\ UNCHANGED <<now, row, left>>
        BY <2>0, <2>3, <3>2 DEF Refused, Answered, Resolver!Answer, Resolver!Fail, Resolver!Gives,
           AttributionInv
      <4>. QED BY <2>0, <4>2, <4>3 DEF Attributed, HeldFor, Resolver!HeldSince
    <3>. QED BY <3>1, <3>2
  <2>4. CASE Unanswered
    <3>1. UNCHANGED <<now, row, left, answer>>
      BY <2>4 DEF Unanswered, resolverVars
    <3>2. \A m : HeldFor(q, m)' = HeldFor(q, m)
      BY <3>1 DEF HeldFor, Resolver!HeldSince
    <3>3. CASE HasBoth(q)
      BY <3>3 DEF Attributed
    <3>4. CASE ~HasBoth(q)
      <4>1. /\ who'[q] = who[q]
            /\ mode # "up" => mode' # "up"
            /\ client[q] = "gone" => client'[q] = "gone"
            /\ pc'[q] \notin {"idle", "tag", "lookup"} /\ end'[q] # "cut" =>
                 pc[q] \notin {"idle", "tag", "lookup"} /\ end[q] # "cut"
        BY <2>4, <3>4, ServeKeepsTags DEF Unanswered, AttributionInv
      <4>. QED BY <2>0, <3>1, <3>2, <4>1 DEF Attributed
    <3>. QED BY <3>3, <3>4
  <2>5. CASE UNCHANGED allVars
    BY <2>0, <2>5 DEF allVars, vars, resolverVars, Attributed, HeldFor, Resolver!HeldSince
  <2>. QED BY <2>1, <2>2, <2>3, <2>4, <2>5 DEF AttributionNext
<1>. QED BY <1>1, <1>2, Dating DEF AttributionInv

LEMMA AttributionInitInv == AttributionInit => AttributionInv
<1> SUFFICES ASSUME AttributionInit PROVE AttributionInv
  OBVIOUS
<1>1. Inv /\ \A r \in Requests : pc[r] = "idle"
  BY InitInv DEF AttributionInit, Init
<1>2. answer \in [Requests -> [value : Mappings \cup {Nil}, at : Nat, failed : BOOLEAN]]
      /\ \A r \in Requests : answer[r].at = 0
  BY DEF AttributionInit, Resolver!Init, Resolver!NoAnswer
<1>3. Dated /\ now > 0
  BY <1>2, AttributionAssumption DEF AttributionInit, Resolver!Init, Dated
<1>4. \A r \in WithKey : Attributed(r)
  BY <1>1, RequestAssumption DEF Attributed
<1>. QED BY <1>1, <1>2, <1>3, <1>4 DEF AttributionInv

\* A request that carries the key is attributed by what the store held for it
\* when it was tagged, or within a time to live and a lookup before, and as
\* default/unknown if the call failed for one of the three reasons (tagger.go:
\* 45-72, keyresolver.go:48-74), for any headers, mappings and changes of the key.
THEOREM KeysAttribute == AttributionSpec => []AttributedByTheTable
<1>1. AttributionInv => AttributedByTheTable
  <2> SUFFICES ASSUME AttributionInv, NEW r \in WithKey PROVE
        /\ Attributed(r)
        /\ emitted[r] # <<>> => emitted[r][1].who = who[r]
    BY DEF AttributedByTheTable, Attributed
  <2>1. emitted[r] = <<>> \/ emitted[r] = <<Event(r)>>
    BY RequestAssumption DEF AttributionInv, Inv, Staged
  <2>2. emitted[r] = <<Event(r)>> => emitted[r][1].who = who[r]
    BY DEF Event
  <2>. QED BY <2>1, <2>2 DEF AttributionInv
<1>. QED BY <1>1, AttributionInitInv, AttributionInvStep, PTL DEF AttributionSpec

=============================================================================
