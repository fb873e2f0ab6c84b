-------------------------- MODULE AgentActivityProofs --------------------------
(***************************************************************************)
(* What the dashboard says of an agent, for any number of ingest           *)
(* processes, API clients, requests and redeliveries.                      *)
(***************************************************************************)
EXTENDS AgentActivity, FiniteSetTheorems, TLAPS

USE DEF Row, Unedited, vars, apiVars

\* An upsert that runs is for a request that was made, and began when the event
\* was young enough and not longer ago than a statement lasts.
Times ==
  /\ \A w \in Ingest : upsert[w] # None =>
       /\ upsert[w].at <= now /\ now <= upsert[w].at + MaxStatement
       /\ \E e \in Requests : sent[e] > 0 /\ upsert[w].at <= sent[e] + MaxLag
  /\ row # None =>
       /\ latest <= now
       /\ \E e \in Requests : sent[e] > 0 /\ row.seen <= sent[e] + MaxLag
  /\ SeenNearlyMonotone

\* The row has the latest id, which no client has been told is gone; what a
\* client knows or has edited is not later.
Ids ==
  /\ \A c \in Clients : known[c] <= ids
  /\ edited \subseteq 0..ids /\ gone \subseteq 0..ids
  /\ row # None => row.id = ids
  /\ \A c \in Clients :
       put[c] = "read" /\ row # None /\ row.id = known[c] => row.name # Unedited
  /\ AnsweredEditsStick /\ NotFoundIsFinal

\* Upsert a is for a request that was made, and one of those begun for it.
Begun(a) == sent[a[1]] > 0 /\ a[2] \in 1..tries[a[1]]

\* Every upsert has a number of its own, and the ones that run are not applied.
Numbered ==
  /\ \A w \in Ingest : upsert[w] # None =>
       /\ Begun(upsert[w].of)
       /\ upsert[w].of \notin applied
       /\ \A v \in Ingest \ {w} : upsert[v] # None => upsert[v].of # upsert[w].of
  /\ \A a \in applied : Begun(a)
  /\ IsFiniteSet(applied) /\ IsFiniteSet(Made)
  /\ row # None => row.count = Cardinality(applied)

-----------------------------------------------------------------------------
LEMMA InitInv == Init => TypeOK /\ Times /\ Ids /\ Numbered
<1> SUFFICES ASSUME Init PROVE TypeOK /\ Times /\ Ids /\ Numbered
  OBVIOUS
<1> USE ActivityAssumption DEF Init
<1>1. TypeOK
  BY DEF TypeOK
<1>2. Times
  BY DEF Times, SeenNearlyMonotone
<1>3. Ids
  BY DEF Ids, AnsweredEditsStick, NotFoundIsFinal
<1>4. Numbered
  <2>1. Made = {}
    BY DEF Made
  <2> QED
    BY <2>1, FS_EmptySet DEF Numbered
<1> QED
  BY <1>1, <1>2, <1>3, <1>4

LEMMA StepType == TypeOK /\ [Next]_vars => TypeOK'
<1> SUFFICES ASSUME TypeOK, [Next]_vars PROVE TypeOK'
  OBVIOUS
<1> USE ActivityAssumption DEF TypeOK
<1>1. CASE Tick
  BY <1>1 DEF Tick
<1>2. CASE \E e \in Requests : Request(e)
  BY <1>2 DEF Request
<1>3. ASSUME NEW w \in Ingest, NEW e \in Requests, UpsertBegins(w, e) PROVE TypeOK'
  BY <1>3 DEF UpsertBegins
<1>4. ASSUME NEW w \in Ingest, UpsertFails(w) PROVE TypeOK'
  BY <1>4 DEF UpsertFails
<1>5. ASSUME NEW w \in Ingest, UpsertWrites(w) PROVE TypeOK'
  <2>1. upsert[w] \in [of : Requests \X Nat, at : Nat]
    BY <1>5 DEF UpsertWrites
  <2>2. CASE Inserts(w)
    BY <1>5, <2>1, <2>2 DEF UpsertWrites, Inserts, Discovered
  <2>3. CASE Updates(w)
    <3>1. row \in Row /\ row' = [row EXCEPT !.seen = upsert[w].at, !.count = @ + 1]
      BY <2>3 DEF Updates, Touched
    <3>2. row' = [id |-> row.id, seen |-> upsert[w].at, count |-> row.count + 1, name |-> row.name]
      BY <3>1
    <3>3. row.count + 1 \in Nat /\ row' \in Row
      BY <2>1, <3>1, <3>2
    <3>4. applied' \subseteq Requests \X Nat /\ latest' \in Nat /\ ids' \in Nat
      BY <2>1, <2>3 DEF Updates
    <3> QED
      BY <1>5, <3>3, <3>4 DEF UpsertWrites
  <2> QED
    BY <1>5, <2>2, <2>3 DEF UpsertWrites
<1>6. ASSUME NEW c \in Clients, ListAgents(c) \/ GetAgent(c) \/ DeleteAgent(c) PROVE TypeOK'
  <2>1. Call => calls' \in 0..MaxCalls
    BY DEF Call
  <2>2. CASE ListAgents(c)
    BY <2>1, <2>2 DEF ListAgents
  <2>3. CASE GetAgent(c)
    BY <2>1, <2>3 DEF GetAgent
  <2>4. CASE DeleteAgent(c)
    <3>1. /\ Call /\ gone' \in {gone, gone \cup {known[c]}}
          /\ row' \in {row, None} /\ applied' \in {applied, {}} /\ latest' \in {latest, 0}
          /\ UNCHANGED <<now, sent, tries, upsert, ids, known, put, edited>>
      BY <2>4 DEF DeleteAgent, Removes
    <3>2. calls' \in 0..MaxCalls /\ gone' \subseteq Nat
      BY <2>1, <3>1
    <3>3. /\ row' \in Row \cup {None} /\ latest' \in Nat
          /\ applied' \subseteq Requests \X Nat
      BY <3>1
    <3> QED
      BY <3>1, <3>2, <3>3
  <2> QED
    BY <1>6, <2>2, <2>3, <2>4
<1>7. ASSUME NEW c \in Clients, PutAgent(c) \/ PutUpdates(c) \/ PutFails(c) \/ PutReads(c) PROVE TypeOK'
  BY <1>7 DEF PutAgent, PutUpdates, PutFails, PutReads, Call, Found
<1>8. CASE UNCHANGED vars
  BY <1>8
<1> QED
  BY <1>1, <1>2, <1>3, <1>4, <1>5, <1>6, <1>7, <1>8 DEF Next, IngestNext, ApiNext

-----------------------------------------------------------------------------
LEMMA StepTimes == TypeOK /\ TypeOK' /\ Times /\ [Next]_vars => Times'
<1> SUFFICES ASSUME TypeOK, TypeOK', Times, [Next]_vars PROVE Times'
  OBVIOUS
<1> USE ActivityAssumption DEF TypeOK, Times, SeenNearlyMonotone
<1>1. CASE Tick
  BY <1>1 DEF Tick
<1>2. CASE \E e \in Requests : Request(e)
  <2> PICK e \in Requests : Request(e)
    BY <1>2
  <2>1. \A f \in Requests : sent[f] > 0 => sent'[f] = sent[f]
    BY DEF Request
  <2> QED
    BY <2>1 DEF Request
<1>3. ASSUME NEW w \in Ingest, NEW e \in Requests, UpsertBegins(w, e) PROVE Times'
  BY <1>3 DEF UpsertBegins
<1>4. ASSUME NEW w \in Ingest, UpsertFails(w) PROVE Times'
  BY <1>4 DEF UpsertFails
<1>5. ASSUME NEW w \in Ingest, UpsertWrites(w) PROVE Times'
  <2>1. upsert[w] # None /\ upsert[w] \in [of : Requests \X Nat, at : Nat]
    BY <1>5 DEF UpsertWrites
  <2>2. /\ UNCHANGED <<now, sent>>
        /\ \A v \in Ingest : upsert'[v] # None => upsert'[v] = upsert[v]
    BY <1>5 DEF UpsertWrites
  <2>3. row'.seen = upsert[w].at /\ latest' <= now
    <3>1. CASE Inserts(w)
      BY <2>1, <3>1 DEF Inserts, Discovered
    <3>2. CASE Updates(w)
      <4>1. row # None /\ row \in Row /\ row' = [row EXCEPT !.seen = upsert[w].at, !.count = @ + 1]
        BY <3>2 DEF Updates, Touched
      <4>2. latest' \in {latest, upsert[w].at}
        BY <3>2 DEF Updates
      <4> QED
        BY <2>1, <4>1, <4>2
    <3> QED
      BY <1>5, <3>1, <3>2 DEF UpsertWrites
  <2> QED
    BY <2>1, <2>2, <2>3
<1>6. ASSUME NEW c \in Clients, ListAgents(c) \/ GetAgent(c) \/ DeleteAgent(c) PROVE Times'
  BY <1>6 DEF ListAgents, GetAgent, DeleteAgent, Removes
<1>7. ASSUME NEW c \in Clients, PutAgent(c) \/ PutUpdates(c) \/ PutFails(c) \/ PutReads(c) PROVE Times'
  BY <1>7 DEF PutAgent, PutUpdates, PutFails, PutReads, Found
<1>8. CASE UNCHANGED vars
  BY <1>8
<1> QED
  BY <1>1, <1>2, <1>3, <1>4, <1>5, <1>6, <1>7, <1>8 DEF Next, IngestNext, ApiNext

LEMMA StepIds == TypeOK /\ TypeOK' /\ Ids /\ [Next]_vars => Ids'
<1> SUFFICES ASSUME TypeOK, TypeOK', Ids, [Next]_vars PROVE Ids'
  OBVIOUS
<1>0. /\ ids \in Nat /\ ids' \in Nat
      /\ known \in [Clients -> Nat] /\ put \in [Clients -> {"idle", "update", "read"}]
      /\ row # None => row \in Row
  BY DEF TypeOK
<1> USE <1>0 DEF Ids, AnsweredEditsStick, NotFoundIsFinal
<1>1. CASE UNCHANGED <<row, ids, apiVars>>
  BY <1>1
<1>2. ASSUME NEW w \in Ingest, UpsertWrites(w) PROVE Ids'
  <2>1. UNCHANGED <<known, put, edited, gone>>
    BY <1>2 DEF UpsertWrites
  <2>2. CASE Inserts(w)
    <3>1. row'.id = ids' /\ ids' = ids + 1
      BY <2>2 DEF Inserts, Discovered
    <3>2. /\ \A c \in Clients : known[c] <= ids' /\ known[c] # ids'
          /\ edited \subseteq 0..ids' /\ ids' \notin edited
          /\ gone \subseteq 0..ids' /\ ids' \notin gone
      BY <3>1
    <3> QED
      BY <2>1, <3>1, <3>2
  <2>3. CASE Updates(w)
    <3>1. row # None /\ row' = [row EXCEPT !.seen = upsert[w].at, !.count = @ + 1] /\ ids' = ids
      BY <2>3 DEF Updates, Touched
    <3>2. row'.id = row.id /\ row'.name = row.name
      BY <3>1
    <3> QED
      BY <2>1, <3>1, <3>2
  <2> QED
    BY <1>2, <2>2, <2>3 DEF UpsertWrites
<1>3. ASSUME NEW c \in Clients, ListAgents(c) PROVE Ids'
  <2>1. known' = [known EXCEPT ![c] = ids] /\ put[c] = "idle"
    BY <1>3 DEF ListAgents
  <2>2. UNCHANGED <<row, ids, put, edited, gone>>
    BY <1>3 DEF ListAgents
  <2>3. \A d \in Clients : known'[d] \in {known[d], ids} /\ (put[d] = "read" => known'[d] = known[d])
    BY <2>1
  <2>4. \A d \in Clients : known'[d] <= ids'
    BY <2>2, <2>3
  <2> QED
    BY <2>2, <2>3, <2>4
<1>4. ASSUME NEW c \in Clients, GetAgent(c) PROVE Ids'
  <2>0. known[c] \in 0..ids
    OBVIOUS
  <2>1. /\ UNCHANGED <<row, ids, known, put, edited>>
        /\ gone' = gone \/ (gone' = gone \cup {known[c]} /\ ~Found(known[c]))
    BY <1>4 DEF GetAgent
  <2>2. gone' \subseteq 0..ids /\ (row # None => row.id \notin gone')
    BY <2>0, <2>1 DEF Found
  <2> QED
    BY <2>1, <2>2
<1>5. ASSUME NEW c \in Clients, DeleteAgent(c) PROVE Ids'
  <2>0. known[c] \in 0..ids
    OBVIOUS
  <2>1. /\ UNCHANGED <<ids, known, put, edited>>
        /\ gone' = gone \/ gone' = gone \cup {known[c]}
        /\ row' = None \/ (row' = row /\ gone' = gone)
    BY <1>5 DEF DeleteAgent, Removes
  <2>2. gone' \subseteq 0..ids
    BY <2>0, <2>1
  <2> QED
    BY <2>1, <2>2
<1>6. ASSUME NEW c \in Clients, PutAgent(c) PROVE Ids'
  <2>1. put' = [put EXCEPT ![c] = "update"] /\ UNCHANGED <<row, ids, known, edited, gone>>
    BY <1>6 DEF PutAgent
  <2> QED
    BY <2>1
<1>7. ASSUME NEW c \in Clients, PutUpdates(c) \/ PutFails(c) PROVE Ids'
  <2>1. /\ put' = [put EXCEPT ![c] = "read"] \/ put' = [put EXCEPT ![c] = "idle"]
        /\ UNCHANGED <<ids, known, edited, gone>>
    BY <1>7 DEF PutUpdates, PutFails
  <2>2. CASE Found(known[c]) /\ row' = [row EXCEPT !.name = c]
    <3>1. row # None /\ row.id = known[c] /\ row' = [row EXCEPT !.name = c]
      BY <2>2 DEF Found
    <3>2. row' = [id |-> row.id, seen |-> row.seen, count |-> row.count, name |-> c]
      BY <3>1
    <3>3. c # Unedited
      BY ActivityAssumption
    <3>4. row'.id = row.id /\ row'.name # Unedited
      BY <3>2, <3>3
    <3> QED
      BY <2>1, <3>1, <3>4
  <2>3. CASE row' = row /\ (PutUpdates(c) => ~Found(known[c]))
    <3>1. PutFails(c) => put' = [put EXCEPT ![c] = "idle"]
      BY DEF PutFails
    <3> QED
      BY <1>7, <2>1, <2>3, <3>1 DEF Found
  <2> QED
    BY <1>7, <2>2, <2>3 DEF PutUpdates, PutFails
<1>8. ASSUME NEW c \in Clients, PutReads(c) PROVE Ids'
  <2>1. /\ put[c] = "read" /\ put' = [put EXCEPT ![c] = "idle"]
        /\ edited' \in {edited, edited \cup {known[c]}}
        /\ UNCHANGED <<row, ids, known, gone>>
    BY <1>8 DEF PutReads
  <2>2. row # None /\ row.id = known[c] => row.name # Unedited
    BY <2>1
  <2>3. edited' \subseteq 0..ids
    <3>1. known[c] \in 0..ids
      OBVIOUS
    <3> QED
      BY <2>1, <3>1
  <2>4. \A d \in Clients : put'[d] = "read" => put[d] = "read"
    BY <2>1
  <2>5. row # None /\ row.id \in edited' => row.name # Unedited
    BY <2>1, <2>2
  <2> QED
    BY <2>1, <2>3, <2>4, <2>5
<1>9. Next => \/ UNCHANGED <<row, ids, apiVars>>
              \/ \E w \in Ingest : UpsertWrites(w)
              \/ \E c \in Clients : ApiNext(c)
  BY DEF Next, IngestNext, Tick, Request, UpsertBegins, UpsertFails
<1> QED
  BY <1>1, <1>2, <1>3, <1>4, <1>5, <1>6, <1>7, <1>8, <1>9 DEF ApiNext

-----------------------------------------------------------------------------
LEMMA StepNumbered == TypeOK /\ TypeOK' /\ Numbered /\ [Next]_vars => Numbered'
<1> SUFFICES ASSUME TypeOK, TypeOK', Numbered, [Next]_vars PROVE Numbered'
  OBVIOUS
<1> USE ActivityAssumption DEF TypeOK, Numbered
<1>0. UNCHANGED sent => Made' = Made /\ \A a : UNCHANGED tries => Begun(a)' = Begun(a)
  BY DEF Made, Begun
<1>1a. CASE Tick
  BY <1>0, <1>1a DEF Tick
<1>1. ASSUME NEW e \in Requests, Request(e) PROVE Numbered'
  <2>1. \A a \in Requests \X Nat : Begun(a) => Begun(a)'
    BY <1>1 DEF Request, Begun
  <2>2. Made' = Made \cup {e} /\ UNCHANGED <<upsert, row, applied>>
    BY <1>1 DEF Request, Made
  <2>3. IsFiniteSet(Made')
    BY <2>2, FS_AddElement
  <2>4. \A w \in Ingest : upsert[w] # None => upsert[w].of \in Requests \X Nat
    OBVIOUS
  <2> QED
    BY <2>1, <2>2, <2>3, <2>4
<1>2. ASSUME NEW w \in Ingest, NEW e \in Requests, UpsertBegins(w, e) PROVE Numbered'
  <2>1. upsert' = [upsert EXCEPT ![w] = [of |-> <<e, tries[e] + 1>>, at |-> now]]
    BY <1>2 DEF UpsertBegins
  <2>2. upsert'[w] # None /\ upsert'[w].of = <<e, tries[e] + 1>>
    BY <2>1
  <2>3. UNCHANGED <<row, applied>> /\ tries' = [tries EXCEPT ![e] = @ + 1]
    BY <1>2 DEF UpsertBegins
  <2>4. \A f \in Requests : tries'[f] >= tries[f]
    BY <2>3
  <2>5. tries'[e] = tries[e] + 1
    BY <2>3
  <2>6. \A a \in Requests \X Nat : Begun(a) => a # <<e, tries[e] + 1>> /\ Begun(a)'
    BY <1>2, <2>4 DEF Begun, UpsertBegins
  <2>9. \A a : a = <<e, tries[e] + 1>> => Begun(a)'
    <3>1. sent'[e] > 0 /\ tries[e] + 1 \in 1..tries'[e]
      BY <1>2, <2>5 DEF UpsertBegins
    <3> QED
      BY <3>1 DEF Begun
  <2>7. \A v \in Ingest \ {w} : upsert'[v] = upsert[v]
    BY <2>1
  <2>8. \A v \in Ingest \ {w} : upsert[v] # None =>
          /\ upsert[v].of # <<e, tries[e] + 1>>
          /\ Begun(upsert[v].of)'
    <3> SUFFICES ASSUME NEW v \in Ingest \ {w}, upsert[v] # None
                 PROVE  upsert[v].of # <<e, tries[e] + 1>> /\ Begun(upsert[v].of)'
      BY <2>7
    <3>1. upsert[v].of \in Requests \X Nat /\ Begun(upsert[v].of)
      OBVIOUS
    <3> QED
      BY <2>6, <3>1, <2>7
  <2>10. <<e, tries[e] + 1>> \notin applied /\ \A a \in applied : Begun(a)'
    BY <2>6
  <2>11. IsFiniteSet(Made')
    BY <1>0, <1>2 DEF UpsertBegins
  <2> QED
    BY <2>2, <2>3, <2>7, <2>8, <2>9, <2>10, <2>11
<1>3. ASSUME NEW w \in Ingest, UpsertFails(w) PROVE Numbered'
  BY <1>0, <1>3 DEF UpsertFails
<1>4. ASSUME NEW w \in Ingest, UpsertWrites(w) PROVE Numbered'
  <2> DEFINE a == upsert[w].of
  <2>1. a \in Requests \X Nat /\ a \notin applied /\ Begun(a)
    BY <1>4 DEF UpsertWrites
  <2>2. UNCHANGED <<sent, tries>> /\ upsert' = [upsert EXCEPT ![w] = None]
    BY <1>4 DEF UpsertWrites
  <2>3. \A v \in Ingest : upsert'[v] # None => v # w /\ upsert'[v] = upsert[v]
    BY <2>2
  <2>4. applied' \in {{a}, applied \cup {a}}
    BY <1>4 DEF UpsertWrites, Inserts, Updates
  <2>5. \A v \in Ingest : upsert'[v] # None => upsert'[v].of \notin applied'
    BY <1>4, <2>3, <2>4 DEF UpsertWrites
  <2>6. IsFiniteSet(applied')
    <3>1. IsFiniteSet({a}) /\ IsFiniteSet(applied \cup {a})
      BY FS_Singleton, FS_AddElement
    <3> QED
      BY <2>4, <3>1
  <2>7. row' # None => row'.count = Cardinality(applied')
    <3>1. CASE Inserts(w)
      BY <3>1, FS_Singleton DEF Inserts, Discovered
    <3>2. CASE Updates(w)
      <4>1. row # None /\ row' = Touched(row, upsert[w].at) /\ applied' = applied \cup {a}
        BY <3>2 DEF Updates
      <4>2. Cardinality(applied') = Cardinality(applied) + 1
        BY <2>1, <4>1, FS_AddElement
      <4> QED
        BY <4>1, <4>2 DEF Touched
    <3> QED
      BY <1>4, <3>1, <3>2 DEF UpsertWrites
  <2> HIDE DEF a
  <2> QED
    BY <1>0, <2>1, <2>2, <2>3, <2>4, <2>5, <2>6, <2>7
<1>5. ASSUME NEW c \in Clients, ListAgents(c) \/ GetAgent(c) \/ PutAgent(c) \/ PutReads(c) PROVE Numbered'
  BY <1>0, <1>5 DEF ListAgents, GetAgent, PutAgent, PutReads
<1>6. ASSUME NEW c \in Clients, PutUpdates(c) \/ PutFails(c) PROVE Numbered'
  BY <1>0, <1>6 DEF PutUpdates, PutFails, Found
<1>7. ASSUME NEW c \in Clients, DeleteAgent(c) PROVE Numbered'
  BY <1>0, <1>7, FS_EmptySet DEF DeleteAgent, Removes, Found
<1>8. CASE UNCHANGED vars
  BY <1>0, <1>8
<1> QED
  BY <1>1a, <1>1, <1>2, <1>3, <1>4, <1>5, <1>6, <1>7, <1>8 DEF Next, IngestNext, ApiNext

-----------------------------------------------------------------------------
LEMMA Invariance == Spec => [](TypeOK /\ Times /\ Ids /\ Numbered)
<1> QED
  BY InitInv, StepType, StepTimes, StepIds, StepNumbered, PTL DEF Spec

\* The variables keep their types.
THEOREM TypeCorrect == Spec => []TypeOK
BY Invariance, PTL

\* An agent shown as active has made a request within the window and the time
\* an event may spend in the stream, whatever is redelivered or edited.
THEOREM ActivityIsRecent == Spec => []ActiveIsRecent
<1>1. TypeOK /\ Times => ActiveIsRecent
  BY ActivityAssumption DEF TypeOK, Times, ActiveIsRecent, Active
<1> QED
  BY <1>1, Invariance, PTL

\* last_seen_at goes back by no more than one statement lasts.
THEOREM SeenBound == Spec => []SeenNearlyMonotone
<1>1. Times => SeenNearlyMonotone
  BY DEF Times
<1> QED
  BY <1>1, Invariance, PTL

\* request_count is the number of upserts applied, with any number of processes,
\* and so at most MaxDeliver for each request made.
THEOREM CountIsExact == Spec => []CountIsUpserts
<1>1. ASSUME TypeOK, Numbered PROVE CountIsUpserts
  <2> USE ActivityAssumption
  <2>1. IsFiniteSet(Made) /\ IsFiniteSet(1..MaxDeliver)
        /\ Cardinality(1..MaxDeliver) = MaxDeliver
    BY <1>1, FS_Interval DEF Numbered
  <2>2. /\ IsFiniteSet(Made \X (1..MaxDeliver))
        /\ Cardinality(Made \X (1..MaxDeliver)) = Cardinality(Made) * MaxDeliver
    BY <2>1, FS_Product
  <2>3. applied \subseteq Made \X (1..MaxDeliver)
    BY <1>1 DEF Numbered, Begun, Made, TypeOK
  <2>4. Cardinality(applied) <= Cardinality(Made) * MaxDeliver
    BY <2>2, <2>3, FS_Subset
  <2>5. Cardinality(Made) \in Nat
    BY <2>1, FS_CardinalityType
  <2> QED
    BY <1>1, <2>4, <2>5 DEF Numbered, CountIsUpserts
<1> QED
  BY <1>1, Invariance, PTL

\* An edit that was answered with the row is not undone by traffic.
THEOREM EditsStick == Spec => []AnsweredEditsStick
<1>1. Ids => AnsweredEditsStick
  BY DEF Ids
<1> QED
  BY <1>1, Invariance, PTL

\* An id that a GET has not found, or a DELETE has removed, stays unused.
THEOREM NotFoundStays == Spec => []NotFoundIsFinal
<1>1. Ids => NotFoundIsFinal
  BY DEF Ids
<1> QED
  BY <1>1, Invariance, PTL

=============================================================================
