--------------------------- MODULE KeyResolverProofs ---------------------------
(***************************************************************************)
(* The staleness bound of the key cache, for any number of requests and    *)
(* mappings and any time to live, lookup time and length of a run.         *)
(***************************************************************************)
EXTENDS KeyResolver, TLAPS

\* When the table held the mapping of entry x, by the latest.
Origin(x) == x.expiresAt - (Ttl + LookupTime)

CacheFresh == cache # NoEntry => HeldSince(cache.mapping, Origin(cache))

\* What Resolve has in its local variables is as fresh as what it came from.
LocalsFresh ==
  \A r \in Requests :
    /\ pc[r] = "check" => /\ entry[r] # NoEntry
                          /\ entry[r].expiresAt <= now + Ttl
                          /\ HeldSince(entry[r].mapping, Origin(entry[r]))
    /\ pc[r] = "store" => /\ HeldSince(mapping[r], readAt[r])
                          /\ now <= readAt[r] + LookupTime

AnswerFresh ==
  \A r \in Requests :
    ~answer[r].failed => HeldSince(answer[r].value, answer[r].at - (Ttl + LookupTime))

IInv == TypeOK /\ CacheFresh /\ LocalsFresh /\ AnswerFresh

\* Every variable keeps its type.
LEMMA TypeStep == TypeOK /\ LocalsFresh /\ [Next]_vars => TypeOK'
<1> SUFFICES ASSUME TypeOK, LocalsFresh, [Next]_vars PROVE TypeOK'
  OBVIOUS
<1> USE ResolverAssumption DEF Clock, Epoch
<1>1. CASE Tick
  BY <1>1 DEF TypeOK, Tick, Entry
<1>2. ASSUME NEW v \in Value, SetRow(v) PROVE TypeOK'
  <2>1. left' \in [Value -> 0..now]
    BY <1>2 DEF TypeOK, SetRow
  <2>. QED BY <1>2, <2>1 DEF TypeOK, SetRow
<1>3. ASSUME NEW r \in Requests, Load(r) PROVE TypeOK'
  BY <1>3 DEF TypeOK, Load, Goes
<1>4. ASSUME NEW r \in Requests, Hit(r) PROVE TypeOK'
  <2>1. entry[r].mapping \in Value
    BY <1>4 DEF TypeOK, LocalsFresh, Hit, Goes, Entry
  <2>2. now \in 0..now
    BY DEF TypeOK
  <2>3. answer' \in [Requests -> [value : Value, at : 0..now, failed : BOOLEAN]]
    BY <1>4, <2>1, <2>2 DEF TypeOK, Hit, Returns
  <2>. QED BY <1>4, <2>3 DEF TypeOK, Hit, Goes
<1>5. ASSUME NEW r \in Requests, Expired(r) \/ Evict(r) PROVE TypeOK'
  <2>1. CASE Expired(r)
    BY <2>1 DEF TypeOK, Expired, Goes
  <2>2. CASE Evict(r)
    BY <2>2 DEF TypeOK, Evict, Goes
  <2>. QED BY <1>5, <2>1, <2>2
<1>6. ASSUME NEW r \in Requests, Lookup(r) PROVE TypeOK'
  BY <1>6 DEF TypeOK, Lookup, Goes
<1>7. ASSUME NEW r \in Requests, LookupFails(r) PROVE TypeOK'
  BY <1>7 DEF TypeOK, LookupFails, Goes, Returns, Value
<1>8. ASSUME NEW r \in Requests, StoreEntry(r) PROVE TypeOK'
  BY <1>8 DEF TypeOK, StoreEntry, Goes, Returns, Entry
<1>9. ASSUME NEW r \in Requests, Begin(r) PROVE TypeOK'
  BY <1>9 DEF TypeOK, Begin, Goes, NoAnswer, Value
<1>10. CASE UNCHANGED vars
  BY <1>10 DEF TypeOK, vars
<1>. QED
  BY <1>1, <1>2, <1>3, <1>4, <1>5, <1>6, <1>7, <1>8, <1>9, <1>10 DEF Next, Resolve

\* Only the operator changes the row, and the table's past stays what it was.
LEMMA HeldStable ==
  ASSUME TypeOK, [Next]_vars, NEW v \in Value, NEW t \in Int, t <= now,
         HeldSince(v, t)
  PROVE  row' = v \/ left'[v] >= t
<1>1. ASSUME NEW u \in Value, SetRow(u) PROVE row' = v \/ left'[v] >= t
  BY <1>1 DEF SetRow, TypeOK, HeldSince, Clock
<1>2. ASSUME UNCHANGED <<row, left>> PROVE row' = v \/ left'[v] >= t
  BY <1>2 DEF HeldSince
<1>3. CASE Tick
  BY <1>2, <1>3 DEF Tick
<1>4. ASSUME NEW r \in Requests, Resolve(r) PROVE UNCHANGED <<row, left>>
  BY <1>4
     DEF Resolve, Load, Hit, Expired, Evict, Lookup, LookupFails, StoreEntry, Begin
<1>. QED BY <1>1, <1>2, <1>3, <1>4 DEF Next, vars

\* A value held since t was held since any earlier time.
LEMMA HeldEarlier ==
  ASSUME TypeOK, NEW v \in Value, NEW t \in Int, NEW s \in Int, s <= t,
         HeldSince(v, t)
  PROVE  HeldSince(v, s)
<1>1. left[v] \in Int
  BY DEF TypeOK, Clock
<1>. QED BY <1>1 DEF HeldSince

\* The entry in the cache keeps its freshness: only StoreEntry replaces it, with
\* what a lookup read at most LookupTime ago.
LEMMA CacheStep ==
  ASSUME IInv, TypeOK', [Next]_vars
  PROVE  CacheFresh'
<1> USE ResolverAssumption
<1>1. CASE cache' = cache
  <2> SUFFICES ASSUME cache # NoEntry
               PROVE  HeldSince(cache.mapping, Origin(cache))'
    BY <1>1 DEF CacheFresh
  <2>1. /\ cache.mapping \in Value /\ Origin(cache) \in Int
        /\ Origin(cache) <= now
    BY DEF IInv, TypeOK, Entry, Origin, Clock, Epoch
  <2>2. HeldSince(cache.mapping, Origin(cache))
    BY DEF IInv, CacheFresh
  <2>3. row' = cache.mapping \/ left'[cache.mapping] >= Origin(cache)
    BY <2>1, <2>2, HeldStable DEF IInv
  <2>. QED BY <1>1, <2>3 DEF HeldSince, Origin
<1>2. CASE cache' = NoEntry
  BY <1>2 DEF CacheFresh
<1>3. ASSUME NEW r \in Requests, StoreEntry(r) PROVE CacheFresh'
  <2>1. /\ mapping[r] \in Value /\ readAt[r] \in Int /\ now \in Int
        /\ HeldSince(mapping[r], readAt[r]) /\ now <= readAt[r] + LookupTime
    BY <1>3 DEF IInv, TypeOK, LocalsFresh, StoreEntry, Goes, Clock, Epoch
  <2>2. HeldSince(mapping[r], now - LookupTime)
    BY <2>1, HeldEarlier DEF IInv
  <2>3. /\ cache'.mapping = mapping[r] /\ cache'.expiresAt = now + Ttl
        /\ UNCHANGED <<row, left>>
    BY <1>3 DEF StoreEntry
  <2>4. Origin(cache)' = now - LookupTime
    BY <2>1, <2>3 DEF Origin
  <2>. QED BY <2>2, <2>3, <2>4 DEF CacheFresh, HeldSince
<1>4. \/ cache' = cache \/ cache' = NoEntry
      \/ \E r \in Requests : StoreEntry(r)
  BY DEF Next, Resolve, Tick, SetRow, Load, Hit, Expired, Evict, Lookup,
         LookupFails, Begin, vars
<1>. QED BY <1>1, <1>2, <1>3, <1>4

\* A step of one call leaves the locals of the others alone, and the clock.
LEMMA OthersStay ==
  ASSUME TypeOK, NEW q \in Requests, NEW r \in Requests, Resolve(q)
  PROVE  /\ now' = now
         /\ q # r => /\ pc'[r] = pc[r] /\ entry'[r] = entry[r]
                     /\ mapping'[r] = mapping[r] /\ readAt'[r] = readAt[r]
<1>1. CASE Load(q) \/ Lookup(q) \/ Begin(q)
  BY <1>1 DEF TypeOK, Load, Lookup, Begin, Goes
<1>2. CASE Hit(q) \/ Expired(q) \/ Evict(q) \/ LookupFails(q) \/ StoreEntry(q)
  BY <1>2 DEF TypeOK, Hit, Expired, Evict, LookupFails, StoreEntry, Goes
<1>. QED BY <1>1, <1>2 DEF Resolve

\* What a call goes on to: "check" from Load alone, "store" from Lookup alone.
LEMMA GoesOn ==
  ASSUME TypeOK, NEW r \in Requests, Resolve(r)
  PROVE  /\ pc'[r] = "check" => Load(r)
         /\ pc'[r] = "store" => Lookup(r)
<1> USE DEF TypeOK, Goes
<1>1. CASE Hit(r) \/ Expired(r)
  BY <1>1 DEF Hit, Expired
<1>2. CASE Evict(r) \/ LookupFails(r)
  BY <1>2 DEF Evict, LookupFails
<1>3. CASE StoreEntry(r) \/ Begin(r)
  BY <1>3 DEF StoreEntry, Begin
<1>4. CASE Load(r)
  BY <1>4 DEF Load
<1>5. CASE Lookup(r)
  BY <1>5 DEF Lookup
<1>. QED BY <1>1, <1>2, <1>3, <1>4, <1>5 DEF Resolve

\* The locals of a call keep their freshness.
LEMMA LocalsStep ==
  ASSUME IInv, TypeOK', [Next]_vars
  PROVE  LocalsFresh'
<1> USE ResolverAssumption
<1> SUFFICES
      ASSUME NEW r \in Requests
      PROVE  /\ pc'[r] = "check" => /\ entry'[r] # NoEntry
                                    /\ entry'[r].expiresAt <= now' + Ttl
                                    /\ HeldSince(entry[r].mapping, Origin(entry[r]))'
             /\ pc'[r] = "store" => /\ HeldSince(mapping[r], readAt[r])'
                                    /\ now' <= readAt'[r] + LookupTime
  BY DEF LocalsFresh
<1>1. /\ now \in Nat /\ now' \in Nat /\ now' >= now
  <2>1. now' = now + 1 \/ now' = now
    BY DEF Next, Resolve, Tick, SetRow, Load, Hit, Expired, Evict, Lookup,
           LookupFails, StoreEntry, Begin, vars
  <2>. QED BY <2>1 DEF IInv, TypeOK, Clock, Epoch
<1>2. ASSUME pc'[r] = "check"
      PROVE  /\ entry'[r] # NoEntry
             /\ entry'[r].expiresAt <= now' + Ttl
             /\ HeldSince(entry[r].mapping, Origin(entry[r]))'
  <2>1. CASE pc[r] = "check" /\ entry'[r] = entry[r]
    <3>1. /\ entry[r] # NoEntry /\ entry[r] \in Entry
          /\ entry[r].expiresAt <= now + Ttl
          /\ HeldSince(entry[r].mapping, Origin(entry[r]))
      BY <2>1 DEF IInv, LocalsFresh, TypeOK
    <3>2. /\ entry[r].mapping \in Value /\ entry[r].expiresAt \in Nat
          /\ Origin(entry[r]) \in Int /\ Origin(entry[r]) <= now
      BY <1>1, <3>1 DEF Entry, Origin
    <3>3. row' = entry[r].mapping \/ left'[entry[r].mapping] >= Origin(entry[r])
      BY <3>1, <3>2, HeldStable DEF IInv
    <3>. QED BY <1>1, <2>1, <3>1, <3>2, <3>3 DEF HeldSince, Origin
  <2>2. CASE Load(r)
    <3>1. /\ entry'[r] = cache /\ cache # NoEntry /\ UNCHANGED <<row, left, now>>
      BY <1>2, <2>2 DEF Load, Goes, IInv, TypeOK
    <3>2. HeldSince(cache.mapping, Origin(cache)) /\ cache.expiresAt <= now + Ttl
      BY <3>1 DEF IInv, CacheFresh, TypeOK
    <3>. QED BY <3>1, <3>2 DEF HeldSince, Origin
  <2>3. \/ Load(r)
        \/ pc[r] = "check" /\ entry'[r] = entry[r]
    <3>1. ASSUME NEW q \in Requests, Resolve(q), ~Load(r)
          PROVE  pc[r] = "check" /\ entry'[r] = entry[r]
      BY <1>2, <3>1, OthersStay, GoesOn DEF IInv
    <3>2. ASSUME Tick \/ (\E v \in Value : SetRow(v)) \/ UNCHANGED vars
          PROVE  pc[r] = "check" /\ entry'[r] = entry[r]
      BY <1>2, <3>2 DEF Tick, SetRow, vars
    <3>. QED BY <3>1, <3>2 DEF Next
  <2>. QED BY <2>1, <2>2, <2>3
<1>3. ASSUME pc'[r] = "store"
      PROVE  /\ HeldSince(mapping[r], readAt[r])'
             /\ now' <= readAt'[r] + LookupTime
  <2>1. CASE /\ pc[r] = "store" /\ mapping'[r] = mapping[r] /\ readAt'[r] = readAt[r]
             /\ now' <= readAt[r] + LookupTime
    <3>1. /\ mapping[r] \in Value /\ readAt[r] \in Int /\ readAt[r] <= now
          /\ HeldSince(mapping[r], readAt[r])
      BY <1>1, <2>1 DEF IInv, LocalsFresh, TypeOK
    <3>2. row' = mapping[r] \/ left'[mapping[r]] >= readAt[r]
      BY <3>1, HeldStable DEF IInv
    <3>. QED BY <2>1, <3>2 DEF HeldSince
  <2>2. CASE Lookup(r)
    <3>1. /\ mapping'[r] = row /\ readAt'[r] = now /\ UNCHANGED <<row, left, now>>
      BY <2>2 DEF Lookup, IInv, TypeOK
    <3>. QED BY <1>1, <3>1 DEF HeldSince
  <2>3. \/ Lookup(r)
        \/ /\ pc[r] = "store" /\ mapping'[r] = mapping[r] /\ readAt'[r] = readAt[r]
           /\ now' <= readAt[r] + LookupTime
    <3>1. ASSUME NEW q \in Requests, Resolve(q), ~Lookup(r)
          PROVE  /\ pc[r] = "store" /\ mapping'[r] = mapping[r]
                 /\ readAt'[r] = readAt[r] /\ now' = now
      BY <1>3, <3>1, OthersStay, GoesOn DEF IInv
    <3>2. ASSUME (\E v \in Value : SetRow(v)) \/ UNCHANGED vars
          PROVE  /\ pc[r] = "store" /\ mapping'[r] = mapping[r]
                 /\ readAt'[r] = readAt[r] /\ now' = now
      BY <1>3, <3>2 DEF SetRow, vars
    <3>3. CASE Tick
      BY <1>1, <1>3, <3>3 DEF Tick, IInv, TypeOK
    <3>4. pc[r] = "store" => now <= readAt[r] + LookupTime
      BY DEF IInv, LocalsFresh
    <3>. QED BY <3>1, <3>2, <3>3, <3>4 DEF Next
  <2>. QED BY <2>1, <2>2, <2>3
<1>. QED BY <1>2, <1>3

\* An answer, once given, keeps its freshness; a new one has that of the entry
\* or of the lookup it comes from.
LEMMA AnswerStep ==
  ASSUME IInv, TypeOK', [Next]_vars
  PROVE  AnswerFresh'
<1> USE ResolverAssumption
<1> DEFINE Bound(a) == a.at - (Ttl + LookupTime)
<1> SUFFICES ASSUME NEW r \in Requests, ~answer'[r].failed
             PROVE  HeldSince(answer[r].value, answer[r].at - (Ttl + LookupTime))'
  BY DEF AnswerFresh
<1>1. now \in Int
  BY DEF IInv, TypeOK, Clock, Epoch
<1>2. CASE answer'[r] = answer[r]
  <2>1. /\ answer[r].value \in Value /\ Bound(answer[r]) \in Int
        /\ Bound(answer[r]) <= now
    BY <1>1 DEF IInv, TypeOK
  <2>2. HeldSince(answer[r].value, Bound(answer[r]))
    BY <1>2 DEF IInv, AnswerFresh
  <2>3. row' = answer[r].value \/ left'[answer[r].value] >= Bound(answer[r])
    BY <2>1, <2>2, HeldStable DEF IInv
  <2>. QED BY <1>2, <2>3 DEF HeldSince
<1>3. CASE Hit(r)
  <2>1. /\ entry[r].mapping \in Value /\ entry[r].expiresAt \in Int
        /\ HeldSince(entry[r].mapping, Origin(entry[r]))
    BY <1>3 DEF IInv, TypeOK, LocalsFresh, Hit, Goes, Entry
  <2>2. now - (Ttl + LookupTime) <= Origin(entry[r])
    BY <1>1, <1>3, <2>1 DEF Hit, Origin
  <2>3. HeldSince(entry[r].mapping, now - (Ttl + LookupTime))
    BY <1>1, <2>1, <2>2, HeldEarlier DEF IInv, Origin
  <2>4. /\ answer'[r].value = entry[r].mapping /\ answer'[r].at = now
        /\ UNCHANGED <<row, left>>
    BY <1>3 DEF Hit, Returns, IInv, TypeOK
  <2>. QED BY <2>3, <2>4 DEF HeldSince
<1>4. CASE StoreEntry(r)
  <2>1. /\ mapping[r] \in Value /\ readAt[r] \in Int
        /\ HeldSince(mapping[r], readAt[r]) /\ now <= readAt[r] + LookupTime
    BY <1>4 DEF IInv, TypeOK, LocalsFresh, StoreEntry, Goes
  <2>2. HeldSince(mapping[r], now - (Ttl + LookupTime))
    BY <1>1, <2>1, HeldEarlier DEF IInv
  <2>3. /\ answer'[r].value = mapping[r] /\ answer'[r].at = now
        /\ UNCHANGED <<row, left>>
    BY <1>4 DEF StoreEntry, Returns, IInv, TypeOK
  <2>. QED BY <2>2, <2>3 DEF HeldSince
<1>5. answer'[r] = answer[r] \/ Hit(r) \/ StoreEntry(r)
  <2>1. ASSUME NEW q \in Requests, Hit(q) \/ StoreEntry(q)
        PROVE  q = r \/ answer'[r] = answer[r]
    BY <2>1 DEF Hit, StoreEntry, Returns, IInv, TypeOK
  <2>2. ASSUME NEW q \in Requests, LookupFails(q) \/ Begin(q)
        PROVE  answer'[r] = answer[r]
    BY <2>2 DEF LookupFails, Begin, Returns, NoAnswer, IInv, TypeOK
  <2>3. ASSUME NEW q \in Requests, Load(q) \/ Expired(q) \/ Evict(q) \/ Lookup(q)
        PROVE  answer' = answer
    BY <2>3 DEF Load, Expired, Evict, Lookup
  <2>4. ASSUME Tick \/ (\E v \in Value : SetRow(v)) \/ UNCHANGED vars
        PROVE  answer' = answer
    BY <2>4 DEF Tick, SetRow, vars
  <2>. QED BY <2>1, <2>2, <2>3, <2>4 DEF Next, Resolve
<1>. QED BY <1>2, <1>3, <1>4, <1>5

LEMMA Inductive == Spec => []IInv
<1>1. Init => IInv
  <2> SUFFICES ASSUME Init PROVE IInv
    OBVIOUS
  <2>1. TypeOK
    BY ResolverAssumption DEF Init, TypeOK, Clock, Epoch, Value, NoAnswer
  <2>2. CacheFresh /\ LocalsFresh /\ AnswerFresh
    BY DEF Init, CacheFresh, LocalsFresh, AnswerFresh, NoAnswer
  <2>. QED BY <2>1, <2>2 DEF IInv
<1>2. IInv /\ [Next]_vars => IInv'
  <2> SUFFICES ASSUME IInv, [Next]_vars PROVE IInv'
    OBVIOUS
  <2>1. TypeOK'
    BY TypeStep DEF IInv
  <2>. QED BY <2>1, CacheStep, LocalsStep, AnswerStep DEF IInv
<1>. QED BY <1>1, <1>2, PTL DEF Spec

\* Every variable keeps its type, and no cache entry outlives its time to live.
THEOREM TypeCorrect == Spec => []TypeOK
<1>1. IInv => TypeOK
  BY DEF IInv
<1>. QED BY <1>1, Inductive, PTL

\* Resolve never answers with a mapping, or a nil, that the table gave up longer
\* than a time to live and a lookup ago (keyresolver.go:52-71).
THEOREM StalenessBound == Spec => []AnswersAreFresh
<1>1. IInv => AnswersAreFresh
  BY DEF IInv, AnswerFresh, AnswersAreFresh
<1>. QED BY <1>1, Inductive, PTL

-----------------------------------------------------------------------------
(* The resolver implements StaleRead *)

\* A step of a call that does not return leaves what the callers see alone.
LEMMA ReturnedStays ==
  ASSUME TypeOK, NEW r \in Requests,
         Load(r) \/ Expired(r) \/ Evict(r) \/ Lookup(r)
  PROVE  Returned' = Returned
<1>1. /\ pc[r] # "done" /\ pc'[r] # "done" /\ answer' = answer
      /\ \A q \in Requests : q # r => pc'[q] = pc[q]
  <2>1. CASE Load(r) \/ Expired(r)
    BY <2>1 DEF Load, Expired, Goes, TypeOK
  <2>2. CASE Evict(r) \/ Lookup(r)
    BY <2>2 DEF Evict, Lookup, Goes, TypeOK
  <2>. QED BY <2>1, <2>2
<1>2. \A q \in Requests :
        (IF pc'[q] = "done" THEN answer'[q] ELSE NoAnswer)
          = (IF pc[q] = "done" THEN answer[q] ELSE NoAnswer)
  BY <1>1
<1>. QED BY <1>2 DEF Returned, NoAnswer

\* A return answers a call that had no answer, with what the local answer holds.
LEMMA ReturnedOnce ==
  ASSUME TypeOK, NEW r \in Requests, NEW v \in Value, NEW f \in BOOLEAN,
         pc[r] # "done", pc' = [pc EXCEPT ![r] = "done"], Returns(r, v, f),
         UNCHANGED <<now, row, left>>
  PROVE  Stale!Gives(r, v, f)
<1> DEFINE new == [value |-> v, at |-> now, failed |-> f]
<1>1. answer' = [answer EXCEPT ![r] = new]
  BY DEF Returns
<1>2. Returned[r] = Stale!NoAnswer
  BY DEF Returned, NoAnswer, Stale!NoAnswer
<1>3. \A q \in Requests :
        (IF pc'[q] = "done" THEN answer'[q] ELSE NoAnswer)
          = IF q = r THEN new ELSE IF pc[q] = "done" THEN answer[q] ELSE NoAnswer
  BY <1>1 DEF TypeOK
<1>4. Returned' = [Returned EXCEPT ![r] = new]
  BY <1>3 DEF Returned, NoAnswer
<1>. QED BY <1>2, <1>4 DEF Stale!Gives

LEMMA StaleInit == Init => Stale!Init
<1> SUFFICES ASSUME Init PROVE Stale!Init
  OBVIOUS
<1>1. now \in Nat \ {0}
  BY ResolverAssumption DEF Init, Epoch
<1>2. Returned = [r \in Requests |-> Stale!NoAnswer]
  BY DEF Init, Returned, NoAnswer, Stale!NoAnswer
<1>. QED BY <1>1, <1>2 DEF Init, Stale!Init

\* Every step is a step of StaleRead or leaves its variables alone: a hit and a
\* store answer, a failed lookup fails, the next call asks.
LEMMA StaleStep == IInv /\ IInv' /\ [Next]_vars => [Stale!Next]_Stale!vars
<1> SUFFICES ASSUME IInv, IInv', [Next]_vars PROVE [Stale!Next]_Stale!vars
  OBVIOUS
<1>1. TypeOK
  BY DEF IInv
<1>2. CASE Tick
  BY <1>2 DEF Tick, Returned, NoAnswer, Stale!Next, Stale!Tick
<1>3. ASSUME NEW v \in Value, SetRow(v) PROVE Stale!Next
  BY <1>3 DEF SetRow, Returned, NoAnswer, Stale!Next, Stale!SetRow
<1>4. ASSUME NEW r \in Requests, Load(r) \/ Expired(r) \/ Evict(r) \/ Lookup(r)
      PROVE  UNCHANGED Stale!vars
  <2>1. Returned' = Returned
    BY <1>1, <1>4, ReturnedStays
  <2>. QED BY <1>4, <2>1 DEF Load, Expired, Evict, Lookup, Stale!vars
<1>5. ASSUME NEW r \in Requests, Hit(r) \/ StoreEntry(r) PROVE Stale!Next
  <2> DEFINE v == IF Hit(r) THEN entry[r].mapping ELSE mapping[r]
  <2>1. /\ pc[r] # "done" /\ pc' = [pc EXCEPT ![r] = "done"]
        /\ Returns(r, v, FALSE) /\ UNCHANGED <<now, row, left>>
    BY <1>5 DEF Hit, StoreEntry, Goes
  <2>2. v \in Value
    BY <1>5 DEF IInv, TypeOK, LocalsFresh, Hit, StoreEntry, Goes, Entry
  <2>3. /\ answer'[r].value = v /\ answer'[r].at = now /\ ~answer'[r].failed
    BY <1>1, <2>1 DEF Returns, TypeOK
  <2>4. HeldSince(v, now - (Ttl + LookupTime))
    BY <2>1, <2>3 DEF IInv, AnswerFresh, HeldSince
  <2>5. Stale!Gives(r, v, FALSE)
    BY <1>1, <2>1, <2>2, ReturnedOnce
  <2>6. Stale!Answer(r, v)
    BY <2>4, <2>5 DEF HeldSince, Stale!Answer, Stale!HeldSince
  <2>. QED BY <2>2, <2>6 DEF Stale!Next
<1>6. ASSUME NEW r \in Requests, LookupFails(r) PROVE Stale!Next
  <2>1. Stale!Gives(r, Nil, TRUE)
    BY <1>1, <1>6, ReturnedOnce DEF LookupFails, Goes, Value
  <2>. QED BY <2>1 DEF Stale!Next, Stale!Fail
<1>7. ASSUME NEW r \in Requests, Begin(r) PROVE Stale!Next
  <2>1. \A q \in Requests :
          (IF pc'[q] = "done" THEN answer'[q] ELSE NoAnswer)
            = IF q = r THEN NoAnswer ELSE IF pc[q] = "done" THEN answer[q] ELSE NoAnswer
    BY <1>1, <1>7 DEF Begin, Goes, TypeOK
  <2>2. Returned' = [Returned EXCEPT ![r] = Stale!NoAnswer]
    BY <2>1 DEF Returned, NoAnswer, Stale!NoAnswer
  <2>. QED BY <1>7, <2>2 DEF Begin, Stale!Next, Stale!Ask
<1>8. CASE UNCHANGED vars
  BY <1>8 DEF vars, Returned, NoAnswer, Stale!vars
<1>. QED BY <1>2, <1>3, <1>4, <1>5, <1>6, <1>7, <1>8 DEF Next, Resolve

\* To its callers the cache is a read of the table that may be a time to live and
\* a lookup old, given once and for good (keyresolver.go:48-74).
THEOREM Implements == Spec => ImplementsStaleRead
<1>. QED BY StaleInit, StaleStep, Inductive, PTL DEF Spec, ImplementsStaleRead, Stale!Spec

=============================================================================
