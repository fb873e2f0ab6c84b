---------------------------- MODULE DashboardProofs ----------------------------
(***************************************************************************)
(* A client that pages through the audit log misses nothing, and a summary *)
(* counts every settled request, for any number of events, rows, page      *)
(* sizes, redeliveries and expired rows.                                   *)
(***************************************************************************)
EXTENDS Dashboard, FiniteSetTheorems, TLAPS

USE DEF Sinks

\* What has been recorded twice has been counted as repeated.
Counted ==
  /\ \A s \in Sinks, e \in Events : writes[s][e] <= repeats + 1
  /\ \A e \in Events : batches[e] <= writes["metric"][e]

\* Only accepted events have a timestamp or a row, a settled one has been
\* written to both tables, and such a row is there until it is old.
Stored ==
  /\ \A e \in Events : time[e] > 0 <=> state[e] # "none"
  /\ \A r \in audit : state[r[1]] # "none"
  /\ \A e \in Events : state[e] = "done" => \A s \in Sinks : e \in recorded[s]
  /\ \A s \in Sinks : \A e \in recorded[s] : state[e] # "none"
  /\ \A e \in recorded["metric"] : Old(e, MetricTTL) \/ batches[e] > 0
  /\ \A e \in recorded["audit"] : Old(e, AuditTTL) \/ \E r \in audit : r[1] = e
  /\ \A e \in due : state[e] = "done"

Newer(e) == {r \in audit : TimeOf(r) > time[e]}

\* An event that the scan owes and has not shown is still in front of it, if no
\* read has broken off.
Ahead ==
  ~broken =>
    \A e \in Events : Owed(e) /\ e \notin seen =>
      scan = "reading" /\ offset <= Cardinality(Newer(e))

-----------------------------------------------------------------------------
LEMMA FiniteAudit ==
  ASSUME TypeOK
  PROVE  IsFiniteSet(audit)
<1>0. IsFiniteSet(Events) /\ IsFiniteSet(1..(MaxRepeats + 1))
  BY DashboardAssumption, FS_Interval
<1>1. IsFiniteSet(Events \X (1..(MaxRepeats + 1)))
  BY <1>0, FS_Product
<1> QED
  BY <1>1, FS_Subset DEF TypeOK

LEMMA InitInv == Init => TypeOK /\ Counted /\ Stored /\ Ahead
<1> SUFFICES ASSUME Init PROVE TypeOK /\ Counted /\ Stored /\ Ahead
  OBVIOUS
<1> USE DashboardAssumption DEF Init, Ledger!Init
<1>1. TypeOK
  <2>1. Ledger!TypeOK
    BY DEF Ledger!TypeOK
  <2>2. now \in 1..MaxTime /\ time \in [Events -> 0..MaxTime]
    OBVIOUS
  <2>3. /\ writes \in [Sinks -> [Events -> 0..(MaxRepeats + 1)]]
        /\ batches \in [Events -> 0..(MaxRepeats + 1)]
        /\ repeats \in 0..MaxRepeats
    OBVIOUS
  <2> QED
    BY <2>1, <2>2, <2>3 DEF TypeOK
<1>2. Counted
  BY DEF Counted
<1>3. Stored
  BY DEF Stored
<1>4. Ahead
  BY DEF Ahead, Owed
<1> QED
  BY <1>1, <1>2, <1>3, <1>4

LEMMA StepType == TypeOK /\ Counted /\ [Next]_vars => TypeOK' /\ Counted'
<1> SUFFICES ASSUME TypeOK, Counted, [Next]_vars PROVE TypeOK' /\ Counted'
  OBVIOUS
<1> USE DashboardAssumption DEF TypeOK, Counted, Ledger!TypeOK, ledgerVars, scanVars
<1>1. CASE Tick
  BY <1>1 DEF Tick
<1>2. ASSUME NEW e \in Events, Accept(e) \/ Complete(e) PROVE TypeOK' /\ Counted'
  BY <1>2 DEF Accept, Complete, Ledger!Accept, Ledger!Complete
<1>3. ASSUME NEW s \in Sinks, NEW e \in Events, Writes(s, e)
      PROVE  /\ writes' \in [Sinks -> [Events -> 0..(MaxRepeats + 1)]]
             /\ repeats' \in 0..MaxRepeats
             /\ recorded' \in [Sinks -> SUBSET Events] /\ state' = state
             /\ \A t \in Sinks, d \in Events : writes'[t][d] <= repeats' + 1
             /\ writes[s][e] + 1 \in 1..(MaxRepeats + 1)
             /\ writes'[s][e] = writes[s][e] + 1
             /\ \A t \in Sinks, d \in Events : writes'[t][d] >= writes[t][d]
  <2>1. writes[s][e] \in Nat /\ writes[s][e] <= MaxRepeats /\ writes[s][e] + 1 <= repeats' + 1
    BY <1>3 DEF Writes
  <2>2. repeats' \in 0..MaxRepeats /\ repeats' >= repeats
    BY <1>3 DEF Writes
  <2>3. writes' = [writes EXCEPT ![s] = [writes[s] EXCEPT ![e] = @ + 1]]
    BY <1>3 DEF Writes
  <2>4. recorded' \in [Sinks -> SUBSET Events] /\ state' = state
    BY <1>3 DEF Writes, Ledger!Record
  <2>5. \A t \in Sinks, d \in Events :
          writes'[t][d] = IF t = s /\ d = e THEN writes[s][e] + 1 ELSE writes[t][d]
    BY <2>3
  <2> QED
    BY <2>1, <2>2, <2>3, <2>4, <2>5
<1>4. ASSUME NEW e \in Events, WriteMetrics(e) PROVE TypeOK' /\ Counted'
  <2>1. Writes("metric", e) /\ batches' = [batches EXCEPT ![e] = @ + 1]
    BY <1>4 DEF WriteMetrics
  <2>2. batches' \in [Events -> 0..(MaxRepeats + 1)]
    BY <1>3, <2>1
  <2> QED
    BY <1>3, <1>4, <2>1, <2>2 DEF WriteMetrics
<1>5. ASSUME NEW e \in Events, WriteAuditLog(e) PROVE TypeOK' /\ Counted'
  <2>1. Writes("audit", e) /\ audit' = audit \cup {<<e, writes["audit"][e] + 1>>}
    BY <1>5 DEF WriteAuditLog
  <2>2. audit' \subseteq Events \X (1..(MaxRepeats + 1))
    BY <1>3, <2>1
  <2> QED
    BY <1>3, <1>5, <2>1, <2>2 DEF WriteAuditLog
<1>6. ASSUME NEW e \in Events, ExpireMetrics(e) PROVE TypeOK' /\ Counted'
  BY <1>6 DEF ExpireMetrics
<1>7. ASSUME NEW row \in audit, ExpireAudit(row) PROVE TypeOK' /\ Counted'
  BY <1>7 DEF ExpireAudit
<1>8. CASE BeginScan
  BY <1>8 DEF BeginScan
<1>9. ASSUME NEW limit \in Limits, ReadPage(limit) \/ ReadBreaksOff(limit)
      PROVE  TypeOK' /\ Counted'
  <2>1. PICK page \in Pages(limit) : \E rows \in SUBSET page : Shown(limit, rows)
    BY <1>9 DEF ReadPage, ReadBreaksOff, Begun
  <2>2. PICK rows \in SUBSET page : Shown(limit, rows)
    BY <2>1
  <2>3. rows \subseteq audit
    BY DEF Pages, Firsts
  <2>4. seen' \subseteq Events /\ offset' \in Nat /\ scan' \in {"idle", "reading"}
    BY <2>2, <2>3 DEF Limits, Limit, Shown
  <2>5. broken' \in BOOLEAN
    BY <1>9 DEF ReadPage, ReadBreaksOff
  <2> QED
    BY <2>2, <2>4, <2>5 DEF Shown
<1>10. CASE UNCHANGED vars
  BY <1>10 DEF vars
<1> QED
  BY <1>1, <1>2, <1>4, <1>5, <1>6, <1>7, <1>8, <1>9, <1>10 DEF Next

-----------------------------------------------------------------------------
LEMMA StepStored == TypeOK /\ TypeOK' /\ Stored /\ [Next]_vars => Stored'
<1> SUFFICES ASSUME TypeOK, TypeOK', Stored, [Next]_vars PROVE Stored'
  OBVIOUS
<1> USE DashboardAssumption DEF TypeOK, Stored, Old, Ledger!TypeOK, ledgerVars, scanVars
<1>1. CASE Tick
  BY <1>1 DEF Tick
<1>2. ASSUME NEW e \in Events, Accept(e) PROVE Stored'
  <2>1. /\ state[e] = "none" /\ state' = [state EXCEPT ![e] = "accepted"]
        /\ time' = [time EXCEPT ![e] = now]
        /\ UNCHANGED <<recorded, now, batches, audit, due>>
    BY <1>2 DEF Accept, Ledger!Accept
  <2>2. \A d \in Events \ {e} : state'[d] = state[d] /\ time'[d] = time[d]
    BY <2>1
  <2>3. /\ \A s \in Sinks : e \notin recorded[s]
        /\ e \notin due /\ \A r \in audit : r[1] # e
    BY <2>1
  <2>4. state'[e] = "accepted" /\ time'[e] > 0
    BY <2>1
  <2> QED
    BY <2>1, <2>2, <2>3, <2>4
<1>3. ASSUME NEW e \in Events, Complete(e) PROVE Stored'
  BY <1>3 DEF Complete, Ledger!Complete
<1>4. ASSUME NEW e \in Events, WriteMetrics(e) PROVE Stored'
  BY <1>4 DEF WriteMetrics, Writes, Ledger!Record
<1>5. ASSUME NEW e \in Events, WriteAuditLog(e) PROVE Stored'
  <2>1. /\ audit' = audit \cup {<<e, writes["audit"][e] + 1>>}
        /\ state[e] # "none"
        /\ recorded' = [recorded EXCEPT !["audit"] = @ \cup {e}]
        /\ UNCHANGED <<now, time, state, batches, due>>
    BY <1>5 DEF WriteAuditLog, Writes, Ledger!Record
  <2>2. /\ recorded'["audit"] = recorded["audit"] \cup {e}
        /\ recorded'["metric"] = recorded["metric"]
    BY <2>1
  <2>3. <<e, writes["audit"][e] + 1>>[1] = e
    OBVIOUS
  <2>4. \E r \in audit' : r[1] = e
    BY <2>1, <2>3
  <2> QED
    BY <2>1, <2>2, <2>3, <2>4
<1>6. ASSUME NEW e \in Events, ExpireMetrics(e) PROVE Stored'
  BY <1>6 DEF ExpireMetrics
<1>7. ASSUME NEW row \in audit, ExpireAudit(row) PROVE Stored'
  BY <1>7 DEF ExpireAudit
<1>8. CASE BeginScan
  BY <1>8 DEF BeginScan
<1>9. ASSUME NEW limit \in Limits, ReadPage(limit) \/ ReadBreaksOff(limit) PROVE Stored'
  BY <1>9 DEF ReadPage, ReadBreaksOff, Shown
<1>10. CASE UNCHANGED vars
  BY <1>10 DEF vars
<1> QED
  BY <1>1, <1>2, <1>3, <1>4, <1>5, <1>6, <1>7, <1>8, <1>9, <1>10 DEF Next

-----------------------------------------------------------------------------
\* The heart of the matter: a page shows every owed event that it passes.
LEMMA PageShows ==
  ASSUME TypeOK, Stored, NEW e \in Events, Owed(e),
         NEW limit \in Nat \ {0},
         NEW page \in Pages(limit), e \notin {r[1] : r \in page},
         offset <= Cardinality(Newer(e))
  PROVE  page # {} /\ offset + limit <= Cardinality(Newer(e))
<1> USE DEF TypeOK
<1>1. PICK R0 \in Firsts(offset), R1 \in Firsts(offset + limit) : R0 \subseteq R1 /\ page = R1 \ R0
  BY DEF Pages
<1>2. /\ R0 \subseteq audit /\ R1 \subseteq audit /\ Newer(e) \subseteq audit
      /\ \A r \in R0, q \in audit \ R0 : TimeOf(r) >= TimeOf(q)
      /\ \A r \in R1, q \in audit \ R1 : TimeOf(r) >= TimeOf(q)
      /\ Cardinality(R0) = IF offset < Cardinality(audit) THEN offset ELSE Cardinality(audit)
      /\ Cardinality(R1) = IF offset + limit < Cardinality(audit) THEN offset + limit
                           ELSE Cardinality(audit)
  BY <1>1 DEF Firsts, Newer
<1>3. /\ IsFiniteSet(audit) /\ IsFiniteSet(R0) /\ IsFiniteSet(R1) /\ IsFiniteSet(Newer(e))
      /\ Cardinality(audit) \in Nat /\ Cardinality(R0) \in Nat /\ Cardinality(R1) \in Nat
      /\ Cardinality(Newer(e)) \in Nat
  BY <1>2, FiniteAudit, FS_Subset, FS_CardinalityType
<1>4. PICK row \in audit : row[1] = e
  BY DEF Owed, Stored
<1>5. \A r \in audit : TimeOf(r) \in Nat /\ (TimeOf(r) = time[e] => r[1] = e)
  BY DEF Owed, TimeOf
<1>6. TimeOf(row) = time[e]
  BY <1>4 DEF TimeOf
<1>7. row \notin R0
  <2> SUFFICES ASSUME row \in R0 PROVE FALSE
    OBVIOUS
  <2>1. Newer(e) \subseteq R0
    BY <1>2, <1>5, <1>6 DEF Newer
  <2>2. row \notin Newer(e)
    BY <1>5, <1>6 DEF Newer
  <2>3. Newer(e) \cup {row} \subseteq R0
    BY <2>1
  <2>4. Cardinality(Newer(e) \cup {row}) = Cardinality(Newer(e)) + 1
    BY <1>3, <2>2, FS_AddElement
  <2>5. Cardinality(Newer(e)) + 1 <= Cardinality(R0)
    BY <1>3, <2>3, <2>4, FS_Subset
  <2> QED
    BY <1>2, <1>3, <2>5
<1>8. row \notin R1
  BY <1>1, <1>4, <1>7
<1>9. R1 \subseteq Newer(e)
  <2> SUFFICES ASSUME NEW r \in R1 PROVE r \in Newer(e)
    OBVIOUS
  <2>1. TimeOf(r) >= time[e] /\ r \in audit
    BY <1>2, <1>4, <1>6, <1>8
  <2>2. r[1] # e
    <3> SUFFICES ASSUME r[1] = e PROVE FALSE
      OBVIOUS
    <3>1. r \in R0
      BY <1>1
    <3>2. TimeOf(r) = time[e]
      BY DEF TimeOf
    <3>3. Newer(e) \subseteq R0
      BY <1>2, <1>5, <3>1, <3>2 DEF Newer
    <3>4. r \notin Newer(e)
      BY <1>5, <3>2 DEF Newer
    <3>5. Newer(e) \cup {r} \subseteq R0
      BY <3>1, <3>3
    <3>6. Cardinality(Newer(e) \cup {r}) = Cardinality(Newer(e)) + 1
      BY <1>3, <3>4, FS_AddElement
    <3>7. Cardinality(Newer(e)) + 1 <= Cardinality(R0)
      BY <1>3, <3>5, <3>6, FS_Subset
    <3> QED
      BY <1>2, <1>3, <3>7
  <2> QED
    BY <1>5, <2>1, <2>2 DEF Newer, TimeOf
<1>10. R1 # audit
  BY <1>4, <1>8
<1>11. Cardinality(R1) # Cardinality(audit)
  BY <1>2, <1>3, <1>10, FS_Subset
<1>12. Cardinality(R1) = offset + limit
  BY <1>2, <1>11
<1>13. Cardinality(R1) <= Cardinality(Newer(e))
  BY <1>3, <1>9, FS_Subset
<1>14. Cardinality(R0) = offset
  BY <1>2, <1>3, <1>12, <1>13, FS_Subset
<1>15. R1 # R0
  BY <1>12, <1>14
<1> QED
  BY <1>1, <1>12, <1>13, <1>15

LEMMA StepAhead == TypeOK /\ TypeOK' /\ Stored /\ Stored' /\ Ahead /\ [Next]_vars => Ahead'
<1> SUFFICES ASSUME TypeOK, TypeOK', Stored, Stored', Ahead, [Next]_vars,
                    NEW e \in Events, Owed(e)', e \notin seen', ~broken'
             PROVE  scan' = "reading" /\ offset' <= Cardinality(Newer(e)')
  BY DEF Ahead
<1> USE DashboardAssumption DEF ledgerVars, scanVars
<1>a. /\ IsFiniteSet(Newer(e)) /\ IsFiniteSet(Newer(e)')
      /\ Cardinality(Newer(e)) \in Nat /\ Cardinality(Newer(e)') \in Nat
  <2>1. IsFiniteSet(audit) /\ IsFiniteSet(audit')
    <3>1. IsFiniteSet(audit)
      BY FiniteAudit
    <3>2. IsFiniteSet(Events \X (1..(MaxRepeats + 1)))
      <4>1. IsFiniteSet(Events) /\ IsFiniteSet(1..(MaxRepeats + 1))
        BY FS_Interval
      <4> QED
        BY <4>1, FS_Product
    <3> QED
      BY <3>1, <3>2, FS_Subset DEF TypeOK
  <2> QED
    BY <2>1, FS_Subset, FS_CardinalityType DEF Newer
\* It is enough that nothing in front of e goes away and e was owed before.
<1>b. ASSUME UNCHANGED <<scan, offset, broken>>, Owed(e), e \notin seen, Newer(e) \subseteq Newer(e)'
      PROVE  scan' = "reading" /\ offset' <= Cardinality(Newer(e)')
  <2>1. scan = "reading" /\ offset <= Cardinality(Newer(e))
    BY <1>b DEF Ahead
  <2>2. Cardinality(Newer(e)) <= Cardinality(Newer(e)')
    BY <1>a, <1>b, FS_Subset
  <2> QED
    BY <1>a, <1>b, <2>1, <2>2 DEF TypeOK
<1>1. CASE Tick
  <2>1. Owed(e) /\ e \notin seen /\ Newer(e)' = Newer(e) /\ UNCHANGED <<scan, offset, broken>>
    BY <1>1 DEF Tick, Owed, Old, Newer, TimeOf, TypeOK
  <2> QED
    BY <1>b, <2>1
<1>2. ASSUME NEW d \in Events, Accept(d)
      PROVE  scan' = "reading" /\ offset' <= Cardinality(Newer(e)')
  <2>1. /\ state[d] = "none" /\ time' = [time EXCEPT ![d] = now] /\ now > 0
        /\ UNCHANGED <<now, audit, scan, offset, due, seen, broken>>
    BY <1>2 DEF Accept, Ledger!Accept, TypeOK
  <2>2. e # d /\ \A r \in audit : r[1] # d
    BY <2>1 DEF Stored, Owed
  <2>3. \A f \in Events \ {d} : time'[f] = time[f]
    BY <2>1 DEF TypeOK
  <2>4. Newer(e)' = Newer(e)
    BY <2>1, <2>2, <2>3 DEF Newer, TimeOf, TypeOK
  <2>5. time[e] > 0 /\ (time[d] = 0 \/ time[d] # time[e])
    <3>1. state[e] = "done"
      BY <2>1 DEF Owed, Stored
    <3>2. time[e] > 0
      BY <3>1 DEF Stored
    <3>3. time[d] = 0
      BY <2>1 DEF Stored, TypeOK
    <3> QED
      BY <3>2, <3>3
  <2> QED
    BY <1>b, <2>1, <2>2, <2>3, <2>4, <2>5 DEF Owed, Old
<1>3. ASSUME NEW d \in Events, Complete(d) \/ WriteMetrics(d) \/ ExpireMetrics(d)
      PROVE  scan' = "reading" /\ offset' <= Cardinality(Newer(e)')
  <2>1. UNCHANGED <<now, time, audit, scan, offset, due, seen, broken>>
    BY <1>3 DEF Complete, WriteMetrics, ExpireMetrics
  <2>2. Owed(e) /\ Newer(e)' = Newer(e)
    BY <2>1 DEF Owed, Old, Newer, TimeOf
  <2> QED
    BY <1>b, <2>1, <2>2
<1>4. ASSUME NEW d \in Events, WriteAuditLog(d)
      PROVE  scan' = "reading" /\ offset' <= Cardinality(Newer(e)')
  <2>1. audit \subseteq audit' /\ UNCHANGED <<now, time, scan, offset, due, seen, broken>>
    BY <1>4 DEF WriteAuditLog
  <2>2. Owed(e) /\ Newer(e) \subseteq Newer(e)'
    BY <2>1 DEF Owed, Old, Newer, TimeOf
  <2> QED
    BY <1>b, <2>1, <2>2
<1>5. ASSUME NEW row \in audit, ExpireAudit(row)
      PROVE  scan' = "reading" /\ offset' <= Cardinality(Newer(e)')
  <2>1. /\ Old(row[1], AuditTTL) /\ audit' = audit \ {row}
        /\ UNCHANGED <<now, time, scan, offset, due, seen, broken>>
    BY <1>5 DEF ExpireAudit
  <2>2. Owed(e)
    BY <2>1 DEF Owed, Old
  <2>3. row \notin Newer(e)
    <3>1. row[1] \in Events /\ time[row[1]] \in Nat /\ time[e] \in Nat /\ now \in Nat
      BY DEF TypeOK
    <3> QED
      BY <2>1, <2>2, <3>1 DEF Owed, Old, Newer, TimeOf
  <2>4. Newer(e)' = Newer(e)
    BY <2>1, <2>3 DEF Newer, TimeOf
  <2> QED
    BY <1>b, <2>1, <2>2, <2>4
<1>6. CASE BeginScan
  BY <1>a, <1>6 DEF BeginScan
<1>7. ASSUME NEW limit \in Limits, ReadPage(limit)
      PROVE  scan' = "reading" /\ offset' <= Cardinality(Newer(e)')
  <2>1. PICK page \in Pages(limit) :
          /\ seen' = seen \cup {r[1] : r \in page}
          /\ offset' = offset + limit
          /\ scan' = IF page = {} THEN "idle" ELSE "reading"
    BY <1>7 DEF ReadPage, Shown
  <2>2. UNCHANGED <<now, time, audit, due, broken>>
    BY <1>7 DEF ReadPage, Shown
  <2>3. Owed(e) /\ e \notin seen /\ Newer(e)' = Newer(e) /\ e \notin {r[1] : r \in page}
    BY <2>1, <2>2 DEF Owed, Old, Newer, TimeOf
  <2>4. offset <= Cardinality(Newer(e)) /\ limit \in Nat \ {0}
    <3>1. offset <= Cardinality(Newer(e))
      BY <2>2, <2>3 DEF Ahead
    <3> QED
      BY <3>1 DEF Limits, Limit
  <2>5. page # {} /\ offset + limit <= Cardinality(Newer(e))
    BY <2>3, <2>4, PageShows
  <2> QED
    BY <2>1, <2>3, <2>5
<1>8. \A limit : ~ReadBreaksOff(limit)
  BY DEF ReadBreaksOff
<1>9. CASE UNCHANGED vars
  <2>1. Owed(e) /\ e \notin seen /\ Newer(e)' = Newer(e) /\ UNCHANGED <<scan, offset, broken>>
    BY <1>9 DEF vars, Owed, Old, Newer, TimeOf
  <2> QED
    BY <1>b, <2>1
<1> QED
  BY <1>1, <1>2, <1>3, <1>4, <1>5, <1>6, <1>7, <1>8, <1>9 DEF Next

-----------------------------------------------------------------------------
LEMMA Invariance == Spec => [](TypeOK /\ Counted /\ Stored /\ Ahead)
<1> QED
  BY InitInv, StepType, StepStored, StepAhead, PTL DEF Spec

LEMMA FourMetrics == IsFiniteSet(Metrics) /\ Cardinality(Metrics) = 4
<1>1. IsFiniteSet({"input_tokens"}) /\ Cardinality({"input_tokens"}) = 1
  BY FS_Singleton
<1>2. /\ IsFiniteSet({"input_tokens", "output_tokens"})
      /\ Cardinality({"input_tokens", "output_tokens"}) = 2
  <2>1. {"input_tokens", "output_tokens"} = {"input_tokens"} \cup {"output_tokens"}
    OBVIOUS
  <2> QED
    BY <1>1, <2>1, FS_AddElement
<1>3. /\ IsFiniteSet({"input_tokens", "output_tokens", "cost_usd"})
      /\ Cardinality({"input_tokens", "output_tokens", "cost_usd"}) = 3
  <2>1. {"input_tokens", "output_tokens", "cost_usd"} = {"input_tokens", "output_tokens"} \cup {"cost_usd"}
    OBVIOUS
  <2> QED
    BY <1>2, <2>1, FS_AddElement
<1>4. Metrics = {"input_tokens", "output_tokens", "cost_usd"} \cup {"latency_ms"}
  BY DEF Metrics
<1> QED
  BY <1>3, <1>4, FS_AddElement

\* The variables keep their types.
THEOREM TypeCorrect == Spec => []TypeOK
BY Invariance, PTL

\* In a range of times whose rows have not expired, request_count is at least the
\* number of settled requests and at most the number of batches written.
THEOREM SummaryIsComplete == Spec => []SummaryCountsRequests
<1> SUFFICES TypeOK /\ Counted /\ Stored => SummaryCountsRequests
  BY Invariance, PTL
<1> SUFFICES ASSUME TypeOK, Counted, Stored, NEW from \in 1..MaxTime, NEW to \in 1..MaxTime,
                    from + MetricTTL >= now
             PROVE  LET In == InRange(from, to)
                    IN  /\ Cardinality({e \in In : state[e] = "done"}) <= RequestCount(from, to)
                        /\ RequestCount(from, to) <= Cardinality(Copies(writes["metric"], In))
  BY DEF SummaryCountsRequests
<1> USE DashboardAssumption
<1> DEFINE In == InRange(from, to)
           Done == {e \in In : state[e] = "done"}
           Batches == Copies(batches, In)
           Written == Copies(writes["metric"], In)
<1>1. In \subseteq Events
  BY DEF InRange
<1>2. IsFiniteSet(Batches) /\ IsFiniteSet(Written)
  <2>1. IsFiniteSet(Events \X (1..(MaxRepeats + 1)))
    <3>1. IsFiniteSet(Events) /\ IsFiniteSet(1..(MaxRepeats + 1))
      BY FS_Interval
    <3> QED
      BY <3>1, FS_Product
  <2>2. Batches \subseteq Events \X (1..(MaxRepeats + 1)) /\ Written \subseteq Events \X (1..(MaxRepeats + 1))
    BY <1>1 DEF Copies
  <2> QED
    BY <2>1, <2>2, FS_Subset
<1>3. Cardinality(Batches) \in Nat /\ Cardinality(Written) \in Nat
  BY <1>2, FS_CardinalityType
<1>4. RequestCount(from, to) = Cardinality(Batches)
  <2>1. Cardinality(Batches \X Metrics) = Cardinality(Batches) * Cardinality(Metrics)
    BY <1>2, FourMetrics, FS_Product
  <2>2. (Cardinality(Batches) * 4) \div 4 = Cardinality(Batches)
    BY <1>3
  <2> QED
    BY <2>1, <2>2, FourMetrics DEF RequestCount, MetricRows
<1>5. Cardinality(Done) <= Cardinality(Batches)
  <2> DEFINE first == [e \in Done |-> <<e, 1>>]
  <2>1. ASSUME NEW e \in Done PROVE <<e, 1>> \in Batches
    <3>1. e \in Events /\ e \in recorded["metric"]
      BY <1>1 DEF Stored, Sinks
    <3>2. time[e] >= from
      BY <3>1 DEF InRange, TypeOK
    <3>3. ~Old(e, MetricTTL)
      BY <3>1, <3>2 DEF Old, TypeOK
    <3>4. batches[e] >= 1
      BY <3>1, <3>3 DEF Stored, TypeOK
    <3> QED
      BY <3>4 DEF Copies
  <2>2. first \in [Done -> Batches]
    BY <2>1
  <2>3. \A e, f \in Done : first[e] = first[f] => e = f
    OBVIOUS
  <2>4. first \in Injection(Done, Batches)
    BY <2>2, <2>3 DEF Injection, IsInjective
  <2> QED
    BY <1>2, <2>4, FS_Injection
<1>6. Cardinality(Batches) <= Cardinality(Written)
  <2>1. Batches \subseteq Written
    <3> SUFFICES ASSUME NEW p \in Batches PROVE p \in Written
      OBVIOUS
    <3>1. p \in In \X (1..(MaxRepeats + 1)) /\ p[1] \in Events /\ p[2] \in Nat /\ p[2] <= batches[p[1]]
      BY <1>1 DEF Copies
    <3>2. batches[p[1]] <= writes["metric"][p[1]]
      BY <3>1 DEF Counted
    <3>3. batches[p[1]] \in Nat /\ writes["metric"][p[1]] \in Nat
      BY <3>1 DEF TypeOK
    <3> QED
      BY <3>1, <3>2, <3>3 DEF Copies
  <2> QED
    BY <1>2, <2>1, FS_Subset
<1> QED
  BY <1>4, <1>5, <1>6

\* A scan of the audit log that has ended, and of which no read broke off, has
\* shown every event that was settled before it began, unless its rows are old
\* or share their timestamp with another event's.
THEOREM ScanIsComplete == Spec => []ScansMissNothing
<1>1. TypeOK /\ Ahead => ScansMissNothing
  BY DEF TypeOK, Ahead, ScansMissNothing
<1> QED
  BY <1>1, Invariance, PTL

=============================================================================
