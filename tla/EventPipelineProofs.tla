-------------------------- MODULE EventPipelineProofs --------------------------
(***************************************************************************)
(* What holds of the event pipeline for any number of events, workers,     *)
(* deliveries and faults, and any broken handlers.                         *)
(***************************************************************************)
EXTENDS EventPipeline, TLAPS

-----------------------------------------------------------------------------
(* Type correctness *)

\* A counted delivery of e is a delivery.
LEMMA NextDelivery ==
  ASSUME TypeOK, NEW e \in Events, delivered[e] < MaxDeliver
  PROVE  /\ [ev |-> e, n |-> delivered[e] + 1] \in Delivery
         /\ delivered[e] + 1 \in 0..MaxDeliver
  BY PipelineAssumption DEF TypeOK, Delivery

\* Answering a delivery keeps the types of what the server records.
LEMMA AnswerType ==
  ASSUME TypeOK, NEW e \in Events, NEW w \in Workers,
         \/ Removed(e, "acked") /\ UNCHANGED faults
         \/ Removed(e, "termed") /\ UNCHANGED faults
         \/ Requeued(e) /\ UNCHANGED faults
         \/ AnswerLost(w)
  PROVE  /\ fate' \in [Events -> {"unsent", "wire", "lost", "stored", "acked",
                                  "termed", "expired"}]
         /\ outstanding' \subseteq Events
         /\ faults' \in 0..MaxFaults
<1> USE PipelineAssumption DEF TypeOK
<1>1. CASE Removed(e, "acked") /\ UNCHANGED faults
  BY <1>1 DEF Removed
<1>2. CASE Removed(e, "termed") /\ UNCHANGED faults
  BY <1>2 DEF Removed
<1>3. CASE Requeued(e) /\ UNCHANGED faults
  BY <1>3 DEF Requeued
<1>4. CASE AnswerLost(w)
  BY <1>4 DEF AnswerLost, Fault
<1>. QED BY <1>1, <1>2, <1>3, <1>4

LEMMA GoesDownType ==
  ASSUME TypeOK, NEW w \in Workers, GoesDown(w)
  PROVE  /\ mode' \in [Workers -> {"down", "running", "stopping"}]
         /\ conn' \in [Workers -> {"open", "closed"}]
         /\ pc' \in [Workers -> {"select", "next", "handle"}]
         /\ inbox' \in [Workers -> Seq(Delivery)]
         /\ msg' \in [Workers -> Delivery \cup {NoMsg}]
         /\ at' \in [Workers -> 1..4]
         /\ allOK' \in [Workers -> BOOLEAN]
  BY DEF TypeOK, GoesDown

\* In the middle of an iteration the worker has a delivery in hand.
InHand == \A w \in Workers : pc[w] = "handle" => msg[w] \in Delivery

LEMMA AppliedType ==
  ASSUME TypeOK, NEW h \in Handlers, NEW d \in Delivery, Applied(h, d)
  PROVE  rows' \in [Handlers -> [Delivery -> Nat]]
  BY DEF TypeOK, Applied

LEMMA HeadTail ==
  ASSUME NEW S, NEW s \in Seq(S), s # <<>>
  PROVE  Head(s) \in S /\ Tail(s) \in Seq(S)
  OBVIOUS

\* The types, and the delivery in hand, are kept by every step.
LEMMA TypeStep == TypeOK /\ InHand /\ [Next]_vars => TypeOK' /\ InHand'
<1> SUFFICES ASSUME TypeOK, InHand, [Next]_vars PROVE TypeOK' /\ InHand'
  OBVIOUS
<1> USE PipelineAssumption
<1>1. ASSUME NEW e \in Events, Emit(e) PROVE TypeOK' /\ InHand'
  BY <1>1 DEF TypeOK, InHand, Emit, loopVars
<1>2. ASSUME NEW e \in Events, EmitReturns(e) PROVE TypeOK' /\ InHand'
  BY <1>2 DEF TypeOK, InHand, EmitReturns, loopVars
<1>3. ASSUME NEW e \in Events, Store(e) PROVE TypeOK' /\ InHand'
  BY <1>3 DEF TypeOK, InHand, Store, loopVars
<1>4. ASSUME NEW e \in Events, LosePublish(e) PROVE TypeOK' /\ InHand'
  BY <1>4 DEF TypeOK, InHand, LosePublish, loopVars, Fault
<1>5. ASSUME NEW e \in Events, LoseDelivery(e) PROVE TypeOK' /\ InHand'
  BY <1>5, NextDelivery
     DEF TypeOK, InHand, LoseDelivery, loopVars, Fault, CanDeliver, CountDelivery
<1>6. ASSUME NEW e \in Events, AckWaitExpires(e) PROVE TypeOK' /\ InHand'
  BY <1>6 DEF TypeOK, InHand, AckWaitExpires, loopVars
<1>7. ASSUME NEW e \in Events, Expire(e) PROVE TypeOK' /\ InHand'
  BY <1>7 DEF TypeOK, InHand, Expire, loopVars
<1>8. ASSUME NEW e \in Events, NEW w \in Workers, Deliver(e, w)
      PROVE TypeOK' /\ InHand'
  <2>1. /\ [ev |-> e, n |-> delivered[e] + 1] \in Delivery
        /\ delivered[e] + 1 \in 0..MaxDeliver
    BY <1>8, NextDelivery DEF Deliver, CanDeliver
  <2>2. inbox' \in [Workers -> Seq(Delivery)]
    BY <1>8, <2>1 DEF TypeOK, Deliver
  <2>. QED BY <1>8, <2>1, <2>2 DEF TypeOK, InHand, Deliver, CountDelivery
<1>9. ASSUME NEW w \in Workers, Start(w) PROVE TypeOK' /\ InHand'
  BY <1>9 DEF TypeOK, InHand, Start, streamVars, loopVars
<1>10. ASSUME NEW w \in Workers, Stop(w) PROVE TypeOK' /\ InHand'
  BY <1>10 DEF TypeOK, InHand, Stop, streamVars, loopVars, Fault
<1>11. ASSUME NEW w \in Workers, Exit(w) PROVE TypeOK' /\ InHand'
  BY <1>11, GoesDownType DEF TypeOK, InHand, Exit, GoesDown, streamVars
<1>12. ASSUME NEW w \in Workers, Crash(w) PROVE TypeOK' /\ InHand'
  BY <1>12, GoesDownType DEF TypeOK, InHand, Crash, GoesDown, streamVars, Fault
<1>13. ASSUME NEW w \in Workers, CloseConn(w) PROVE TypeOK' /\ InHand'
  BY <1>13 DEF TypeOK, InHand, CloseConn, streamVars, Fault
<1>14. ASSUME NEW w \in Workers, Select(w) \/ NextFails(w) PROVE TypeOK' /\ InHand'
  BY <1>14 DEF TypeOK, InHand, Select, NextFails, streamVars
<1>15. ASSUME NEW w \in Workers, Return(w) PROVE TypeOK' /\ InHand'
  BY <1>15, GoesDownType DEF TypeOK, InHand, Return, GoesDown, streamVars
<1>16. ASSUME NEW w \in Workers, NextMalformed(w) PROVE TypeOK' /\ InHand'
  <2>1. Head(inbox[w]) \in Delivery /\ Tail(inbox[w]) \in Seq(Delivery)
    BY <1>16, HeadTail DEF TypeOK, NextMalformed
  <2>2. Head(inbox[w]).ev \in Events
    BY <2>1 DEF Delivery
  <2>3. /\ fate' \in [Events -> {"unsent", "wire", "lost", "stored", "acked",
                                 "termed", "expired"}]
        /\ outstanding' \subseteq Events
        /\ faults' \in 0..MaxFaults
    BY <1>16, <2>2, AnswerType DEF NextMalformed
  <2>. QED BY <1>16, <2>1, <2>3 DEF TypeOK, InHand, NextMalformed
<1>17. ASSUME NEW w \in Workers, NextEvent(w) PROVE TypeOK' /\ InHand'
  <2>1. Head(inbox[w]) \in Delivery /\ Tail(inbox[w]) \in Seq(Delivery)
    BY <1>17, HeadTail DEF TypeOK, NextEvent
  <2>. QED BY <1>17, <2>1 DEF TypeOK, InHand, NextEvent, streamVars, Metric
<1>18. ASSUME NEW w \in Workers, HandleOK(w) PROVE TypeOK' /\ InHand'
  <2>1. rows' \in [Handlers -> [Delivery -> Nat]]
    BY <1>18, AppliedType DEF InHand, HandleOK
  <2>. QED
    BY SMTT(30), <1>18, <2>1
       DEF TypeOK, InHand, HandleOK, streamVars, Handlers, Metric, Audit, Agent
<1>19. ASSUME NEW w \in Workers, HandleErr(w) PROVE TypeOK' /\ InHand'
  <2>1. rows' \in [Handlers -> [Delivery -> Nat]]
    <3>1. CASE Applied(at[w], msg[w])
      BY <1>19, <3>1, AppliedType DEF InHand, HandleErr
    <3>2. CASE UNCHANGED rows
      BY <3>2 DEF TypeOK
    <3>. QED BY <1>19, <3>1, <3>2 DEF HandleErr
  <2>2. at' \in [Workers -> 1..4] /\ allOK' \in [Workers -> BOOLEAN]
    BY <1>19 DEF TypeOK, HandleErr, Handlers, Metric, Audit, Agent
  <2>3. UNCHANGED <<pub, fate, delivered, outstanding, mode, conn, pc, inbox, msg, faults>>
    BY <1>19 DEF HandleErr, streamVars
  <2>. QED BY <2>1, <2>2, <2>3 DEF TypeOK, InHand
<1>20. ASSUME NEW w \in Workers, Ack(w) PROVE TypeOK' /\ InHand'
  <2>1. msg[w].ev \in Events
    BY <1>20 DEF InHand, Ack, Delivery
  <2>2. /\ fate' \in [Events -> {"unsent", "wire", "lost", "stored", "acked",
                                 "termed", "expired"}]
        /\ outstanding' \subseteq Events
        /\ faults' \in 0..MaxFaults
    BY <1>20, <2>1, AnswerType DEF Ack
  <2>. QED BY <1>20, <2>2 DEF TypeOK, InHand, Ack, Iterate
<1>21. ASSUME NEW w \in Workers, Nak(w) PROVE TypeOK' /\ InHand'
  <2>1. msg[w].ev \in Events
    BY <1>21 DEF InHand, Nak, Delivery
  <2>2. /\ fate' \in [Events -> {"unsent", "wire", "lost", "stored", "acked",
                                 "termed", "expired"}]
        /\ outstanding' \subseteq Events
        /\ faults' \in 0..MaxFaults
    BY <1>21, <2>1, AnswerType DEF Nak
  <2>. QED BY <1>21, <2>2 DEF TypeOK, InHand, Nak, Iterate
<1>22. CASE UNCHANGED vars
  BY <1>22 DEF TypeOK, InHand, vars
<1>. QED
  BY <1>1, <1>2, <1>3, <1>4, <1>5, <1>6, <1>7, <1>8, <1>9, <1>10, <1>11, <1>12,
     <1>13, <1>14, <1>15, <1>16, <1>17, <1>18, <1>19, <1>20, <1>21, <1>22
     DEF Next, StreamNext, ProcessNext, Loop

\* Every variable keeps its type.
THEOREM TypeCorrect == Spec => [](TypeOK /\ InHand)
<1>1. Init => TypeOK /\ InHand
  BY PipelineAssumption DEF Init, TypeOK, InHand
<1>. QED BY <1>1, TypeStep, PTL DEF Spec

-----------------------------------------------------------------------------
(* At-least-once *)

\* A row is never taken back.
RowsAreKept == \A h \in Handlers, d \in Delivery : rows'[h][d] >= rows[h][d]

\* Only a handler call touches the rows, and it only adds to them.
LEMMA RowsGrow == TypeOK /\ InHand /\ [Next]_vars => RowsAreKept
<1> SUFFICES ASSUME TypeOK, InHand, [Next]_vars PROVE RowsAreKept
  OBVIOUS
<1>1. ASSUME UNCHANGED rows PROVE RowsAreKept
  BY <1>1 DEF TypeOK, RowsAreKept
<1>2. ASSUME NEW h \in Handlers, NEW d \in Delivery, Applied(h, d) PROVE RowsAreKept
  BY <1>2 DEF TypeOK, RowsAreKept, Applied
<1>3. ASSUME NEW w \in Workers, HandleOK(w) PROVE RowsAreKept
  BY <1>2, <1>3 DEF HandleOK, InHand
<1>4. ASSUME NEW w \in Workers, HandleErr(w) PROVE RowsAreKept
  BY <1>1, <1>2, <1>4 DEF HandleErr, InHand
<1>5. ASSUME StreamNext PROVE UNCHANGED rows
  BY <1>5
     DEF StreamNext, Emit, EmitReturns, Store, LosePublish, LoseDelivery,
         AckWaitExpires, Expire, Deliver
<1>6. ASSUME NEW w \in Workers, ProcessNext(w) PROVE UNCHANGED rows
  BY <1>6 DEF ProcessNext, Start, Stop, Exit, Crash, CloseConn
<1>7. ASSUME NEW w \in Workers,
             \/ Select(w) \/ NextFails(w) \/ Return(w) \/ NextMalformed(w)
             \/ NextEvent(w) \/ Ack(w) \/ Nak(w)
      PROVE  UNCHANGED rows
  BY <1>7 DEF Select, NextFails, Return, NextMalformed, NextEvent, Ack, Nak, Iterate
<1>. QED
  BY <1>1, <1>3, <1>4, <1>5, <1>6, <1>7 DEF Next, Loop, vars

\* The delivery in hand has gone through every handler called so far, as long
\* as none of them returned an error.
PassedHandlers ==
  \A w \in Workers : pc[w] = "handle" /\ allOK[w] =>
    \A h \in Handlers : h < at[w] => rows[h][msg[w]] > 0

\* A step that starts no iteration and ends none for worker w, and calls no
\* handler for it, keeps what w has passed.
LEMMA PassedFrame ==
  ASSUME TypeOK, TypeOK', InHand, PassedHandlers, RowsAreKept, NEW w \in Workers,
         \/ pc'[w] # "handle"
         \/ /\ pc'[w] = pc[w] /\ msg'[w] = msg[w]
            /\ at'[w] = at[w] /\ allOK'[w] = allOK[w]
  PROVE  pc'[w] = "handle" /\ allOK'[w] =>
           \A h \in Handlers : h < at'[w] => rows'[h][msg'[w]] > 0
<1> SUFFICES ASSUME pc'[w] = "handle", allOK'[w], NEW h \in Handlers, h < at'[w]
             PROVE  rows'[h][msg'[w]] > 0
  OBVIOUS
<1>1. /\ pc[w] = "handle" /\ msg'[w] = msg[w] /\ allOK[w] /\ h < at[w]
      /\ msg[w] \in Delivery
  BY DEF InHand
<1>2. rows[h][msg[w]] > 0 /\ rows'[h][msg[w]] >= rows[h][msg[w]]
  BY <1>1 DEF PassedHandlers, RowsAreKept
<1>3. rows[h][msg[w]] \in Nat /\ rows'[h][msg[w]] \in Nat
  BY <1>1 DEF TypeOK
<1>4. rows'[h][msg[w]] > 0
  BY <1>2, <1>3
<1>. QED BY <1>1, <1>4

LEMMA PassedStep ==
  ASSUME TypeOK, TypeOK', InHand, PassedHandlers, RowsAreKept, [Next]_vars
  PROVE  PassedHandlers'
<1> SUFFICES ASSUME NEW w \in Workers, pc'[w] = "handle", allOK'[w],
                    NEW h \in Handlers, h < at'[w]
             PROVE  rows'[h][msg'[w]] > 0
  BY DEF PassedHandlers
<1> DEFINE Frame == \/ pc'[w] # "handle"
                    \/ /\ pc'[w] = pc[w] /\ msg'[w] = msg[w]
                       /\ at'[w] = at[w] /\ allOK'[w] = allOK[w]
<1>1. CASE Frame
  BY <1>1, PassedFrame
<1>0. /\ DOMAIN pc = Workers /\ DOMAIN msg = Workers
      /\ DOMAIN at = Workers /\ DOMAIN allOK = Workers
  BY DEF TypeOK
<1>a. ASSUME NEW v \in Workers, GoesDown(v) PROVE Frame
  <2>1. pc' = [pc EXCEPT ![v] = "select"] /\ v # w
    BY <1>a, <1>0 DEF GoesDown
  <2>. QED BY <1>a, <1>0, <2>1 DEF GoesDown
<1>2. ASSUME StreamNext \/ UNCHANGED vars PROVE Frame
  <2>1. UNCHANGED <<pc, msg, at, allOK>>
    BY <1>2
       DEF StreamNext, Emit, EmitReturns, Store, LosePublish, LoseDelivery,
           AckWaitExpires, Expire, Deliver, loopVars, vars
  <2>. QED BY <2>1
<1>3. ASSUME NEW v \in Workers, ProcessNext(v) PROVE Frame
  <2>1. UNCHANGED <<pc, msg, at, allOK>> \/ GoesDown(v)
    BY <1>3 DEF ProcessNext, Start, Stop, Exit, Crash, CloseConn, loopVars
  <2>. QED BY <2>1, <1>a
<1>4. ASSUME NEW v \in Workers,
             Select(v) \/ NextFails(v) \/ Return(v) \/ NextMalformed(v)
      PROVE  Frame
  <2>1. CASE Return(v)
    BY <2>1, <1>a DEF Return
  <2>2. CASE Select(v) \/ NextFails(v) \/ NextMalformed(v)
    <3>1. /\ pc' = [pc EXCEPT ![v] = "next"] \/ pc' = [pc EXCEPT ![v] = "select"]
          /\ UNCHANGED <<msg, at, allOK>>
      BY <2>2 DEF Select, NextFails, NextMalformed
    <3>. QED BY <3>1, <1>0
  <2>. QED BY <1>4, <2>1, <2>2
<1>5. ASSUME NEW v \in Workers, Ack(v) \/ Nak(v) PROVE Frame
  <2>1. Iterate(v)
    BY <1>5 DEF Ack, Nak
  <2>2. v # w
    BY <2>1, <1>0 DEF Iterate
  <2>. QED BY <2>1, <2>2, <1>0 DEF Iterate
<1>6. ASSUME NEW v \in Workers, NextEvent(v) PROVE Frame \/ at'[w] = 1
  BY <1>6, <1>0 DEF NextEvent, Metric
<1>7. ASSUME NEW v \in Workers, HandleErr(v) PROVE Frame \/ ~allOK'[w]
  BY <1>7, <1>0 DEF HandleErr
<1>8. ASSUME NEW v \in Workers, HandleOK(v) PROVE rows'[h][msg'[w]] > 0
  <2>1. CASE v # w
    BY <1>1, <1>8, <2>1 DEF HandleOK, TypeOK
  <2>2. CASE v = w
    <3>1. /\ pc[w] = "handle" /\ msg'[w] = msg[w] /\ allOK[w] /\ at'[w] = at[w] + 1
          /\ at[w] \in Handlers /\ msg[w] \in Delivery
      BY <1>8, <2>2 DEF HandleOK, InHand, TypeOK
    <3>2. CASE h = at[w]
      BY <1>8, <2>2, <3>1, <3>2 DEF HandleOK, Applied, TypeOK
    <3>3. CASE h # at[w]
      <4>1. h < at[w]
        BY <3>1, <3>3 DEF Handlers, Metric, Audit, Agent, TypeOK
      <4>2. rows[h][msg[w]] > 0 /\ rows'[h][msg[w]] >= rows[h][msg[w]]
        BY <3>1, <4>1 DEF PassedHandlers, RowsAreKept
      <4>3. rows[h][msg[w]] \in Nat /\ rows'[h][msg[w]] \in Nat
        BY <3>1 DEF TypeOK
      <4>4. rows'[h][msg[w]] > 0
        BY <4>2, <4>3
      <4>. QED BY <3>1, <4>4
    <3>. QED BY <3>2, <3>3
  <2>. QED BY <2>1, <2>2
<1>9. at'[w] # 1
  BY DEF Handlers, Metric, Audit, Agent, TypeOK
<1>. QED
  BY <1>1, <1>2, <1>3, <1>4, <1>5, <1>6, <1>7, <1>8, <1>9 DEF Next, Loop

\* Only Ack makes a message acknowledged, and only one that has passed.
LEMMA OnlyAckAcks ==
  ASSUME TypeOK, InHand, [Next]_vars, NEW e \in Events, fate'[e] = "acked"
  PROVE  \/ fate[e] = "acked"
         \/ \E w \in Workers : Ack(w) /\ msg[w].ev = e
<1>1. ASSUME StreamNext \/ UNCHANGED vars PROVE fate[e] = "acked"
  <2>1. \/ UNCHANGED fate
        \/ \E x \in Events, f \in {"wire", "lost", "stored", "expired"} :
             fate' = [fate EXCEPT ![x] = f]
    BY <1>1
       DEF StreamNext, Emit, EmitReturns, Store, LosePublish, LoseDelivery,
           AckWaitExpires, Expire, Deliver, vars
  <2>. QED BY <2>1 DEF TypeOK
<1>2. ASSUME NEW v \in Workers, ProcessNext(v) PROVE fate[e] = "acked"
  BY <1>2 DEF ProcessNext, Start, Stop, Exit, Crash, CloseConn, streamVars
<1>3. ASSUME NEW v \in Workers,
             \/ Select(v) \/ NextFails(v) \/ Return(v) \/ NextEvent(v)
             \/ HandleOK(v) \/ HandleErr(v)
      PROVE  fate[e] = "acked"
  BY <1>3 DEF Select, NextFails, Return, NextEvent, HandleOK, HandleErr, streamVars
<1>4. ASSUME NEW v \in Workers, NextMalformed(v) PROVE fate[e] = "acked"
  BY <1>4 DEF NextMalformed, Removed, AnswerLost, TypeOK
<1>5. ASSUME NEW v \in Workers, Nak(v) PROVE fate[e] = "acked"
  BY <1>5 DEF Nak, Requeued, AnswerLost
<1>6. ASSUME NEW v \in Workers, Ack(v) PROVE fate[e] = "acked" \/ msg[v].ev = e
  BY <1>6 DEF Ack, Removed, AnswerLost, TypeOK
<1>. QED BY <1>1, <1>2, <1>3, <1>4, <1>5, <1>6 DEF Next, Loop

LEMMA AckedStep ==
  ASSUME TypeOK, TypeOK', InHand, PassedHandlers, RowsAreKept, AckedMeansHandled,
         [Next]_vars
  PROVE  AckedMeansHandled'
<1> SUFFICES ASSUME NEW e \in Events, fate'[e] = "acked"
             PROVE  \E n \in 1..MaxDeliver :
                      \A h \in Handlers : rows'[h][[ev |-> e, n |-> n]] > 0
  BY DEF AckedMeansHandled
<1>1. \E n \in 1..MaxDeliver :
        \A h \in Handlers : rows[h][[ev |-> e, n |-> n]] > 0
  <2>1. CASE fate[e] = "acked"
    BY <2>1 DEF AckedMeansHandled
  <2>2. ASSUME NEW w \in Workers, Ack(w), msg[w].ev = e
        PROVE  \E n \in 1..MaxDeliver :
                 \A h \in Handlers : rows[h][[ev |-> e, n |-> n]] > 0
    <3>1. \A h \in Handlers : h < at[w]
      BY <2>2 DEF Ack, TypeOK, Handlers, Metric, Audit, Agent
    <3>2. \A h \in Handlers : rows[h][msg[w]] > 0
      BY <2>2, <3>1 DEF Ack, PassedHandlers
    <3>3. msg[w].n \in 1..MaxDeliver /\ msg[w] = [ev |-> e, n |-> msg[w].n]
      BY <2>2 DEF Ack, InHand, Delivery
    <3>. QED BY <3>2, <3>3
  <2>. QED BY <2>1, <2>2, OnlyAckAcks
<1>2. PICK n \in 1..MaxDeliver :
        \A h \in Handlers : rows[h][[ev |-> e, n |-> n]] > 0
  BY <1>1
<1>3. [ev |-> e, n |-> n] \in Delivery
  BY DEF Delivery
<1>4. \A h \in Handlers : /\ rows[h][[ev |-> e, n |-> n]] \in Nat
                          /\ rows'[h][[ev |-> e, n |-> n]] \in Nat
                          /\ rows'[h][[ev |-> e, n |-> n]] >= rows[h][[ev |-> e, n |-> n]]
  BY <1>3 DEF TypeOK, RowsAreKept
<1>5. \A h \in Handlers : rows'[h][[ev |-> e, n |-> n]] > 0
  BY <1>2, <1>4
<1>. QED BY <1>5

\* An event leaves the stream as acknowledged only after one delivery of it has
\* gone through every handler (consumer.go:113-126).
THEOREM AckedIsHandled == Spec => []AckedMeansHandled
<1> DEFINE IInv == TypeOK /\ InHand /\ PassedHandlers /\ AckedMeansHandled
<1>1. Init => IInv
  BY PipelineAssumption DEF Init, TypeOK, InHand, PassedHandlers, AckedMeansHandled
<1>2. IInv /\ [Next]_vars => IInv'
  BY TypeStep, RowsGrow, PassedStep, AckedStep
<1>. QED BY <1>1, <1>2, PTL DEF Spec

=============================================================================
