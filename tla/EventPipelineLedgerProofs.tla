---------------------- MODULE EventPipelineLedgerProofs ----------------------
(***************************************************************************)
(* The copies of an event that the workers hold, for any number of events, *)
(* workers, deliveries and faults: none is handled twice, healthy sinks    *)
(* are never skipped, retries are due to faults alone if events are        *)
(* handled in time, and the pipeline implements the ledger.                *)
(***************************************************************************)
EXTENDS EventPipelineProofs, SequenceTheorems, FiniteSetTheorems

\* The copies worker w holds: number 0 is in hand, the others in its iterator.
Slots(w) == {i \in 0..Len(inbox[w]) : i = 0 => msg[w] # NoMsg}
Copy(w, i) == IF i = 0 THEN msg[w] ELSE inbox[w][i]

\* Where the loop is, and what it has in hand there.
Loops ==
  \A w \in Workers : /\ pc[w] # "handle" => msg[w] = NoMsg
                     /\ mode[w] = "down" => pc[w] # "handle"

LEMMA CopyType ==
  ASSUME TypeOK, NEW w \in Workers, NEW i \in Slots(w)
  PROVE  Copy(w, i) \in Delivery /\ i \in Nat
<1>1. Len(inbox[w]) \in Nat /\ inbox[w] \in Seq(Delivery)
  BY DEF TypeOK
<1>2. i \in Nat /\ i <= Len(inbox[w])
  BY <1>1 DEF Slots
<1>3. CASE i = 0
  BY <1>3 DEF TypeOK, Copy, Slots
<1>4. CASE i # 0
  BY <1>1, <1>2, <1>4, ElementOfSeq DEF Copy
<1>. QED BY <1>2, <1>3, <1>4

-----------------------------------------------------------------------------
(* How a step moves the copies *)

\* Nothing is delivered, and what w holds it held before, one place further
\* back if it has taken one from its iterator.
Moves(w, s) ==
  \A i \in Slots(w)' : i + s \in Slots(w) /\ Copy(w, i)' = Copy(w, i + s)

\* Worker w leaves its hands empty, or as they are, and keeps its iterator or
\* drops what is in it.
LEMMA MovesNot ==
  ASSUME TypeOK, NEW w \in Workers,
         inbox'[w] = inbox[w] \/ inbox'[w] = <<>>,
         msg'[w] = msg[w] \/ msg'[w] = NoMsg
  PROVE  Moves(w, 0)
<1> SUFFICES ASSUME NEW i \in Slots(w)'
             PROVE  i + 0 \in Slots(w) /\ Copy(w, i)' = Copy(w, i + 0)
  BY DEF Moves
<1>1. Len(inbox[w]) \in Nat /\ Len(inbox'[w]) \in Nat /\ Len(inbox'[w]) <= Len(inbox[w])
  BY EmptySeq DEF TypeOK
<1>2. i \in Nat /\ i <= Len(inbox'[w]) /\ (i = 0 => msg'[w] # NoMsg)
  BY <1>1 DEF Slots
<1>3. i + 0 = i
  BY <1>2
<1>4. i \in Slots(w)
  BY <1>1, <1>2 DEF Slots
<1>5. i # 0 => inbox'[w] = inbox[w]
  BY <1>2, EmptySeq
<1>. QED BY <1>2, <1>3, <1>4, <1>5 DEF Copy

LEMMA MovesUp ==
  ASSUME TypeOK, NEW w \in Workers, inbox[w] # <<>>, inbox'[w] = Tail(inbox[w]),
         msg'[w] = Head(inbox[w]) \/ msg'[w] = NoMsg
  PROVE  /\ Moves(w, 1)
         /\ 1 \in Slots(w) /\ Copy(w, 1) = Head(inbox[w])
<1>1. /\ inbox[w] \in Seq(Delivery) /\ Len(inbox[w]) \in Nat \ {0}
      /\ Len(inbox'[w]) = Len(inbox[w]) - 1
      /\ \A i \in 1..Len(inbox'[w]) : inbox'[w][i] = inbox[w][i + 1]
      /\ Head(inbox[w]) = inbox[w][1]
  BY HeadTailProperties, EmptySeq DEF TypeOK
<1>2. 1 \in Slots(w) /\ Copy(w, 1) = Head(inbox[w])
  BY <1>1 DEF Slots, Copy
<1>3. ASSUME NEW i \in Slots(w)'
      PROVE  i + 1 \in Slots(w) /\ Copy(w, i)' = Copy(w, i + 1)
  <2>1. i \in Nat /\ i <= Len(inbox'[w]) /\ (i = 0 => msg'[w] # NoMsg)
    BY <1>1 DEF Slots
  <2>2. i + 1 \in Slots(w) /\ i + 1 # 0
    BY <1>1, <2>1 DEF Slots
  <2>3. CASE i = 0
    BY <1>1, <2>1, <2>2, <2>3 DEF Copy
  <2>4. CASE i # 0
    BY <1>1, <2>1, <2>2, <2>4 DEF Copy
  <2>. QED BY <2>2, <2>3, <2>4
<1>. QED BY <1>2, <1>3 DEF Moves

\* Worker v takes the next copy from its iterator, and no other copy moves.
Takes(v) ==
  /\ NextEvent(v) \/ NextMalformed(v)
  /\ Moves(v, 1) /\ 1 \in Slots(v) /\ Copy(v, 1) = Head(inbox[v])
  /\ \A w \in Workers \ {v} : Moves(w, 0)

LEMMA TakeMoves ==
  ASSUME TypeOK, Loops, NEW v \in Workers, NextEvent(v) \/ NextMalformed(v)
  PROVE  Takes(v)
<1>1. inbox' = [inbox EXCEPT ![v] = Tail(@)] /\ inbox[v] # <<>>
  BY DEF NextEvent, NextMalformed
<1>2. msg' = [msg EXCEPT ![v] = Head(inbox[v])] \/ (UNCHANGED msg /\ msg[v] = NoMsg)
  BY DEF NextEvent, NextMalformed, Loops
<1>3. \A w \in Workers \ {v} : inbox'[w] = inbox[w] /\ msg'[w] = msg[w]
  BY <1>1, <1>2 DEF TypeOK
<1>4. /\ inbox'[v] = Tail(inbox[v])
      /\ msg'[v] = Head(inbox[v]) \/ msg'[v] = NoMsg
  BY <1>1, <1>2 DEF TypeOK
<1>5. \A w \in Workers \ {v} : Moves(w, 0)
  BY <1>3, MovesNot
<1>. QED BY <1>1, <1>4, <1>5, MovesUp DEF Takes

\* A step delivers a copy, or takes one from an iterator, or only keeps what the
\* workers hold, or drops some of it.
LEMMA Movement ==
  ASSUME TypeOK, Loops, [Next]_vars
  PROVE  \/ \E e \in Events, w \in Workers : Deliver(e, w)
         \/ \E v \in Workers : Takes(v)
         \/ \A w \in Workers : Moves(w, 0)
<1> DEFINE Keeps == \A w \in Workers : /\ inbox'[w] = inbox[w] \/ inbox'[w] = <<>>
                                       /\ msg'[w] = msg[w] \/ msg'[w] = NoMsg
<1>1. Keeps => \A w \in Workers : Moves(w, 0)
  BY MovesNot
<1> HIDE DEF Keeps
<1>2. ASSUME UNCHANGED <<inbox, msg>> PROVE Keeps
  BY <1>2 DEF Keeps
<1>3. ASSUME NEW v \in Workers, GoesDown(v) PROVE Keeps
  BY <1>3 DEF GoesDown, Keeps, TypeOK
<1>4. ASSUME NEW v \in Workers, CloseConn(v) PROVE Keeps
  BY <1>4 DEF CloseConn, Keeps, TypeOK
<1>5. ASSUME NEW v \in Workers, Ack(v) \/ Nak(v) PROVE Keeps
  BY <1>5 DEF Ack, Nak, Iterate, Keeps, TypeOK
<1>6. CASE StreamNext \/ UNCHANGED vars
  BY <1>1, <1>2, <1>6
     DEF StreamNext, Emit, EmitReturns, Store, LosePublish, LoseDelivery,
         AckWaitExpires, Expire, loopVars, vars
<1>7. ASSUME NEW v \in Workers, ProcessNext(v) PROVE Keeps
  <2>1. UNCHANGED <<inbox, msg>> \/ GoesDown(v) \/ CloseConn(v)
    BY <1>7 DEF ProcessNext, Start, Stop, Exit, Crash, loopVars
  <2>. QED BY <2>1, <1>2, <1>3, <1>4
<1>8. ASSUME NEW v \in Workers, Loop(v) PROVE Keeps \/ Takes(v)
  <2>1. \/ UNCHANGED <<inbox, msg>> \/ GoesDown(v) \/ Ack(v) \/ Nak(v)
        \/ NextEvent(v) \/ NextMalformed(v)
    BY <1>8 DEF Loop, Select, NextFails, Return, HandleOK, HandleErr
  <2>. QED BY <2>1, <1>2, <1>3, <1>5, TakeMoves
<1>. QED BY <1>1, <1>6, <1>7, <1>8 DEF Next

LEMMA LoopsStep == TypeOK /\ Loops /\ [Next]_vars => Loops'
<1> SUFFICES ASSUME TypeOK, Loops, [Next]_vars PROVE Loops'
  OBVIOUS
<1>1. ASSUME StreamNext \/ UNCHANGED vars PROVE UNCHANGED <<pc, msg, mode>>
  BY <1>1
     DEF StreamNext, Emit, EmitReturns, Store, LosePublish, LoseDelivery,
         AckWaitExpires, Expire, Deliver, loopVars, vars
<1>2. ASSUME NEW v \in Workers, GoesDown(v) PROVE Loops'
  BY <1>2 DEF GoesDown, Loops, TypeOK
<1>3. ASSUME NEW v \in Workers, ProcessNext(v) PROVE Loops'
  <2>1. CASE Start(v) \/ Stop(v)
    BY <2>1 DEF Start, Stop, loopVars, Loops, TypeOK
  <2>2. CASE CloseConn(v)
    BY <2>2 DEF CloseConn, Loops
  <2>. QED BY <1>2, <1>3, <2>1, <2>2 DEF ProcessNext, Exit, Crash
<1>4. ASSUME NEW v \in Workers, Select(v) \/ NextFails(v) \/ NextMalformed(v) PROVE Loops'
  BY <1>4 DEF Select, NextFails, NextMalformed, Loops, TypeOK
<1>5. ASSUME NEW v \in Workers, NextEvent(v) PROVE Loops'
  BY <1>5 DEF NextEvent, Loops, TypeOK
<1>6. ASSUME NEW v \in Workers, HandleOK(v) \/ HandleErr(v) PROVE Loops'
  BY <1>6 DEF HandleOK, HandleErr, Loops
<1>7. ASSUME NEW v \in Workers, Ack(v) \/ Nak(v) PROVE Loops'
  BY <1>7 DEF Ack, Nak, Iterate, Loops, TypeOK
<1>. QED
  BY <1>1, <1>2, <1>3, <1>4, <1>5, <1>6, <1>7 DEF Loops, Next, Loop, Return

-----------------------------------------------------------------------------
(* The copies are those the server has delivered, each of them once *)

Entered(e) == fate[e] \notin {"unsent", "wire", "lost"}

\* A copy was counted by the server, of a message that is in the stream or was.
Counted ==
  \A w \in Workers : \A i \in Slots(w) :
    /\ Copy(w, i).n <= delivered[Copy(w, i).ev]
    /\ Entered(Copy(w, i).ev)

\* No two copies are of the same delivery.
Distinct ==
  \A v, w \in Workers : \A i \in Slots(v), j \in Slots(w) :
    Copy(v, i) = Copy(w, j) => v = w /\ i = j

\* A message whose Emit has not been called is nowhere.
Unsent == \A e \in Events : pub[e] = "idle" => fate[e] = "unsent"

\* The server only counts up, and what is in the stream was in it for good.
LEMMA ServerStep ==
  ASSUME TypeOK, InHand, Unsent, [Next]_vars
  PROVE  /\ \A e \in Events : /\ delivered'[e] >= delivered[e]
                              /\ Entered(e) => Entered(e)'
         /\ Unsent'
<1> USE DEF TypeOK, Entered, Unsent
<1> DEFINE Goal == /\ \A e \in Events : /\ delivered'[e] >= delivered[e]
                                        /\ Entered(e) => Entered(e)'
                   /\ Unsent'
<1> SUFFICES Goal
  OBVIOUS
<1>0. \A e \in Events : delivered[e] \in Nat
  BY PipelineAssumption
<1>1. ASSUME NEW x \in Events,
             \/ Emit(x) \/ EmitReturns(x) \/ Store(x) \/ LosePublish(x)
             \/ AckWaitExpires(x) \/ Expire(x)
      PROVE  Goal
  <2>1. delivered' = delivered
    BY <1>1 DEF Emit, EmitReturns, Store, LosePublish, AckWaitExpires, Expire
  <2>2. CASE Emit(x)
    <3>1. fate[x] = "unsent" /\ pub' \in {[pub EXCEPT ![x] = "failed"], [pub EXCEPT ![x] = "sending"]}
      BY <2>2 DEF Emit
    <3>2. UNCHANGED fate \/ fate' = [fate EXCEPT ![x] = "wire"]
      BY <2>2 DEF Emit
    <3>3. \A e \in Events : pub'[e] = "idle" => e # x /\ pub[e] = "idle"
      BY <3>1
    <3>4. \A e \in Events : e # x => fate'[e] = fate[e]
      BY <3>2
    <3>. QED BY <1>0, <2>1, <3>1, <3>3, <3>4
  <2>3. CASE EmitReturns(x)
    BY <1>0, <2>1, <2>3 DEF EmitReturns
  <2>4. CASE Store(x) \/ LosePublish(x) \/ Expire(x)
    BY <1>0, <2>1, <2>4 DEF Store, LosePublish, Expire
  <2>5. CASE AckWaitExpires(x)
    BY <1>0, <2>1, <2>5 DEF AckWaitExpires
  <2>. QED BY <1>1, <2>2, <2>3, <2>4, <2>5
<1>2. ASSUME NEW x \in Events, LoseDelivery(x) \/ \E w \in Workers : Deliver(x, w)
      PROVE  Goal
  <2>1. UNCHANGED <<pub, fate>> /\ delivered' = [delivered EXCEPT ![x] = @ + 1]
    BY <1>2 DEF LoseDelivery, Deliver, CountDelivery
  <2>2. \A e \in Events : delivered'[e] >= delivered[e]
    BY <1>0, <2>1
  <2>. QED BY <2>1, <2>2
<1>3. ASSUME UNCHANGED <<pub, fate, delivered>> PROVE Goal
  BY <1>0, <1>3
<1>4. ASSUME NEW w \in Workers, ProcessNext(w) PROVE Goal
  BY <1>3, <1>4 DEF ProcessNext, Start, Stop, Exit, Crash, CloseConn, streamVars
<1>5. ASSUME NEW w \in Workers,
             \/ Select(w) \/ NextFails(w) \/ Return(w) \/ NextEvent(w)
             \/ HandleOK(w) \/ HandleErr(w)
      PROVE  Goal
  BY <1>3, <1>5 DEF Select, NextFails, Return, NextEvent, HandleOK, HandleErr, streamVars
<1>6. ASSUME NEW w \in Workers, NextMalformed(w) \/ Ack(w) \/ Nak(w)
      PROVE  Goal
  <2>1. UNCHANGED <<pub, delivered>>
    BY <1>6 DEF NextMalformed, Ack, Nak, Iterate
  <2>2. \/ UNCHANGED fate
        \/ \E x \in {Head(inbox[w]).ev, msg[w].ev}, f \in {"termed", "acked"} :
             fate' = [fate EXCEPT ![x] = IF @ = "stored" THEN f ELSE @]
    BY <1>6 DEF NextMalformed, Ack, Nak, Removed, Requeued, AnswerLost
  <2>. QED BY <1>0, <2>1, <2>2
<1>7. CASE UNCHANGED vars
  BY <1>3, <1>7 DEF vars
<1> HIDE DEF Goal
<1>. QED
  BY <1>1, <1>2, <1>4, <1>5, <1>6, <1>7 DEF Next, StreamNext, Loop

\* A step that delivers adds one copy behind the others.
LEMMA DeliverAdds ==
  ASSUME TypeOK, NEW e \in Events, NEW w \in Workers, Deliver(e, w),
         NEW u \in Workers, NEW i \in Slots(u)'
  PROVE  \/ i \in Slots(u) /\ Copy(u, i)' = Copy(u, i)
         \/ /\ u = w /\ i = Len(inbox[w]) + 1
            /\ Copy(u, i)' = [ev |-> e, n |-> delivered[e] + 1]
<1> DEFINE d == [ev |-> e, n |-> delivered[e] + 1]
<1>1. /\ inbox' = [inbox EXCEPT ![w] = Append(@, d)] /\ msg' = msg
      /\ delivered[e] < MaxDeliver
  BY DEF Deliver, CanDeliver
<1>2. d \in Delivery /\ inbox[w] \in Seq(Delivery)
  BY <1>1, NextDelivery DEF TypeOK
<1> HIDE DEF d
<1>3. /\ Len(inbox[w]) \in Nat
      /\ Len(Append(inbox[w], d)) = Len(inbox[w]) + 1
      /\ \A k \in 1..Len(inbox[w]) : Append(inbox[w], d)[k] = inbox[w][k]
      /\ Append(inbox[w], d)[Len(inbox[w]) + 1] = d
  BY <1>2, AppendProperties
<1>4. CASE u # w
  <2>1. inbox'[u] = inbox[u] /\ msg'[u] = msg[u]
    BY <1>1, <1>4 DEF TypeOK
  <2>. QED BY <2>1 DEF Slots, Copy
<1>5. CASE u = w
  <2>1. inbox'[w] = Append(inbox[w], d) /\ msg'[w] = msg[w]
    BY <1>1 DEF TypeOK
  <2>2. i \in Nat /\ i <= Len(inbox[w]) + 1 /\ (i = 0 => msg[w] # NoMsg)
    BY <1>3, <1>5, <2>1 DEF Slots
  <2>3. CASE i = Len(inbox[w]) + 1
    BY <1>3, <1>5, <2>1, <2>3 DEF Copy, d
  <2>4. CASE i <= Len(inbox[w])
    BY <1>3, <1>5, <2>1, <2>2, <2>4 DEF Copy, Slots
  <2>. QED BY <1>3, <2>2, <2>3, <2>4
<1>. QED BY <1>4, <1>5

\* A step that does not deliver moves what is kept by so many places.
LEMMA Shift ==
  ASSUME TypeOK, Loops, [Next]_vars,
         ~ \E e \in Events, w \in Workers : Deliver(e, w)
  PROVE  \E s \in [Workers -> {0, 1}] : \A w \in Workers : Moves(w, s[w])
<1>1. CASE \A w \in Workers : Moves(w, 0)
  <2>1. [w \in Workers |-> 0] \in [Workers -> {0, 1}]
    OBVIOUS
  <2>. QED BY <1>1, <2>1
<1>2. ASSUME NEW v \in Workers, Takes(v)
      PROVE  \E s \in [Workers -> {0, 1}] : \A w \in Workers : Moves(w, s[w])
  <2> DEFINE s == [w \in Workers |-> IF w = v THEN 1 ELSE 0]
  <2>1. s \in [Workers -> {0, 1}]
    OBVIOUS
  <2>2. \A w \in Workers : Moves(w, s[w])
    BY <1>2 DEF Takes
  <2>. QED BY <2>1, <2>2
<1>. QED BY <1>1, <1>2, Movement

LEMMA CountedStep ==
  ASSUME TypeOK, TypeOK', InHand, Loops, Unsent, Counted, [Next]_vars
  PROVE  Counted'
<1> SUFFICES ASSUME NEW u \in Workers, NEW i \in Slots(u)'
             PROVE  /\ (Copy(u, i).n <= delivered[Copy(u, i).ev])'
                    /\ Entered(Copy(u, i).ev)'
  BY DEF Counted
<1>1. ASSUME NEW k \in Slots(u), Copy(u, i)' = Copy(u, k)
      PROVE  /\ (Copy(u, i).n <= delivered[Copy(u, i).ev])'
             /\ Entered(Copy(u, i).ev)'
  <2>1. Copy(u, k) \in Delivery
    BY CopyType
  <2>2. PICK e \in Events, n \in Nat : Copy(u, k) = [ev |-> e, n |-> n]
    BY <2>1, PipelineAssumption DEF Delivery
  <2>3. n <= delivered[e] /\ Entered(e)
    BY <2>2 DEF Counted
  <2>4. delivered[e] \in Nat /\ delivered'[e] \in Nat
    BY <2>2, PipelineAssumption DEF TypeOK
  <2>5. n <= delivered'[e] /\ Entered(e)'
    BY <2>2, <2>3, <2>4, ServerStep
  <2>. QED BY <1>1, <2>2, <2>5 DEF Entered
<1>2. ASSUME NEW e \in Events, NEW w \in Workers, Deliver(e, w),
             Copy(u, i)' = [ev |-> e, n |-> delivered[e] + 1]
      PROVE  /\ (Copy(u, i).n <= delivered[Copy(u, i).ev])'
             /\ Entered(Copy(u, i).ev)'
  <2>1. delivered'[e] = delivered[e] + 1 /\ delivered[e] \in Nat
    BY <1>2, PipelineAssumption DEF Deliver, CountDelivery, TypeOK
  <2>2. fate' = fate /\ fate[e] = "stored"
    BY <1>2 DEF Deliver, CanDeliver
  <2>. QED BY <1>2, <2>1, <2>2 DEF Entered
<1>3. CASE \E e \in Events, w \in Workers : Deliver(e, w)
  BY <1>1, <1>2, <1>3, DeliverAdds
<1>4. CASE ~ \E e \in Events, w \in Workers : Deliver(e, w)
  <2>1. PICK s \in [Workers -> {0, 1}] : \A w \in Workers : Moves(w, s[w])
    BY <1>4, Shift
  <2>2. i + s[u] \in Slots(u) /\ Copy(u, i)' = Copy(u, i + s[u])
    BY <2>1 DEF Moves
  <2>. QED BY <1>1, <2>2
<1>. QED BY <1>3, <1>4

LEMMA DistinctStep ==
  ASSUME TypeOK, TypeOK', Loops, Counted, Distinct, [Next]_vars
  PROVE  Distinct'
<1> SUFFICES ASSUME NEW v \in Workers, NEW w \in Workers,
                    NEW i \in Slots(v)', NEW j \in Slots(w)', Copy(v, i)' = Copy(w, j)'
             PROVE  v = w /\ i = j
  BY DEF Distinct
<1>1. i \in Nat /\ j \in Nat
  BY DEF Slots
<1>2. CASE \E e \in Events, u \in Workers : Deliver(e, u)
  <2>1. PICK e \in Events, u \in Workers : Deliver(e, u)
    BY <1>2
  <2>2. delivered[e] \in Nat
    BY PipelineAssumption DEF TypeOK
  <2>3. ASSUME NEW x \in Workers, NEW k \in Slots(x)
        PROVE  Copy(x, k) # [ev |-> e, n |-> delivered[e] + 1]
    BY <2>2 DEF Counted
  <2>. QED BY <2>1, <2>3, DeliverAdds DEF Distinct
<1>3. CASE ~ \E e \in Events, u \in Workers : Deliver(e, u)
  <2>1. PICK s \in [Workers -> {0, 1}] : \A x \in Workers : Moves(x, s[x])
    BY <1>3, Shift
  <2>2. /\ i + s[v] \in Slots(v) /\ Copy(v, i)' = Copy(v, i + s[v])
        /\ j + s[w] \in Slots(w) /\ Copy(w, j)' = Copy(w, j + s[w])
    BY <2>1 DEF Moves
  <2>3. v = w /\ i + s[v] = j + s[w]
    BY <2>2 DEF Distinct
  <2>. QED BY <1>1, <2>3
<1>. QED BY <1>2, <1>3

-----------------------------------------------------------------------------
(* No delivery is handled twice *)

\* No handler has applied a copy that waits in an iterator, and of the one in
\* hand only those that come before at.
Fresh ==
  \A w \in Workers : \A i \in Slots(w), h \in Handlers :
    i # 0 \/ at[w] <= h => rows[h][Copy(w, i)] = 0

\* The three ways a step can change rows and at.
LEMMA HandlerStep ==
  ASSUME TypeOK, [Next]_vars
  PROVE  \/ UNCHANGED rows /\ UNCHANGED at
         \/ \E v \in Workers : HandleOK(v) \/ HandleErr(v)
         \/ UNCHANGED rows /\ \E v \in Workers :
              /\ \A w \in Workers \ {v} : at'[w] = at[w]
              /\ msg'[v] = NoMsg \/ NextEvent(v)
<1> USE DEF TypeOK
<1>1. CASE StreamNext \/ UNCHANGED vars
  BY <1>1
     DEF StreamNext, Emit, EmitReturns, Store, LosePublish, LoseDelivery,
         AckWaitExpires, Expire, Deliver, loopVars, vars
<1>2. ASSUME NEW v \in Workers, GoesDown(v)
      PROVE  msg'[v] = NoMsg /\ \A w \in Workers \ {v} : at'[w] = at[w]
  BY <1>2 DEF GoesDown
<1>3. ASSUME NEW v \in Workers, ProcessNext(v)
      PROVE  UNCHANGED rows /\ (UNCHANGED at \/ GoesDown(v))
  BY <1>3 DEF ProcessNext, Start, Stop, Exit, Crash, CloseConn, loopVars
<1>4. ASSUME NEW v \in Workers,
             Select(v) \/ NextFails(v) \/ NextMalformed(v) \/ Return(v)
      PROVE  UNCHANGED rows /\ (UNCHANGED at \/ GoesDown(v))
  BY <1>4 DEF Select, NextFails, NextMalformed, Return
<1>5. ASSUME NEW v \in Workers, NextEvent(v)
      PROVE  UNCHANGED rows /\ \A w \in Workers \ {v} : at'[w] = at[w]
  BY <1>5 DEF NextEvent
<1>6. ASSUME NEW v \in Workers, Ack(v) \/ Nak(v)
      PROVE  UNCHANGED rows /\ msg'[v] = NoMsg /\ \A w \in Workers \ {v} : at'[w] = at[w]
  BY <1>6 DEF Ack, Nak, Iterate
<1>. QED BY <1>1, <1>2, <1>3, <1>4, <1>5, <1>6 DEF Next, Loop

\* What is in hand is a copy.
LEMMA HandIsSlot ==
  ASSUME TypeOK, NEW v \in Workers, msg[v] \in Delivery
  PROVE  0 \in Slots(v) /\ Copy(v, 0) = msg[v]
<1>1. Len(inbox[v]) \in Nat /\ msg[v] # NoMsg
  BY PipelineAssumption DEF TypeOK
<1>. QED BY <1>1 DEF Slots, Copy

LEMMA FreshStep ==
  ASSUME TypeOK, TypeOK', InHand, Loops, Counted, Distinct, Fresh,
         DuplicatesAreRedeliveries, [Next]_vars
  PROVE  Fresh'
<1> SUFFICES ASSUME NEW w \in Workers, NEW i \in Slots(w)', NEW h \in Handlers,
                    i # 0 \/ at'[w] <= h
             PROVE  rows'[h][Copy(w, i)'] = 0
  BY DEF Fresh
<1>1. ASSUME NEW e \in Events, NEW v \in Workers, Deliver(e, v)
      PROVE  rows'[h][Copy(w, i)'] = 0
  <2>1. UNCHANGED <<rows, at>>
    BY <1>1 DEF Deliver
  <2>2. [ev |-> e, n |-> delivered[e] + 1] \in Delivery /\ delivered[e] \in Nat
    BY <1>1, NextDelivery, PipelineAssumption DEF Deliver, CanDeliver, TypeOK
  <2>3. rows[h][[ev |-> e, n |-> delivered[e] + 1]] = 0
    <3> DEFINE d == [ev |-> e, n |-> delivered[e] + 1]
    <3>1. ~(d.n <= delivered[d.ev])
      BY <2>2
    <3>2. rows[h][d] <= 0 /\ rows[h][d] \in Nat
      BY <2>2, <3>1 DEF DuplicatesAreRedeliveries, TypeOK
    <3>. QED BY <3>2
  <2>. QED BY <1>1, <2>1, <2>3, DeliverAdds DEF Fresh
<1>2. ASSUME NEW v \in Workers, Takes(v) PROVE rows'[h][Copy(w, i)'] = 0
  <2>1. /\ UNCHANGED rows
        /\ w # v => at'[w] = at[w]
    BY <1>2 DEF Takes, NextEvent, NextMalformed, TypeOK
  <2>2. CASE w = v
    <3>1. i + 1 \in Slots(w) /\ Copy(w, i)' = Copy(w, i + 1) /\ i + 1 # 0
      BY <1>2, <2>2 DEF Takes, Moves, Slots
    <3>. QED BY <2>1, <3>1 DEF Fresh
  <2>3. CASE w # v
    <3>1. i + 0 \in Slots(w) /\ Copy(w, i)' = Copy(w, i + 0) /\ i + 0 = i
      BY <1>2, <2>3 DEF Takes, Moves, Slots
    <3>. QED BY <2>1, <2>3, <3>1 DEF Fresh
  <2>. QED BY <2>2, <2>3
<1>3. CASE \A u \in Workers : Moves(u, 0)
  <2>1. i \in Slots(w) /\ Copy(w, i)' = Copy(w, i) /\ i \in Nat
    <3>1. i + 0 \in Slots(w) /\ Copy(w, i)' = Copy(w, i + 0) /\ i \in Nat
      BY <1>3 DEF Moves, Slots
    <3>2. i + 0 = i
      BY <3>1
    <3>. QED BY <3>1, <3>2
  <2>2. CASE UNCHANGED rows /\ UNCHANGED at
    BY <2>1, <2>2 DEF Fresh
  <2>3. ASSUME NEW v \in Workers, HandleOK(v) \/ HandleErr(v)
        PROVE  rows'[h][Copy(w, i)'] = 0
    <3>1. /\ Applied(at[v], msg[v]) \/ UNCHANGED rows
          /\ at' = [at EXCEPT ![v] = @ + 1] /\ at[v] \in Handlers /\ msg[v] \in Delivery
      BY <2>3 DEF HandleOK, HandleErr, InHand
    <3>2. 0 \in Slots(v) /\ Copy(v, 0) = msg[v]
      BY <3>1, HandIsSlot
    <3>3. at[w] \in Nat /\ h \in Nat /\ (i # 0 \/ at[w] <= h)
      <4>1. at[w] \in 1..4 /\ h \in {1, 2, 3}
        BY DEF TypeOK, Handlers, Metric, Audit, Agent
      <4>2. at'[w] = at[w] \/ at'[w] = at[w] + 1
        BY <3>1 DEF TypeOK
      <4>. QED BY <4>1, <4>2
    <3>4. rows[h][Copy(w, i)] = 0
      BY <2>1, <3>3 DEF Fresh
    <3>5. CASE Copy(w, i) # msg[v]
      <4>1. Copy(w, i) \in Delivery
        BY <2>1, CopyType
      <4>2. rows'[h][Copy(w, i)] = rows[h][Copy(w, i)]
        BY <3>1, <3>5, <4>1 DEF Applied, TypeOK
      <4>. QED BY <2>1, <3>4, <4>2
    <3>6. CASE Copy(w, i) = msg[v]
      <4>1. w = v /\ i = 0
        BY <2>1, <3>2, <3>6 DEF Distinct
      <4>2. h # at[v]
        BY <3>1, <3>3, <4>1 DEF TypeOK
      <4>3. Copy(w, i) \in Delivery
        BY <2>1, CopyType
      <4>4. rows'[h][Copy(w, i)] = rows[h][Copy(w, i)]
        BY <3>1, <4>2, <4>3 DEF Applied, TypeOK
      <4>. QED BY <2>1, <3>4, <4>4
    <3>. QED BY <3>5, <3>6
  <2>4. ASSUME UNCHANGED rows, NEW v \in Workers, msg'[v] = NoMsg,
               \A u \in Workers \ {v} : at'[u] = at[u]
        PROVE  rows'[h][Copy(w, i)'] = 0
    <3>1. w = v => i # 0
      BY <2>4 DEF Slots
    <3>. QED BY <2>1, <2>4, <3>1 DEF Fresh
  <2>5. ASSUME NEW v \in Workers, NextEvent(v) PROVE rows'[h][Copy(w, i)'] = 0
    BY <1>2, <2>5, TakeMoves
  <2>. QED BY <2>2, <2>3, <2>4, <2>5, HandlerStep
<1>. QED BY <1>1, <1>2, <1>3, Movement

LEMMA DuplicatesStep ==
  ASSUME TypeOK, TypeOK', InHand, Unsent, Loops, Counted, Fresh,
         DuplicatesAreRedeliveries, [Next]_vars
  PROVE  DuplicatesAreRedeliveries'
<1> SUFFICES ASSUME NEW h \in Handlers, NEW d \in Delivery
             PROVE  rows'[h][d] <= IF d.n <= delivered'[d.ev] THEN 1 ELSE 0
  BY DEF DuplicatesAreRedeliveries
<1>1. /\ rows[h][d] \in Nat /\ rows'[h][d] \in Nat
      /\ d.n \in Nat /\ d.ev \in Events
      /\ delivered[d.ev] \in Nat /\ delivered'[d.ev] \in Nat
  <2>1. d.n \in Nat /\ d.ev \in Events
    BY PipelineAssumption DEF Delivery
  <2>. QED BY <2>1, PipelineAssumption DEF TypeOK
<1>2. delivered[d.ev] <= delivered'[d.ev]
  BY <1>1, ServerStep
<1>3. rows[h][d] <= IF d.n <= delivered[d.ev] THEN 1 ELSE 0
  BY DEF DuplicatesAreRedeliveries
<1>4. CASE rows'[h][d] = rows[h][d]
  BY <1>1, <1>2, <1>3, <1>4
<1>5. ASSUME NEW v \in Workers, HandleOK(v) \/ HandleErr(v), rows'[h][d] # rows[h][d]
      PROVE  rows'[h][d] <= IF d.n <= delivered'[d.ev] THEN 1 ELSE 0
  <2>1. Applied(at[v], msg[v]) /\ at[v] \in Handlers /\ msg[v] \in Delivery
    BY <1>5 DEF HandleOK, HandleErr, InHand
  <2>2. h = at[v] /\ d = msg[v] /\ rows'[h][d] = rows[h][d] + 1
    BY <1>5, <2>1 DEF Applied, TypeOK
  <2>3. 0 \in Slots(v) /\ Copy(v, 0) = msg[v]
    BY <2>1, HandIsSlot
  <2>4. rows[h][d] = 0
    BY <2>1, <2>2, <2>3 DEF Fresh, TypeOK, Handlers, Metric, Audit, Agent
  <2>5. d.n <= delivered[d.ev]
    BY <2>2, <2>3 DEF Counted
  <2>. QED BY <1>1, <1>2, <2>2, <2>4, <2>5
<1>. QED BY <1>4, <1>5, HandlerStep

-----------------------------------------------------------------------------
(* Healthy sinks *)

\* Of the delivery a running worker has in hand, every handler called so far whose
\* store works has made its rows.
HealthyPassed ==
  \A w \in Workers : mode[w] = "running" /\ pc[w] = "handle" =>
    \A h \in Handlers \ Broken : h < at[w] => rows[h][msg[w]] > 0

LEMMA HealthyStep ==
  ASSUME TypeOK, TypeOK', InHand, Loops, HealthyPassed, RowsAreKept, [Next]_vars
  PROVE  HealthyPassed'
<1> SUFFICES ASSUME NEW w \in Workers, mode'[w] = "running", pc'[w] = "handle",
                    NEW h \in Handlers \ Broken, h < at'[w]
             PROVE  rows'[h][msg'[w]] > 0
  BY DEF HealthyPassed
<1> DEFINE Frame == /\ mode[w] = "running" /\ pc[w] = "handle"
                    /\ at'[w] = at[w] /\ msg'[w] = msg[w]
<1>0. /\ DOMAIN pc = Workers /\ DOMAIN msg = Workers
      /\ DOMAIN at = Workers /\ DOMAIN mode = Workers
  BY DEF TypeOK
<1>g. ASSUME msg'[w] = msg[w], msg[w] \in Delivery, rows[h][msg[w]] > 0
      PROVE  rows'[h][msg'[w]] > 0
  <2>1. /\ rows[h][msg[w]] \in Nat /\ rows'[h][msg[w]] \in Nat
        /\ rows'[h][msg[w]] >= rows[h][msg[w]]
    BY <1>g DEF TypeOK, RowsAreKept
  <2>2. rows'[h][msg[w]] > 0
    BY <1>g, <2>1
  <2>. QED BY <1>g, <2>2
<1>1. CASE Frame
  <2>1. rows[h][msg[w]] > 0 /\ msg[w] \in Delivery
    BY <1>1 DEF HealthyPassed, InHand
  <2>. QED BY <1>1, <1>g, <2>1
<1>2. ASSUME NEW v \in Workers, GoesDown(v) PROVE Frame
  <2>1. v # w
    BY <1>2, <1>0 DEF GoesDown
  <2>. QED BY <1>2, <1>0, <2>1 DEF GoesDown
<1>3. ASSUME StreamNext \/ UNCHANGED vars PROVE Frame
  <2>1. UNCHANGED <<pc, msg, at, mode>>
    BY <1>3
       DEF StreamNext, Emit, EmitReturns, Store, LosePublish, LoseDelivery,
           AckWaitExpires, Expire, Deliver, loopVars, vars
  <2>. QED BY <2>1
<1>4. ASSUME NEW v \in Workers, ProcessNext(v) PROVE Frame
  <2>1. CASE Start(v) \/ Stop(v)
    <3>1. UNCHANGED <<pc, msg, at>> /\ v # w
      BY <2>1, <1>0 DEF Start, Stop, loopVars, Loops
    <3>. QED BY <2>1, <3>1, <1>0 DEF Start, Stop
  <2>2. CASE CloseConn(v)
    BY <2>2 DEF CloseConn
  <2>. QED BY <1>2, <1>4, <2>1, <2>2 DEF ProcessNext, Exit, Crash
<1>5. ASSUME NEW v \in Workers,
             Select(v) \/ NextFails(v) \/ NextMalformed(v) \/ Return(v)
      PROVE  Frame
  <2>1. CASE Return(v)
    BY <2>1, <1>2 DEF Return
  <2>2. CASE Select(v) \/ NextFails(v) \/ NextMalformed(v)
    <3>1. /\ pc' = [pc EXCEPT ![v] = "next"] \/ pc' = [pc EXCEPT ![v] = "select"]
          /\ UNCHANGED <<msg, at, mode>>
      BY <2>2 DEF Select, NextFails, NextMalformed
    <3>. QED BY <3>1, <1>0
  <2>. QED BY <1>5, <2>1, <2>2
<1>6. ASSUME NEW v \in Workers, NextEvent(v) PROVE Frame
  <2>1. v # w
    BY <1>6, <1>0 DEF NextEvent, Handlers, Metric, Audit, Agent
  <2>. QED BY <1>6, <2>1, <1>0 DEF NextEvent
<1>7. ASSUME NEW v \in Workers, Ack(v) \/ Nak(v) PROVE Frame
  <2>1. Iterate(v)
    BY <1>7 DEF Ack, Nak
  <2>2. v # w
    BY <2>1, <1>0 DEF Iterate
  <2>. QED BY <2>1, <2>2, <1>0 DEF Iterate
<1>8. ASSUME NEW v \in Workers, HandleOK(v) \/ HandleErr(v)
      PROVE  rows'[h][msg'[w]] > 0
  <2>1. /\ UNCHANGED <<pc, msg, mode>> /\ at' = [at EXCEPT ![v] = @ + 1]
        /\ at[v] \in Handlers
    BY <1>8 DEF HandleOK, HandleErr
  <2>2. CASE v # w
    BY <1>1, <2>1, <2>2, <1>0
  <2>3. CASE v = w /\ h # at[w]
    <3>1. at'[w] = at[w] + 1 /\ at[w] \in {1, 2, 3} /\ h \in {1, 2, 3}
      BY <2>1, <2>3, <1>0 DEF Handlers, Metric, Audit, Agent
    <3>2. h < at[w]
      BY <2>3, <3>1
    <3>3. rows[h][msg[w]] > 0 /\ msg[w] \in Delivery /\ msg'[w] = msg[w]
      BY <2>1, <3>2 DEF HealthyPassed, InHand
    <3>. QED BY <3>3, <1>g
  <2>4. CASE v = w /\ h = at[w]
    <3>1. Applied(at[w], msg[w]) /\ msg[w] \in Delivery
      BY <1>8, <2>1, <2>4 DEF HandleOK, HandleErr, InHand
    <3>. QED BY <2>1, <2>4, <3>1 DEF Applied, TypeOK
  <2>. QED BY <2>2, <2>3, <2>4
<1>. QED
  BY <1>1, <1>3, <1>4, <1>5, <1>6, <1>7, <1>8 DEF Next, Loop

-----------------------------------------------------------------------------
(* One copy of an event at a time, if it is handled within AckWait *)

Apart ==
  \A v, w \in Workers : \A i \in Slots(v), j \in Slots(w) :
    Copy(v, i).ev = Copy(w, j).ev => v = w /\ i = j

Awaited == \A w \in Workers : \A i \in Slots(w) : Copy(w, i).ev \in outstanding

OneCopy == ~SlowHandlers => Apart /\ Awaited

LEMMA HoldsSlot ==
  ASSUME TypeOK, NEW w \in Workers, NEW e
  PROVE  Holds(w, e) <=> \E i \in Slots(w) : Copy(w, i).ev = e
<1>1. Len(inbox[w]) \in Nat
  BY DEF TypeOK
<1>2. \A i \in 1..Len(inbox[w]) : i \in Slots(w) /\ Copy(w, i) = inbox[w][i]
  BY <1>1 DEF Slots, Copy
<1>3. msg[w] # NoMsg => 0 \in Slots(w) /\ Copy(w, 0) = msg[w]
  BY <1>1 DEF Slots, Copy
<1>4. \A i \in Slots(w) : /\ i = 0 => msg[w] # NoMsg /\ Copy(w, i) = msg[w]
                          /\ i # 0 => i \in 1..Len(inbox[w]) /\ Copy(w, i) = inbox[w][i]
  BY <1>1 DEF Slots, Copy
<1>. QED BY <1>2, <1>3, <1>4 DEF Holds

\* The server waits for fewer answers only after one has come, or AckWait has run out.
LEMMA OutstandingStep ==
  ASSUME TypeOK, [Next]_vars
  PROVE  \/ outstanding \subseteq outstanding'
         \/ \E e \in Events : AckWaitExpires(e)
         \/ \E v \in Workers : /\ NextMalformed(v)
                               /\ outstanding' = outstanding \ {Head(inbox[v]).ev}
         \/ \E v \in Workers : /\ Ack(v) \/ Nak(v)
                               /\ outstanding' = outstanding \ {msg[v].ev}
<1>1. CASE StreamNext \/ UNCHANGED vars
  BY <1>1
     DEF StreamNext, Emit, EmitReturns, Store, LosePublish, LoseDelivery,
         Expire, Deliver, CountDelivery, vars
<1>2. ASSUME NEW v \in Workers, ProcessNext(v) PROVE outstanding \subseteq outstanding'
  BY <1>2 DEF ProcessNext, Start, Stop, Exit, Crash, CloseConn, streamVars
<1>3. ASSUME NEW v \in Workers,
             \/ Select(v) \/ NextFails(v) \/ Return(v) \/ NextEvent(v)
             \/ HandleOK(v) \/ HandleErr(v)
      PROVE  outstanding \subseteq outstanding'
  BY <1>3 DEF Select, NextFails, Return, NextEvent, HandleOK, HandleErr, streamVars
<1>4. ASSUME NEW v \in Workers, NextMalformed(v)
      PROVE  \/ outstanding \subseteq outstanding'
             \/ outstanding' = outstanding \ {Head(inbox[v]).ev}
  BY <1>4 DEF NextMalformed, Removed, AnswerLost
<1>5. ASSUME NEW v \in Workers, Ack(v) \/ Nak(v)
      PROVE  \/ outstanding \subseteq outstanding'
             \/ outstanding' = outstanding \ {msg[v].ev}
  BY <1>5 DEF Ack, Nak, Removed, Requeued, AnswerLost
<1>. QED BY <1>1, <1>2, <1>3, <1>4, <1>5 DEF Next, Loop

LEMMA ApartStep ==
  ASSUME TypeOK, TypeOK', Loops, Apart, Awaited, [Next]_vars
  PROVE  Apart'
<1> SUFFICES ASSUME NEW v \in Workers, NEW w \in Workers,
                    NEW i \in Slots(v)', NEW j \in Slots(w)', Copy(v, i)'.ev = Copy(w, j)'.ev
             PROVE  v = w /\ i = j
  BY DEF Apart
<1>1. i \in Nat /\ j \in Nat
  BY DEF Slots
<1>2. CASE \E e \in Events, u \in Workers : Deliver(e, u)
  <2>1. PICK e \in Events, u \in Workers : Deliver(e, u)
    BY <1>2
  <2>2. ASSUME NEW x \in Workers, NEW k \in Slots(x)
        PROVE  Copy(x, k).ev # e
    BY <2>1 DEF Awaited, Deliver, CanDeliver
  <2>. QED BY <2>1, <2>2, DeliverAdds DEF Apart
<1>3. CASE ~ \E e \in Events, u \in Workers : Deliver(e, u)
  <2>1. PICK s \in [Workers -> {0, 1}] : \A x \in Workers : Moves(x, s[x])
    BY <1>3, Shift
  <2>2. /\ i + s[v] \in Slots(v) /\ Copy(v, i)' = Copy(v, i + s[v])
        /\ j + s[w] \in Slots(w) /\ Copy(w, j)' = Copy(w, j + s[w])
    BY <2>1 DEF Moves
  <2>3. v = w /\ i + s[v] = j + s[w]
    BY <2>2 DEF Apart
  <2>. QED BY <1>1, <2>3
<1>. QED BY <1>2, <1>3

LEMMA AwaitedStep ==
  ASSUME TypeOK, TypeOK', InHand, Loops, ~SlowHandlers, Apart, Awaited, [Next]_vars
  PROVE  Awaited'
<1> SUFFICES ASSUME NEW w \in Workers, NEW i \in Slots(w)'
             PROVE  Copy(w, i)'.ev \in outstanding'
  BY DEF Awaited
<1>0. i \in Nat /\ i + 0 = i /\ i + 1 # 0
  BY DEF Slots
<1>1. CASE outstanding \subseteq outstanding'
  <2>1. CASE \E e \in Events, u \in Workers : Deliver(e, u)
    <3>1. PICK e \in Events, u \in Workers : Deliver(e, u)
      BY <2>1
    <3>2. e \in outstanding'
      BY <3>1 DEF Deliver, CountDelivery
    <3>. QED BY <1>1, <3>1, <3>2, DeliverAdds DEF Awaited
  <2>2. CASE ~ \E e \in Events, u \in Workers : Deliver(e, u)
    <3>1. PICK s \in [Workers -> {0, 1}] : \A x \in Workers : Moves(x, s[x])
      BY <2>2, Shift
    <3>2. i + s[w] \in Slots(w) /\ Copy(w, i)' = Copy(w, i + s[w])
      BY <3>1 DEF Moves
    <3>. QED BY <1>1, <3>2 DEF Awaited
  <2>. QED BY <2>1, <2>2
<1>2. ASSUME NEW e \in Events, AckWaitExpires(e) PROVE Copy(w, i)'.ev \in outstanding'
  <2>1. /\ UNCHANGED <<inbox, msg>> /\ outstanding' = outstanding \ {e}
        /\ ~Holds(w, e)
    BY <1>2 DEF AckWaitExpires, loopVars
  <2>2. i \in Slots(w) /\ Copy(w, i)' = Copy(w, i)
    BY <2>1 DEF Slots, Copy
  <2>. QED BY <2>1, <2>2, HoldsSlot DEF Awaited
<1>3. ASSUME NEW v \in Workers, NextMalformed(v),
             outstanding' = outstanding \ {Head(inbox[v]).ev}
      PROVE  Copy(w, i)'.ev \in outstanding'
  <2>1. Takes(v)
    BY <1>3, TakeMoves
  <2>2. CASE w = v
    <3>1. i # 0
      BY <1>3, <2>2 DEF NextMalformed, Loops, Slots
    <3>2. i + 1 \in Slots(v) /\ Copy(v, i)' = Copy(v, i + 1) /\ i + 1 # 1
      BY <1>0, <2>1, <2>2, <3>1 DEF Takes, Moves
    <3>3. Copy(v, i + 1).ev # Head(inbox[v]).ev
      BY <2>1, <3>2 DEF Takes, Apart
    <3>. QED BY <1>3, <2>2, <3>2, <3>3 DEF Awaited
  <2>3. CASE w # v
    <3>1. i \in Slots(w) /\ Copy(w, i)' = Copy(w, i)
      BY <1>0, <2>1, <2>3 DEF Takes, Moves
    <3>2. Copy(w, i).ev # Head(inbox[v]).ev
      BY <2>1, <2>3, <3>1 DEF Takes, Apart
    <3>. QED BY <1>3, <3>1, <3>2 DEF Awaited
  <2>. QED BY <2>2, <2>3
<1>4. ASSUME NEW v \in Workers, Ack(v) \/ Nak(v),
             outstanding' = outstanding \ {msg[v].ev}
      PROVE  Copy(w, i)'.ev \in outstanding'
  <2>1. UNCHANGED inbox /\ msg' = [msg EXCEPT ![v] = NoMsg] /\ msg[v] \in Delivery
    BY <1>4 DEF Ack, Nak, Iterate, InHand
  <2>2. 0 \in Slots(v) /\ Copy(v, 0) = msg[v]
    BY <2>1, HandIsSlot
  <2>3. Moves(w, 0)
    BY <2>1, MovesNot DEF TypeOK
  <2>4. i \in Slots(w) /\ Copy(w, i)' = Copy(w, i)
    BY <1>0, <2>3 DEF Moves
  <2>5. w = v => i # 0
    BY <2>1 DEF Slots, TypeOK
  <2>6. Copy(w, i).ev # msg[v].ev
    BY <2>2, <2>4, <2>5 DEF Apart
  <2>. QED BY <1>4, <2>4, <2>6 DEF Awaited
<1>. QED BY <1>1, <1>2, <1>3, <1>4, OutstandingStep

-----------------------------------------------------------------------------
(* The inductive invariant *)

CopyInv ==
  /\ TypeOK /\ InHand /\ PassedHandlers /\ AckedMeansHandled
  /\ Loops /\ Unsent /\ Counted /\ Distinct /\ Fresh /\ DuplicatesAreRedeliveries
  /\ HealthyPassed /\ OneCopy

LEMMA CopyInit == Init => CopyInv
<1> SUFFICES ASSUME Init PROVE CopyInv
  OBVIOUS
<1>1. TypeOK /\ InHand /\ PassedHandlers /\ AckedMeansHandled
  BY PipelineAssumption DEF Init, TypeOK, InHand, PassedHandlers, AckedMeansHandled
<1>2. Loops /\ Unsent /\ HealthyPassed
  BY DEF Init, Loops, Unsent, HealthyPassed
<1>3. \A w \in Workers : Slots(w) = {}
  BY EmptySeq DEF Init, Slots
<1>4. Counted /\ Distinct /\ Fresh /\ OneCopy
  BY <1>3 DEF Counted, Distinct, Fresh, OneCopy, Apart, Awaited
<1>5. DuplicatesAreRedeliveries
  BY DEF Init, DuplicatesAreRedeliveries
<1>. QED BY <1>1, <1>2, <1>4, <1>5 DEF CopyInv

LEMMA CopyStep == CopyInv /\ [Next]_vars => CopyInv'
<1> SUFFICES ASSUME CopyInv, [Next]_vars PROVE CopyInv'
  OBVIOUS
<1> USE DEF CopyInv
<1>1. TypeOK' /\ InHand' /\ RowsAreKept
  BY TypeStep, RowsGrow
<1>2. PassedHandlers' /\ AckedMeansHandled' /\ HealthyPassed'
  BY <1>1, PassedStep, AckedStep, HealthyStep
<1>3. Loops' /\ Unsent' /\ Counted' /\ Distinct'
  BY <1>1, LoopsStep, ServerStep, CountedStep, DistinctStep
<1>4. Fresh' /\ DuplicatesAreRedeliveries'
  BY <1>1, FreshStep, DuplicatesStep
<1>5. OneCopy'
  BY <1>1, ApartStep, AwaitedStep DEF OneCopy
<1>. QED BY <1>1, <1>2, <1>3, <1>4, <1>5

LEMMA CopyInvariance == Spec => []CopyInv
BY CopyInit, CopyStep, PTL DEF Spec

\* Duplicate rows come from redelivery only: whatever crashes and late answers
\* there are, no handler applies one delivery twice (consumer.go:113-129).
THEOREM NoDeliveryTwice == Spec => []DuplicatesAreRedeliveries
<1>1. CopyInv => DuplicatesAreRedeliveries
  BY DEF CopyInv
<1>. QED BY <1>1, CopyInvariance, PTL

\* A failing store keeps no event from the others (consumer.go:114-123).
THEOREM HealthyReceive == Spec => []HealthySinksReceive
<1>1. CopyInv => HealthySinksReceive
  <2> SUFFICES ASSUME CopyInv, NEW w \in Workers,
                      mode[w] = "running", pc[w] = "handle", at[w] \notin Handlers,
                      NEW h \in Handlers \ Broken
               PROVE  rows[h][msg[w]] > 0
    BY DEF HealthySinksReceive
  <2>1. h < at[w]
    BY DEF CopyInv, TypeOK, Handlers, Metric, Audit, Agent
  <2>. QED BY <2>1 DEF CopyInv, HealthyPassed
<1>. QED BY <1>1, CopyInvariance, PTL

LEMMA CopyExclusive == (CopyInv => ExclusiveHandling) /\ (CopyInv => ExclusiveHandling)'
<1>1. CopyInv => ExclusiveHandling
  BY HoldsSlot DEF CopyInv, OneCopy, Apart, ExclusiveHandling
<1>. QED BY <1>1, PTL

\* Events that are handled within AckWait are never in two workers at once.
THEOREM Exclusive == Spec => []ExclusiveHandling
BY CopyExclusive, CopyInvariance, PTL

-----------------------------------------------------------------------------
(* Retries are due to faults *)

Closed(e) == fate[e] \in {"acked", "termed", "expired"}

\* The deliveries of e so far that have come to nothing: all but one that is with
\* a process that runs.
Serves(w, e) == mode[w] = "running" /\ conn[w] = "open" /\ Holds(w, e)
Wasted(e) == IF \E w \in Workers : Serves(w, e) THEN delivered[e] - 1 ELSE delivered[e]

\* Processes that have been told to stop and are still connected waste more: one
\* may be sent e, and one may give e back and then be sent it again.
Leaving == {w \in Workers : mode[w] = "stopping" /\ conn[w] = "open"}
MayTake(e) == {w \in Leaving : ~Holds(w, e)}
Has(w, e) == msg[w] # NoMsg /\ msg[w].ev = e
MayReturn(e) == {w \in Leaving : pc[w] = "next" \/ Has(w, e)}

Cost(e) == Wasted(e) + Cardinality(MayTake(e)) + Cardinality(MayReturn(e))

\* Only a process that is stopping sees handlers fail.
NoErrors == Broken = {} => \A w \in Workers : mode[w] # "stopping" => allOK[w]

Budget ==
  ~SlowHandlers /\ Broken = {} =>
    \A e \in Events : /\ delivered[e] <= 1 + 2 * faults
                      /\ ~Closed(e) => Cost(e) <= 2 * faults

BudgetInv == IsFiniteSet(Leaving) /\ NoErrors /\ Budget

\* What worker w adds to the cost of e.
Weight(w, e) ==
  (IF w \in MayTake(e) THEN 1 ELSE 0) + (IF w \in MayReturn(e) THEN 1 ELSE 0)
    - (IF Serves(w, e) THEN 1 ELSE 0)

Same(w) ==
  /\ mode'[w] = mode[w] /\ conn'[w] = conn[w] /\ pc'[w] = pc[w]
  /\ msg'[w] = msg[w] /\ inbox'[w] = inbox[w]

LEMMA SameHolds ==
  ASSUME NEW w \in Workers, Same(w), NEW e \in Events
  PROVE  /\ Holds(w, e)' <=> Holds(w, e)
         /\ Has(w, e)' <=> Has(w, e)
         /\ Serves(w, e)' <=> Serves(w, e)
         /\ w \in Leaving' <=> w \in Leaving
         /\ w \in MayTake(e)' <=> w \in MayTake(e)
         /\ w \in MayReturn(e)' <=> w \in MayReturn(e)
<1>1. (Holds(w, e)' <=> Holds(w, e)) /\ (Has(w, e)' <=> Has(w, e))
  BY DEF Same, Holds, Has
<1>. QED BY <1>1 DEF Same, Serves, Leaving, MayTake, MayReturn

LEMMA CostType ==
  ASSUME TypeOK, IsFiniteSet(Leaving), NEW e \in Events
  PROVE  /\ IsFiniteSet(MayTake(e)) /\ Cardinality(MayTake(e)) \in Nat
         /\ IsFiniteSet(MayReturn(e)) /\ Cardinality(MayReturn(e)) \in Nat
         /\ delivered[e] \in Nat /\ Wasted(e) \in Int
         /\ Cost(e) \in Int /\ delivered[e] <= 1 + Cost(e)
<1>1. MayTake(e) \subseteq Leaving /\ MayReturn(e) \subseteq Leaving
  BY DEF MayTake, MayReturn
<1>2. /\ IsFiniteSet(MayTake(e)) /\ Cardinality(MayTake(e)) \in Nat
      /\ IsFiniteSet(MayReturn(e)) /\ Cardinality(MayReturn(e)) \in Nat
  BY <1>1, FS_Subset, FS_CardinalityType
<1>3. delivered[e] \in Nat
  BY PipelineAssumption DEF TypeOK
<1>4. Wasted(e) \in Int /\ delivered[e] <= 1 + Wasted(e)
  BY <1>3 DEF Wasted
<1>. QED BY <1>2, <1>3, <1>4 DEF Cost

\* If no other element comes or goes, the counts differ by that of x.
LEMMA ButOne ==
  ASSUME NEW S, NEW T, NEW x, IsFiniteSet(S), IsFiniteSet(T), S \ {x} = T \ {x}
  PROVE  Cardinality(S) - (IF x \in S THEN 1 ELSE 0) =
           Cardinality(T) - (IF x \in T THEN 1 ELSE 0)
<1>1. /\ Cardinality(S) \in Nat /\ Cardinality(T) \in Nat
      /\ Cardinality(S \ {x}) = IF x \in S THEN Cardinality(S) - 1 ELSE Cardinality(S)
      /\ Cardinality(T \ {x}) = IF x \in T THEN Cardinality(T) - 1 ELSE Cardinality(T)
  BY FS_RemoveElement, FS_CardinalityType
<1>. QED BY <1>1

\* A step of worker v alone changes the cost of e by what v adds to it.
LEMMA CostStep ==
  ASSUME TypeOK, TypeOK', IsFiniteSet(Leaving), IsFiniteSet(Leaving'),
         ~SlowHandlers, ExclusiveHandling, ExclusiveHandling',
         NEW v \in Workers, \A w \in Workers \ {v} : Same(w),
         NEW e \in Events
  PROVE  Cost(e)' = Cost(e) + (delivered'[e] - delivered[e]) + (Weight(v, e)' - Weight(v, e))
<1> DEFINE one(b) == IF b THEN 1 ELSE 0
<1>1. /\ MayTake(e)' \ {v} = MayTake(e) \ {v}
      /\ MayReturn(e)' \ {v} = MayReturn(e) \ {v}
      /\ \A w \in Workers \ {v} : Serves(w, e)' <=> Serves(w, e)
  BY SameHolds DEF MayTake, MayReturn, Leaving
<1>2. /\ IsFiniteSet(MayTake(e)) /\ IsFiniteSet(MayTake(e)')
      /\ IsFiniteSet(MayReturn(e)) /\ IsFiniteSet(MayReturn(e)')
      /\ MayTake(e)' \subseteq Leaving' /\ MayReturn(e)' \subseteq Leaving'
      /\ MayTake(e) \subseteq Leaving /\ MayReturn(e) \subseteq Leaving
  BY FS_Subset DEF MayTake, MayReturn
<1>3. /\ Cardinality(MayTake(e)) \in Nat /\ Cardinality(MayTake(e)') \in Nat
      /\ Cardinality(MayReturn(e)) \in Nat /\ Cardinality(MayReturn(e)') \in Nat
  BY <1>2, FS_CardinalityType
<1>4. /\ Cardinality(MayTake(e)') - one(v \in MayTake(e)') =
           Cardinality(MayTake(e)) - one(v \in MayTake(e))
      /\ Cardinality(MayReturn(e)') - one(v \in MayReturn(e)') =
           Cardinality(MayReturn(e)) - one(v \in MayReturn(e))
  BY <1>1, <1>2, ButOne
<1>5. delivered[e] \in Nat /\ delivered'[e] \in Nat
  BY PipelineAssumption DEF TypeOK
<1>6. Wasted(e)' - delivered'[e] + one(Serves(v, e)') = Wasted(e) - delivered[e] + one(Serves(v, e))
  <2>1. CASE \E w \in Workers \ {v} : Serves(w, e)
    <3>1. ~Serves(v, e) /\ ~Serves(v, e)'
      BY <1>1, <2>1 DEF Serves, ExclusiveHandling
    <3>2. Wasted(e) = delivered[e] - 1 /\ Wasted(e)' = delivered'[e] - 1
      BY <1>1, <2>1 DEF Wasted
    <3>. QED BY <1>5, <3>1, <3>2
  <2>2. CASE ~ \E w \in Workers \ {v} : Serves(w, e)
    <3>1. Wasted(e) = delivered[e] - one(Serves(v, e))
      BY <1>5, <2>2 DEF Wasted
    <3>2. Wasted(e)' = delivered'[e] - one(Serves(v, e)')
      BY <1>1, <1>5, <2>2 DEF Wasted
    <3>. QED BY <1>5, <3>1, <3>2
  <2>. QED BY <2>1, <2>2
<1>7. Wasted(e) \in Int /\ Wasted(e)' \in Int
  BY <1>5 DEF Wasted
<1>8. /\ Cost(e) = Wasted(e) + Cardinality(MayTake(e)) + Cardinality(MayReturn(e))
      /\ Cost(e)' = Wasted(e)' + Cardinality(MayTake(e)') + Cardinality(MayReturn(e)')
  BY DEF Cost
<1>9. /\ Weight(v, e) = one(v \in MayTake(e)) + one(v \in MayReturn(e)) - one(Serves(v, e))
      /\ Weight(v, e)' = one(v \in MayTake(e)') + one(v \in MayReturn(e)') - one(Serves(v, e)')
  BY DEF Weight
<1>10. /\ one(v \in MayTake(e)) \in Int /\ one(v \in MayTake(e)') \in Int
       /\ one(v \in MayReturn(e)) \in Int /\ one(v \in MayReturn(e)') \in Int
       /\ one(Serves(v, e)) \in Int /\ one(Serves(v, e)') \in Int
  OBVIOUS
<1> HIDE DEF one
<1>. QED BY <1>3, <1>4, <1>5, <1>6, <1>7, <1>8, <1>9, <1>10

\* What it adds, by the mode of the worker.
WeightForm(w, e) ==
  /\ Weight(w, e) \in Int /\ -1 <= Weight(w, e)
  /\ mode[w] # "running" => 0 <= Weight(w, e)
  /\ conn[w] # "open" \/ mode[w] = "down" => Weight(w, e) = 0
  /\ mode[w] = "running" /\ conn[w] = "open" =>
       Weight(w, e) = IF Holds(w, e) THEN -1 ELSE 0
  /\ mode[w] = "stopping" /\ conn[w] = "open" =>
       Weight(w, e) = (IF Holds(w, e) THEN 0 ELSE 1)
                        + (IF pc[w] = "next" \/ Has(w, e) THEN 1 ELSE 0)

LEMMA WeightIs ==
  ASSUME NEW w \in Workers, NEW e \in Events
  PROVE  WeightForm(w, e) /\ WeightForm(w, e)'
<1>1. WeightForm(w, e)
  BY DEF WeightForm, Weight, MayTake, MayReturn, Leaving, Serves
<1>2. WeightForm(w, e)'
  BY DEF WeightForm, Weight, MayTake, MayReturn, Leaving, Serves
<1>. QED BY <1>1, <1>2

\* The numbers of the budget are numbers.
LEMMA Numbers ==
  ASSUME TypeOK, TypeOK', NEW w \in Workers, NEW e \in Events
  PROVE  /\ Weight(w, e) \in Int /\ Weight(w, e)' \in Int
         /\ faults \in Nat /\ faults' \in Nat
         /\ delivered[e] \in Nat /\ delivered'[e] \in Nat
<1>1. Weight(w, e) \in Int /\ Weight(w, e)' \in Int
  BY DEF Weight
<1>2. faults \in Nat /\ faults' \in Nat
  BY PipelineAssumption DEF TypeOK
<1>3. delivered[e] \in Nat /\ delivered'[e] \in Nat
  BY PipelineAssumption DEF TypeOK
<1>. QED BY <1>1, <1>2, <1>3

\* A step pays for what it adds to the cost of e, with two for a fault.
Pays(v, e) ==
  /\ Closed(e) => Closed(e)'
  /\ faults' >= faults
  /\ Closed(e)' => delivered'[e] = delivered[e]
  /\ ~Closed(e)' => (delivered'[e] - delivered[e]) + Weight(v, e)' <= Weight(v, e) + 2 * (faults' - faults)

\* A worker keeps its copy of e, unless it takes or answers it.
LEMMA KeepsCopy ==
  ASSUME TypeOK, TypeOK', Loops, NEW v \in Workers, NEW e \in Events, Holds(v, e),
         \/ UNCHANGED <<inbox, msg>>
         \/ \E x \in Events : Deliver(x, v)
         \/ NextEvent(v)
         \/ NextMalformed(v) /\ Head(inbox[v]).ev # e
         \/ Iterate(v) /\ msg[v].ev # e
  PROVE  Holds(v, e)'
<1>1. CASE UNCHANGED <<inbox, msg>>
  BY <1>1 DEF Holds
<1>2. ASSUME NEW x \in Events, Deliver(x, v) PROVE Holds(v, e)'
  <2> DEFINE d == [ev |-> x, n |-> delivered[x] + 1]
  <2>1. inbox' = [inbox EXCEPT ![v] = Append(@, d)] /\ msg' = msg /\ d \in Delivery
    BY <1>2, NextDelivery DEF Deliver, CanDeliver
  <2> HIDE DEF d
  <2>2. inbox'[v] = Append(inbox[v], d) /\ inbox[v] \in Seq(Delivery)
    BY <2>1 DEF TypeOK
  <2>3. /\ Len(inbox[v]) \in Nat /\ Len(inbox'[v]) = Len(inbox[v]) + 1
        /\ \A k \in 1..Len(inbox[v]) : inbox'[v][k] = inbox[v][k]
    BY <2>1, <2>2, AppendProperties
  <2>. QED BY <2>1, <2>3 DEF Holds
<1>3. ASSUME NextEvent(v) \/ (NextMalformed(v) /\ Head(inbox[v]).ev # e)
      PROVE  Holds(v, e)'
  <2>1. /\ inbox[v] # <<>> /\ inbox[v] \in Seq(Delivery) /\ inbox'[v] = Tail(inbox[v])
        /\ msg[v] = NoMsg
    BY <1>3 DEF NextEvent, NextMalformed, TypeOK, Loops
  <2>2. /\ Len(inbox[v]) \in Nat /\ Len(inbox'[v]) = Len(inbox[v]) - 1
        /\ \A k \in 1..Len(inbox'[v]) : inbox'[v][k] = inbox[v][k + 1]
        /\ Head(inbox[v]) = inbox[v][1]
    BY <2>1, HeadTailProperties, EmptySeq
  <2>3. PICK k \in 1..Len(inbox[v]) : inbox[v][k].ev = e
    BY <2>1 DEF Holds
  <2>4. CASE k = 1
    <3>0. Head(inbox[v]).ev = e
      BY <2>2, <2>3, <2>4
    <3>1. NextEvent(v) /\ msg'[v] = inbox[v][1]
      <4>1. NextEvent(v)
        BY <1>3, <3>0
      <4>2. msg' = [msg EXCEPT ![v] = Head(inbox[v])]
        BY <4>1 DEF NextEvent
      <4>. QED BY <2>2, <4>1, <4>2 DEF TypeOK
    <3>2. inbox[v][1] \in Delivery
      BY <2>1, <2>2, <2>3, ElementOfSeq
    <3>. QED BY <2>3, <2>4, <3>1, <3>2, PipelineAssumption DEF Holds
  <2>5. CASE k # 1
    <3>1. k - 1 \in 1..Len(inbox'[v]) /\ inbox'[v][k - 1] = inbox[v][k]
      BY <2>2, <2>5
    <3>. QED BY <2>3, <3>1 DEF Holds
  <2>. QED BY <2>4, <2>5
<1>4. ASSUME Iterate(v), msg[v].ev # e PROVE Holds(v, e)'
  BY <1>4 DEF Iterate, Holds
<1>. QED BY <1>1, <1>2, <1>3, <1>4

\* A worker that answers a delivery of x takes it off the stream, or loses the
\* answer, or is stopping and gives it back.
LEMMA AnswerPays ==
  ASSUME TypeOK, TypeOK', NEW v \in Workers, NEW e \in Events, NEW x \in Events,
         mode[v] # "down", UNCHANGED <<mode, conn, delivered>>,
         pc[v] = "next" \/ Has(v, x), pc'[v] = "select", msg'[v] = NoMsg,
         Entered(x), x # e /\ Holds(v, e) => Holds(v, e)',
         \/ Removed(x, "acked") /\ UNCHANGED faults
         \/ Removed(x, "termed") /\ UNCHANGED faults
         \/ Requeued(x) /\ UNCHANGED faults /\ mode[v] = "stopping"
         \/ AnswerLost(v)
  PROVE  Pays(v, e)
<1>1. /\ WeightForm(v, e) /\ WeightForm(v, e)'
      /\ Weight(v, e) \in Int /\ Weight(v, e)' \in Int
      /\ faults \in Nat /\ faults' \in Nat /\ delivered[e] \in Nat
  BY WeightIs, Numbers
<1>2. /\ Closed(e) => Closed(e)'
      /\ faults' >= faults
  BY <1>1 DEF Removed, Requeued, AnswerLost, Fault, Closed, TypeOK
<1>3. ~Has(v, e)' /\ pc'[v] # "next"
  BY DEF Has
<1>4. SUFFICES ASSUME ~Closed(e)' PROVE Weight(v, e)' <= Weight(v, e) + 2 * (faults' - faults)
  <2>1. delivered'[e] = delivered[e] /\ delivered'[e] - delivered[e] = 0
    BY <1>1
  <2>. QED BY <1>1, <1>2, <2>1 DEF Pays
<1>5. x = e /\ mode[v] = "running" /\ conn[v] = "open" => faults' = faults + 1
  <2>1. SUFFICES ASSUME x = e, mode[v] = "running", conn[v] = "open" PROVE faults' = faults + 1
    OBVIOUS
  <2>2. fate[e] \in {"stored", "acked", "termed", "expired"}
    BY <2>1 DEF Entered, TypeOK
  <2>3. ASSUME NEW f \in {"acked", "termed"}, Removed(x, f) PROVE FALSE
    BY <1>4, <2>1, <2>2, <2>3 DEF Removed, Closed, TypeOK
  <2>4. AnswerLost(v)
    BY <2>1, <2>3
  <2>. QED BY <2>1, <2>4 DEF AnswerLost, Fault
<1>6. CASE conn[v] # "open"
  BY <1>1, <1>2, <1>6 DEF WeightForm
<1>7. CASE mode[v] = "running" /\ conn[v] = "open"
  BY <1>1, <1>2, <1>5, <1>7 DEF WeightForm
<1>8. CASE mode[v] = "stopping" /\ conn[v] = "open"
  <2>1. Weight(v, e)' = IF Holds(v, e)' THEN 0 ELSE 1
    BY <1>1, <1>3, <1>8 DEF WeightForm
  <2>2. x = e => Weight(v, e) >= 1
    BY <1>1, <1>8 DEF WeightForm
  <2>3. x # e => Weight(v, e) >= IF Holds(v, e) THEN 0 ELSE 1
    BY <1>1, <1>8 DEF WeightForm
  <2>4. Weight(v, e)' <= Weight(v, e)
    BY <1>1, <2>1, <2>2, <2>3
  <2>. QED BY <1>1, <1>2, <2>4
<1>. QED BY <1>6, <1>7, <1>8 DEF TypeOK

\* A worker takes the next delivery, or is sent one, or answers none.
LEMMA TakesPays ==
  ASSUME TypeOK, TypeOK', Loops, NEW v \in Workers, NEW e \in Events, NextEvent(v)
  PROVE  Pays(v, e)
<1>1. /\ WeightForm(v, e) /\ WeightForm(v, e)'
      /\ Weight(v, e) \in Int /\ Weight(v, e)' \in Int
      /\ faults \in Nat /\ delivered[e] \in Nat /\ delivered'[e] \in Nat
  BY WeightIs, Numbers
<1>2. /\ UNCHANGED <<fate, delivered, mode, conn, faults>> /\ pc[v] = "next" /\ mode[v] # "down"
      /\ Closed(e)' = Closed(e)
  BY DEF NextEvent, streamVars, Closed
<1>3. Holds(v, e) => Holds(v, e)'
  BY KeepsCopy
<1>4. Weight(v, e)' <= Weight(v, e)
  <2>1. CASE conn[v] # "open"
    BY <1>1, <1>2, <2>1 DEF WeightForm
  <2>2. CASE mode[v] = "running" /\ conn[v] = "open"
    BY <1>1, <1>2, <1>3, <2>2 DEF WeightForm
  <2>3. CASE mode[v] = "stopping" /\ conn[v] = "open"
    BY <1>1, <1>2, <1>3, <2>3 DEF WeightForm
  <2>. QED BY <1>2, <2>1, <2>2, <2>3 DEF TypeOK
<1>5. faults' - faults = 0 /\ delivered'[e] - delivered[e] = 0
  BY <1>1, <1>2
<1>. QED BY <1>1, <1>2, <1>4, <1>5 DEF Pays

LEMMA DeliverPays ==
  ASSUME TypeOK, TypeOK', Loops, Awaited, NEW v \in Workers, NEW e \in Events,
         NEW x \in Events, Deliver(x, v)
  PROVE  Pays(v, e)
<1>1. /\ WeightForm(v, e) /\ WeightForm(v, e)'
      /\ Weight(v, e) \in Int /\ Weight(v, e)' \in Int
      /\ faults \in Nat /\ delivered[e] \in Nat /\ delivered'[e] \in Nat
  BY WeightIs, Numbers
<1>2. /\ UNCHANGED <<fate, mode, conn, pc, msg, faults>> /\ mode[v] # "down" /\ conn[v] = "open"
      /\ delivered' = [delivered EXCEPT ![x] = @ + 1]
      /\ fate[x] = "stored" /\ x \notin outstanding
      /\ Closed(e)' = Closed(e) /\ Has(v, e)' = Has(v, e)
  BY DEF Deliver, CanDeliver, CountDelivery, Closed, Has
<1>3. Holds(v, e) => Holds(v, e)'
  BY KeepsCopy
<1>4. delivered'[e] - delivered[e] = (IF e = x THEN 1 ELSE 0)
  BY <1>1, <1>2 DEF TypeOK
<1>5. Closed(e) => e # x
  BY <1>2 DEF Closed
<1>6. e = x => ~Holds(v, e) /\ Holds(v, e)'
  <2>1. SUFFICES ASSUME e = x PROVE ~Holds(v, e) /\ Holds(v, e)'
    OBVIOUS
  <2>2. ~Holds(v, e)
    BY <1>2, <2>1, HoldsSlot DEF Awaited
  <2>3. Holds(v, e)'
    <3> DEFINE d == [ev |-> x, n |-> delivered[x] + 1]
    <3>1. inbox' = [inbox EXCEPT ![v] = Append(@, d)] /\ d \in Delivery /\ d.ev = x
      BY NextDelivery DEF Deliver, CanDeliver
    <3> HIDE DEF d
    <3>2. inbox'[v] = Append(inbox[v], d) /\ inbox[v] \in Seq(Delivery)
      BY <3>1 DEF TypeOK
    <3>3. /\ Len(inbox[v]) \in Nat /\ Len(inbox'[v]) = Len(inbox[v]) + 1
          /\ inbox'[v][Len(inbox[v]) + 1] = d
      BY <3>1, <3>2, AppendProperties
    <3>. QED BY <2>1, <3>1, <3>3 DEF Holds
  <2>. QED BY <2>2, <2>3
<1>7. (delivered'[e] - delivered[e]) + Weight(v, e)' <= Weight(v, e)
  <2>1. CASE mode[v] = "running"
    BY <1>1, <1>2, <1>3, <1>4, <1>6, <2>1 DEF WeightForm
  <2>2. CASE mode[v] = "stopping"
    BY <1>1, <1>2, <1>3, <1>4, <1>6, <2>2 DEF WeightForm
  <2>. QED BY <1>2, <2>1, <2>2 DEF TypeOK
<1>8. Closed(e)' => delivered'[e] = delivered[e]
  BY <1>1, <1>2, <1>4, <1>5
<1>9. faults' - faults = 0
  BY <1>1, <1>2
<1>. QED BY <1>1, <1>2, <1>7, <1>8, <1>9 DEF Pays

\* A worker that starts, stops, exits, crashes, loses its connection, or is at
\* the top of the loop.
LEMMA ModePays ==
  ASSUME TypeOK, TypeOK', NEW v \in Workers, NEW e \in Events,
         ProcessNext(v) \/ Select(v) \/ NextFails(v) \/ Return(v)
  PROVE  Pays(v, e)
<1>1. /\ WeightForm(v, e) /\ WeightForm(v, e)'
      /\ Weight(v, e) \in Int /\ Weight(v, e)' \in Int
      /\ faults \in Nat /\ faults' \in Nat /\ delivered[e] \in Nat
  BY WeightIs, Numbers
<1>2. UNCHANGED <<fate, delivered>> /\ Closed(e)' = Closed(e)
  BY DEF ProcessNext, Start, Stop, Exit, Crash, CloseConn, Select, NextFails, Return,
         streamVars, Closed
<1>3. SUFFICES faults' >= faults /\ Weight(v, e)' <= Weight(v, e) + 2 * (faults' - faults)
  <2>1. delivered'[e] = delivered[e] /\ delivered'[e] - delivered[e] = 0
    BY <1>1, <1>2
  <2>. QED BY <1>1, <1>2, <2>1 DEF Pays
<1>4. UNCHANGED <<inbox, msg>> => (Holds(v, e)' <=> Holds(v, e)) /\ (Has(v, e)' <=> Has(v, e))
  BY DEF Holds, Has
<1>5. CASE Start(v)
  <2>1. mode[v] = "down" /\ mode'[v] = "running" /\ faults' = faults
    BY <1>5 DEF Start, TypeOK
  <2>2. Weight(v, e) = 0 /\ Weight(v, e)' <= 0
    BY <1>1, <2>1 DEF WeightForm, TypeOK
  <2>. QED BY <1>1, <2>1, <2>2
<1>6. CASE Stop(v)
  <2>1. /\ mode[v] = "running" /\ mode'[v] = "stopping" /\ faults' = faults + 1
        /\ UNCHANGED <<inbox, msg, conn>>
    BY <1>6 DEF Stop, Fault, loopVars, TypeOK
  <2>2. Has(v, e) => Holds(v, e)
    BY DEF Has, Holds
  <2>3. CASE conn[v] # "open"
    BY <1>1, <2>1, <2>3 DEF WeightForm
  <2>4. CASE conn[v] = "open"
    BY <1>1, <1>4, <2>1, <2>4 DEF WeightForm
  <2>. QED BY <2>3, <2>4
<1>7. CASE Exit(v) \/ Return(v)
  <2>1. mode[v] = "stopping" /\ mode'[v] = "down" /\ faults' = faults
    BY <1>7 DEF Exit, Return, GoesDown, TypeOK
  <2>. QED BY <1>1, <2>1 DEF WeightForm
<1>8. CASE Crash(v)
  <2>1. mode'[v] = "down" /\ faults' = faults + 1
    BY <1>8 DEF Crash, Fault, GoesDown, TypeOK
  <2>. QED BY <1>1, <2>1 DEF WeightForm
<1>9. CASE CloseConn(v)
  <2>1. conn'[v] = "closed" /\ faults' = faults + 1
    BY <1>9 DEF CloseConn, Fault, TypeOK
  <2>. QED BY <1>1, <2>1 DEF WeightForm
<1>10. CASE Select(v) \/ NextFails(v)
  <2>1. /\ mode[v] = "running" /\ UNCHANGED <<mode, conn, inbox, msg, faults>>
    BY <1>10 DEF Select, NextFails
  <2>2. CASE conn[v] # "open"
    BY <1>1, <2>1, <2>2 DEF WeightForm
  <2>3. CASE conn[v] = "open"
    BY <1>1, <1>4, <2>1, <2>3 DEF WeightForm
  <2>. QED BY <2>2, <2>3
<1>. QED BY <1>5, <1>6, <1>7, <1>8, <1>9, <1>10 DEF ProcessNext

\* Every step of a worker, and every delivery to it, pays.
LEMMA WorkerPays ==
  ASSUME CopyInv, CopyInv', NoErrors, ~SlowHandlers, Broken = {},
         NEW v \in Workers, NEW e \in Events,
         ProcessNext(v) \/ Loop(v) \/ \E x \in Events : Deliver(x, v)
  PROVE  Pays(v, e) /\ \A w \in Workers \ {v} : Same(w)
<1>0. TypeOK /\ TypeOK' /\ InHand /\ Loops /\ Awaited
  BY DEF CopyInv, OneCopy
<1>1. \A w \in Workers \ {v} : Same(w)
  <2>1. CASE ProcessNext(v)
    BY <1>0, <2>1 DEF ProcessNext, Start, Stop, Exit, Crash, CloseConn, GoesDown, loopVars,
                      Same, TypeOK
  <2>2. CASE Select(v) \/ NextFails(v) \/ Return(v)
    BY <1>0, <2>2 DEF Select, NextFails, Return, GoesDown, Same, TypeOK
  <2>3. CASE NextMalformed(v) \/ NextEvent(v)
    BY <1>0, <2>3 DEF NextMalformed, NextEvent, Same, TypeOK
  <2>4. CASE HandleOK(v) \/ HandleErr(v)
    BY <1>0, <2>4 DEF HandleOK, HandleErr, Same
  <2>5. CASE Ack(v) \/ Nak(v)
    BY <1>0, <2>5 DEF Ack, Nak, Iterate, Same, TypeOK
  <2>6. CASE \E x \in Events : Deliver(x, v)
    BY <1>0, <2>6 DEF Deliver, Same, TypeOK
  <2>. QED BY <2>1, <2>2, <2>3, <2>4, <2>5, <2>6 DEF Loop
<1>2. CASE ProcessNext(v) \/ Select(v) \/ NextFails(v) \/ Return(v)
  BY <1>0, <1>1, <1>2, ModePays
<1>3. CASE NextEvent(v)
  BY <1>0, <1>1, <1>3, TakesPays
<1>4. CASE \E x \in Events : Deliver(x, v)
  BY <1>0, <1>1, <1>4, DeliverPays
<1>5. CASE HandleOK(v) \/ HandleErr(v)
  <2>1. UNCHANGED <<fate, delivered, mode, conn, pc, inbox, msg, faults>>
    BY <1>5 DEF HandleOK, HandleErr, streamVars
  <2>2. Weight(v, e)' = Weight(v, e) /\ Closed(e)' = Closed(e)
    BY <2>1, SameHolds DEF Same, Weight, Closed
  <2>3. Weight(v, e) \in Int /\ faults \in Nat /\ delivered[e] \in Nat
    BY <1>0, Numbers
  <2>4. delivered'[e] - delivered[e] = 0 /\ faults' - faults = 0
    BY <2>1, <2>3
  <2>. QED BY <1>1, <2>1, <2>2, <2>3, <2>4 DEF Pays
<1>6. CASE NextMalformed(v)
  <2>1. Takes(v) /\ Copy(v, 1) \in Delivery /\ Entered(Copy(v, 1).ev)
    BY <1>0, <1>6, TakeMoves, CopyType DEF Takes, CopyInv, Counted
  <2>2. PICK x \in Events : Head(inbox[v]).ev = x /\ Entered(x)
    BY <2>1 DEF Takes, Delivery
  <2>3. /\ mode[v] # "down" /\ UNCHANGED <<mode, conn, delivered>>
        /\ pc[v] = "next" /\ pc'[v] = "select"
        /\ (Removed(x, "termed") /\ UNCHANGED faults) \/ AnswerLost(v)
    BY <1>0, <1>6, <2>2 DEF NextMalformed, TypeOK
  <2>4. msg'[v] = NoMsg
    BY <1>0, <1>6 DEF NextMalformed, Loops
  <2>5. x # e /\ Holds(v, e) => Holds(v, e)'
    BY <1>0, <1>6, <2>2, KeepsCopy
  <2>. QED BY <1>0, <1>1, <2>2, <2>3, <2>4, <2>5, AnswerPays
<1>7. CASE Ack(v) \/ Nak(v)
  <2>1. /\ Iterate(v) /\ pc[v] = "handle" /\ msg[v] \in Delivery
    BY <1>0, <1>7 DEF Ack, Nak, InHand
  <2>2. PICK x \in Events : msg[v].ev = x /\ Entered(x)
    BY <1>0, <2>1, HandIsSlot DEF CopyInv, Counted, Delivery
  <2>3. Has(v, x)
    BY <2>1, <2>2, PipelineAssumption DEF Has
  <2>4. /\ UNCHANGED <<mode, conn, delivered>> /\ pc'[v] = "select" /\ msg'[v] = NoMsg
    BY <1>0, <2>1 DEF Iterate, TypeOK
  <2>5. mode[v] # "down"
    BY <1>0, <2>1 DEF Loops
  <2>6. x # e /\ Holds(v, e) => Holds(v, e)'
    BY <1>0, <2>1, <2>2, KeepsCopy
  <2>7. Nak(v) => mode[v] = "stopping"
    BY DEF Nak, NoErrors
  <2>8. \/ Removed(x, "acked") /\ UNCHANGED faults
        \/ Requeued(x) /\ UNCHANGED faults /\ mode[v] = "stopping"
        \/ AnswerLost(v)
    BY <1>7, <2>2, <2>7 DEF Ack, Nak
  <2>. QED BY <1>0, <1>1, <2>2, <2>3, <2>4, <2>5, <2>6, <2>8, AnswerPays
<1>. QED BY <1>1, <1>2, <1>3, <1>4, <1>5, <1>6, <1>7 DEF Loop

LEMMA LeavingStep ==
  ASSUME TypeOK, InHand, IsFiniteSet(Leaving), [Next]_vars
  PROVE  IsFiniteSet(Leaving')
<1>1. ASSUME Leaving' \subseteq Leaving PROVE IsFiniteSet(Leaving')
  BY <1>1, FS_Subset
<1>2. CASE UNCHANGED <<mode, conn>>
  BY <1>1, <1>2 DEF Leaving
<1>3. ASSUME NEW v \in Workers, Stop(v) PROVE IsFiniteSet(Leaving')
  <2>1. Leaving' \subseteq Leaving \cup {v}
    BY <1>3 DEF Stop, Leaving, TypeOK
  <2>2. IsFiniteSet(Leaving \cup {v})
    BY FS_AddElement
  <2>. QED BY <2>1, <2>2, FS_Subset
<1>4. ASSUME NEW v \in Workers, Start(v) \/ Exit(v) \/ Crash(v) \/ CloseConn(v) \/ Return(v)
      PROVE  IsFiniteSet(Leaving')
  <2>1. Leaving' \subseteq Leaving
    BY <1>4 DEF Start, Exit, Crash, CloseConn, Return, GoesDown, Leaving, TypeOK
  <2>. QED BY <1>1, <2>1
<1>5. ASSUME StreamNext \/ UNCHANGED vars PROVE UNCHANGED <<mode, conn>>
  BY <1>5
     DEF StreamNext, Emit, EmitReturns, Store, LosePublish, LoseDelivery,
         AckWaitExpires, Expire, Deliver, vars
<1>6. ASSUME NEW v \in Workers, Loop(v) PROVE UNCHANGED <<mode, conn>> \/ Return(v)
  BY <1>6
     DEF Loop, Select, NextFails, NextMalformed, NextEvent, HandleOK, HandleErr,
         Ack, Nak, Iterate
<1>. QED BY <1>2, <1>3, <1>4, <1>5, <1>6 DEF Next, ProcessNext

LEMMA NoErrorsStep ==
  ASSUME TypeOK, NoErrors, [Next]_vars
  PROVE  NoErrors'
<1> SUFFICES ASSUME Broken = {}, NEW w \in Workers, mode'[w] # "stopping" PROVE allOK'[w]
  BY DEF NoErrors
<1>1. mode[w] # "stopping" => allOK[w]
  BY DEF NoErrors
<1>2. CASE UNCHANGED <<mode, allOK>>
  BY <1>1, <1>2
<1>3. CASE StreamNext \/ UNCHANGED vars
  <2>1. UNCHANGED <<mode, allOK>>
    BY <1>3
       DEF StreamNext, Emit, EmitReturns, Store, LosePublish, LoseDelivery,
           AckWaitExpires, Expire, Deliver, loopVars, vars
  <2>. QED BY <1>2, <2>1
<1>4. ASSUME NEW v \in Workers, ProcessNext(v) PROVE allOK'[w]
  BY <1>1, <1>4
     DEF ProcessNext, Start, Stop, Exit, Crash, CloseConn, GoesDown, loopVars, TypeOK
<1>5. ASSUME NEW v \in Workers, HandleErr(v) PROVE allOK'[w]
  BY <1>1, <1>5 DEF HandleErr, TypeOK
<1>6. ASSUME NEW v \in Workers, Return(v) \/ NextEvent(v) \/ Ack(v) \/ Nak(v) PROVE allOK'[w]
  BY <1>1, <1>6 DEF Return, GoesDown, NextEvent, Ack, Nak, Iterate, TypeOK
<1>7. ASSUME NEW v \in Workers, Select(v) \/ NextFails(v) \/ NextMalformed(v) \/ HandleOK(v)
      PROVE  allOK'[w]
  BY <1>2, <1>7 DEF Select, NextFails, NextMalformed, HandleOK
<1>. QED BY <1>3, <1>4, <1>5, <1>6, <1>7 DEF Next, Loop

LEMMA BudgetStep ==
  ASSUME CopyInv, CopyInv', BudgetInv, [Next]_vars
  PROVE  BudgetInv'
<1>0. TypeOK /\ TypeOK' /\ InHand /\ ExclusiveHandling /\ ExclusiveHandling'
  BY CopyExclusive DEF CopyInv
<1>1. IsFiniteSet(Leaving) /\ IsFiniteSet(Leaving') /\ NoErrors /\ NoErrors'
  BY <1>0, LeavingStep, NoErrorsStep DEF BudgetInv
<1> SUFFICES ASSUME ~SlowHandlers, Broken = {}, NEW e \in Events
             PROVE  /\ delivered'[e] <= 1 + 2 * faults'
                    /\ ~Closed(e)' => Cost(e)' <= 2 * faults'
  BY <1>1 DEF BudgetInv, Budget
<1>2. /\ delivered[e] <= 1 + 2 * faults
      /\ ~Closed(e) => Cost(e) <= 2 * faults
      /\ Cost(e) \in Int /\ Cost(e)' \in Int /\ delivered'[e] <= 1 + Cost(e)'
      /\ delivered[e] \in Nat /\ delivered'[e] \in Nat
      /\ faults \in Nat /\ faults' \in Nat
  <2>1. /\ Cost(e)' \in Int /\ delivered'[e] <= 1 + Cost(e)' /\ delivered'[e] \in Nat
    <3>1. MayTake(e)' \subseteq Leaving' /\ MayReturn(e)' \subseteq Leaving'
      BY DEF MayTake, MayReturn
    <3>2. Cardinality(MayTake(e)') \in Nat /\ Cardinality(MayReturn(e)') \in Nat
      BY <1>1, <3>1, FS_Subset, FS_CardinalityType
    <3>3. delivered'[e] \in Nat
      BY <1>0, PipelineAssumption DEF TypeOK
    <3>4. Wasted(e)' \in {delivered'[e], delivered'[e] - 1}
      BY DEF Wasted
    <3>5. Cost(e)' = Wasted(e)' + Cardinality(MayTake(e)') + Cardinality(MayReturn(e)')
      BY DEF Cost
    <3>. QED BY <3>2, <3>3, <3>4, <3>5
  <2>. QED BY <1>0, <1>1, <2>1, CostType, PipelineAssumption DEF BudgetInv, Budget, TypeOK
<1>3. ASSUME NEW v \in Workers,
             ProcessNext(v) \/ Loop(v) \/ \E x \in Events : Deliver(x, v)
      PROVE  /\ delivered'[e] <= 1 + 2 * faults'
             /\ ~Closed(e)' => Cost(e)' <= 2 * faults'
  <2>1. Pays(v, e) /\ \A w \in Workers \ {v} : Same(w)
    BY <1>1, <1>3, WorkerPays
  <2>2. /\ Cost(e)' = Cost(e) + (delivered'[e] - delivered[e]) + (Weight(v, e)' - Weight(v, e))
        /\ Weight(v, e) \in Int /\ Weight(v, e)' \in Int
    BY <1>0, <1>1, <2>1, CostStep, WeightIs DEF WeightForm
  <2>3. CASE Closed(e)'
    BY <1>2, <2>1, <2>3 DEF Pays
  <2>4. CASE ~Closed(e)'
    <3>1. /\ Cost(e) <= 2 * faults
          /\ (delivered'[e] - delivered[e]) + Weight(v, e)' <= Weight(v, e) + 2 * (faults' - faults)
      BY <1>2, <2>1, <2>4 DEF Pays
    <3>2. Cost(e)' <= 2 * faults'
      BY <1>2, <2>2, <3>1
    <3>. QED BY <1>2, <3>2
  <2>. QED BY <2>3, <2>4
\* The other steps leave the workers alone.
<1>4. ASSUME \A w \in Workers : Same(w), Closed(e) => Closed(e)',
             \/ delivered'[e] = delivered[e] /\ faults' >= faults
             \/ delivered'[e] = delivered[e] + 1 /\ faults' = faults + 1 /\ ~Closed(e)'
      PROVE  /\ delivered'[e] <= 1 + 2 * faults'
             /\ ~Closed(e)' => Cost(e)' <= 2 * faults'
  <2>1. /\ MayTake(e)' = MayTake(e) /\ MayReturn(e)' = MayReturn(e)
        /\ \A w \in Workers : Serves(w, e)' <=> Serves(w, e)
    BY <1>4, SameHolds DEF MayTake, MayReturn, Leaving
  <2>2. Wasted(e)' - delivered'[e] = Wasted(e) - delivered[e]
    BY <1>2, <2>1 DEF Wasted
  <2>3. Cost(e)' - delivered'[e] = Cost(e) - delivered[e]
    <3>1. /\ Cardinality(MayTake(e)) \in Nat /\ Cardinality(MayReturn(e)) \in Nat
          /\ Wasted(e) \in Int
      BY <1>0, <1>1, CostType
    <3>2. Wasted(e)' \in Int
      BY <1>2 DEF Wasted
    <3>. QED BY <1>2, <2>1, <2>2, <3>1, <3>2 DEF Cost
  <2>4. ~Closed(e)' => Cost(e)' <= 2 * faults'
    BY <1>2, <1>4, <2>3
  <2>. QED BY <1>2, <1>4, <2>4
<1>5. CASE UNCHANGED vars
  <2>1. Closed(e)' <=> Closed(e)
    BY <1>5 DEF vars, Closed
  <2>. QED BY <1>2, <1>4, <1>5, <2>1 DEF vars, Same
<1>6. ASSUME NEW x \in Events,
             \/ Emit(x) \/ EmitReturns(x) \/ Store(x) \/ LosePublish(x)
             \/ AckWaitExpires(x) \/ Expire(x)
      PROVE  /\ delivered'[e] <= 1 + 2 * faults'
             /\ ~Closed(e)' => Cost(e)' <= 2 * faults'
  <2>1. UNCHANGED <<delivered, mode, conn, pc, msg, inbox>>
    BY <1>6 DEF Emit, EmitReturns, Store, LosePublish, AckWaitExpires, Expire, loopVars
  <2>2. faults' >= faults
    BY <1>2, <1>6 DEF Emit, EmitReturns, Store, LosePublish, AckWaitExpires, Expire, Fault
  <2>3. Closed(e) => Closed(e)'
    <3>1. CASE Emit(x)
      <4>1. fate[x] = "unsent"
        BY <3>1 DEF Emit, CopyInv, Unsent
      <4>. QED BY <1>0, <3>1, <4>1 DEF Emit, Closed, TypeOK
    <3>2. CASE Store(x) \/ LosePublish(x) \/ Expire(x)
      BY <1>0, <3>2 DEF Store, LosePublish, Expire, Closed, TypeOK
    <3>. QED BY <1>6, <3>1, <3>2 DEF EmitReturns, AckWaitExpires, Closed
  <2>. QED BY <1>4, <2>1, <2>2, <2>3 DEF Same
<1>7. ASSUME NEW x \in Events, LoseDelivery(x)
      PROVE  /\ delivered'[e] <= 1 + 2 * faults'
             /\ ~Closed(e)' => Cost(e)' <= 2 * faults'
  <2>1. /\ UNCHANGED <<fate, mode, conn, pc, msg, inbox>> /\ faults' = faults + 1
        /\ delivered' = [delivered EXCEPT ![x] = @ + 1] /\ fate[x] = "stored"
    BY <1>7 DEF LoseDelivery, CanDeliver, CountDelivery, Fault, loopVars
  <2>2. Closed(e)' <=> Closed(e)
    BY <2>1 DEF Closed
  <2>3. e = x => ~Closed(e)
    BY <2>1 DEF Closed
  <2>4. delivered'[e] = IF e = x THEN delivered[e] + 1 ELSE delivered[e]
    BY <1>0, <2>1 DEF TypeOK
  <2>. QED BY <1>2, <1>4, <2>1, <2>2, <2>3, <2>4 DEF Same
<1>. QED BY <1>3, <1>5, <1>6, <1>7 DEF Next, StreamNext

LEMMA BudgetInit == Init => BudgetInv
<1> SUFFICES ASSUME Init PROVE BudgetInv
  OBVIOUS
<1>1. Leaving = {}
  BY DEF Init, Leaving
<1>2. \A e \in Events : MayTake(e) = {} /\ MayReturn(e) = {} /\ ~ \E w \in Workers : Serves(w, e)
  BY <1>1 DEF Init, MayTake, MayReturn, Serves
<1>3. \A e \in Events : Cost(e) = 0 /\ delivered[e] = 0 /\ faults = 0
  <2>1. \A e \in Events : Wasted(e) = 0 /\ delivered[e] = 0 /\ faults = 0
    BY <1>2 DEF Wasted, Init
  <2>2. Cardinality({}) = 0
    BY FS_EmptySet
  <2>3. \A e \in Events : Cost(e) = 0 + 0 + 0
    BY <1>2, <2>1, <2>2 DEF Cost
  <2>. QED BY <2>1, <2>3
<1>. QED BY <1>1, <1>3, FS_EmptySet DEF BudgetInv, NoErrors, Budget, Init

\* If events are handled in time and no store fails, each fault costs an event two
\* deliveries at most, for any number of processes and events, and MaxDeliver gives
\* up none before the faults have wasted all of them (consumer.go:62).
THEOREM RetriesBounded == Spec => []RetriesAreFaults
<1>1. ASSUME TypeOK, BudgetInv PROVE RetriesAreFaults
  <2> SUFFICES ASSUME ~SlowHandlers, Broken = {}, NEW e \in Events
               PROVE  /\ delivered[e] <= 1 + 2 * faults
                      /\ GivenUp(e) => MaxDeliver <= 2 * faults
    BY DEF RetriesAreFaults
  <2>1. delivered[e] <= 1 + 2 * faults /\ (~Closed(e) => Cost(e) <= 2 * faults)
    BY <1>1 DEF BudgetInv, Budget
  <2>2. ASSUME GivenUp(e) PROVE MaxDeliver <= 2 * faults
    <3>1. ~Closed(e) /\ Wasted(e) = MaxDeliver
      BY <2>2 DEF GivenUp, Closed, Wasted, Serves
    <3>2. Cost(e) = MaxDeliver + Cardinality(MayTake(e)) + Cardinality(MayReturn(e))
      BY <3>1 DEF Cost
    <3>. QED
      BY <1>1, <2>1, <3>1, <3>2, CostType, PipelineAssumption DEF BudgetInv, TypeOK
  <2>. QED BY <2>1, <2>2
<1>. QED BY <1>1, BudgetInit, BudgetStep, CopyInvariance, PTL DEF Spec, CopyInv

-----------------------------------------------------------------------------
(* The pipeline implements the ledger *)

\* What the ledger sees of the pipeline.
LState == [e \in Events |-> LedgerState(e)]
LRecorded == [h \in Handlers |-> {e \in Events : Recorded(h, e)}]

\* A handler's write is a Record of the ledger, or nothing new to it.
LEMMA AppliedRecords ==
  ASSUME TypeOK, TypeOK', NEW h \in Handlers, NEW d \in Delivery, Applied(h, d)
  PROVE  LRecorded' = [LRecorded EXCEPT ![h] = @ \cup {d.ev}]
<1>1. d.ev \in Events /\ d.n \in 1..MaxDeliver /\ d = [ev |-> d.ev, n |-> d.n]
  BY DEF Delivery
<1>2. ASSUME NEW g \in Handlers, NEW e \in Events, NEW n \in 1..MaxDeliver
      PROVE  /\ [ev |-> e, n |-> n] \in Delivery
             /\ rows[g][[ev |-> e, n |-> n]] \in Nat
             /\ rows'[g][[ev |-> e, n |-> n]] =
                  rows[g][[ev |-> e, n |-> n]] + (IF g = h /\ [ev |-> e, n |-> n] = d THEN 1 ELSE 0)
  <2>1. [ev |-> e, n |-> n] \in Delivery
    BY DEF Delivery
  <2>2. rows[g][[ev |-> e, n |-> n]] \in Nat
    BY <2>1 DEF TypeOK
  <2>. QED BY <2>1, <2>2 DEF Applied, TypeOK
<1>3. ASSUME NEW g \in Handlers, NEW e \in Events
      PROVE  Recorded(g, e)' <=> Recorded(g, e) \/ (g = h /\ e = d.ev)
  <2>1. ASSUME NEW n \in 1..MaxDeliver
        PROVE  rows'[g][[ev |-> e, n |-> n]] > 0 <=>
                 rows[g][[ev |-> e, n |-> n]] > 0 \/ (g = h /\ [ev |-> e, n |-> n] = d)
    BY <1>2
  <2>2. (\E n \in 1..MaxDeliver : [ev |-> e, n |-> n] = d) <=> e = d.ev
    BY <1>1
  <2>3. Recorded(g, e)' <=> \E n \in 1..MaxDeliver : rows'[g][[ev |-> e, n |-> n]] > 0
    BY DEF Recorded
  <2>4. Recorded(g, e) <=> \E n \in 1..MaxDeliver : rows[g][[ev |-> e, n |-> n]] > 0
    BY DEF Recorded
  <2>. QED BY <2>1, <2>2, <2>3, <2>4
<1>4. ASSUME NEW g \in Handlers
      PROVE  {e \in Events : Recorded(g, e)'} =
               IF g = h THEN {e \in Events : Recorded(g, e)} \cup {d.ev}
                        ELSE {e \in Events : Recorded(g, e)}
  BY <1>1, <1>3
<1>5. LRecorded' = [g \in Handlers |-> {e \in Events : Recorded(g, e)'}]
  BY DEF LRecorded
<1>6. [LRecorded EXCEPT ![h] = @ \cup {d.ev}] =
        [g \in Handlers |-> IF g = h THEN {e \in Events : Recorded(g, e)} \cup {d.ev}
                                     ELSE {e \in Events : Recorded(g, e)}]
  BY DEF LRecorded
<1>. QED BY <1>4, <1>5, <1>6

\* The rows are untouched, and so is what the ledger has recorded.
LEMMA RecordedKept == UNCHANGED rows => UNCHANGED LRecorded
BY DEF LRecorded, Recorded

LEMMA StateKept ==
  ASSUME TypeOK, NEW x \in Events, NEW f, fate' = [fate EXCEPT ![x] = f]
  PROVE  LState' = [LState EXCEPT ![x] = LedgerState(x)']
<1>1. \A e \in Events \ {x} : LedgerState(e)' = LedgerState(e)
  BY DEF TypeOK, LedgerState
<1>2. LState' = [e \in Events |-> LedgerState(e)']
  BY DEF LState
<1>. QED BY <1>1, <1>2 DEF LState

LEMMA LedgerInit == Init => Ledger!Init
<1> SUFFICES ASSUME Init PROVE Ledger!Init
  OBVIOUS
<1>1. \A e \in Events : LedgerState(e) = "none"
  BY DEF Init, LedgerState
<1>2. \A h \in Handlers, e \in Events : ~Recorded(h, e)
  BY DEF Init, Recorded, Delivery
<1>. QED BY <1>1, <1>2 DEF Ledger!Init

LEMMA LedgerStep == CopyInv /\ CopyInv' /\ [Next]_vars => [Ledger!Next]_Ledger!vars
<1> SUFFICES ASSUME CopyInv, CopyInv', [Next]_vars
             PROVE  Ledger!Next \/ UNCHANGED <<LState, LRecorded>>
  BY DEF Ledger!vars, LState, LRecorded
<1>0. TypeOK /\ TypeOK' /\ InHand /\ Unsent
  BY DEF CopyInv
<1>1. ASSUME UNCHANGED <<fate, rows>> PROVE UNCHANGED <<LState, LRecorded>>
  BY <1>1, RecordedKept DEF LState, LedgerState
\* A message enters the stream, or leaves it.
<1>2. ASSUME NEW x \in Events, NEW f, fate' = [fate EXCEPT ![x] = f], UNCHANGED rows,
             \/ fate[x] \in {"unsent", "wire"} /\ f \in {"wire", "lost"}
             \/ fate[x] = "wire" /\ f = "stored"
             \/ fate[x] = "stored" /\ f \in {"termed", "expired"}
                  /\ x \in Malformed \cup Expiring
             \/ fate[x] = "stored" /\ f = "acked"
                  /\ \A h \in Handlers : Recorded(h, x)
      PROVE  Ledger!Next \/ UNCHANGED <<LState, LRecorded>>
  <2>1. /\ LState' = [LState EXCEPT ![x] = LedgerState(x)'] /\ UNCHANGED LRecorded
        /\ LState[x] = LedgerState(x)
    BY <1>0, <1>2, StateKept, RecordedKept DEF LState
  <2>2. fate'[x] = f
    BY <1>0, <1>2 DEF TypeOK
  <2>3. CASE fate[x] \in {"unsent", "wire"} /\ f \in {"wire", "lost"}
    <3>1. LedgerState(x) = "none" /\ LedgerState(x)' = "none"
      BY <2>2, <2>3 DEF LedgerState
    <3>. QED BY <2>1, <3>1 DEF LState
  <2>4. CASE fate[x] = "wire" /\ f = "stored"
    <3>1. LedgerState(x) = "none" /\ LedgerState(x)' = "accepted"
      BY <2>2, <2>4 DEF LedgerState
    <3>2. Ledger!Accept(x)
      BY <2>1, <3>1 DEF Ledger!Accept, LState, LRecorded
    <3>. QED BY <3>2 DEF Ledger!Next
  <2>5. CASE fate[x] = "stored" /\ f \in {"termed", "expired"} /\ x \in Malformed \cup Expiring
    <3>1. LedgerState(x) = "accepted" /\ LedgerState(x)' = "dropped"
      BY <2>2, <2>5 DEF LedgerState
    <3>2. Ledger!Drop(x)
      BY <2>1, <2>5, <3>1 DEF Ledger!Drop, LState, LRecorded
    <3>. QED BY <3>2 DEF Ledger!Next
  <2>6. CASE fate[x] = "stored" /\ f = "acked" /\ \A h \in Handlers : Recorded(h, x)
    <3>1. LedgerState(x) = "accepted" /\ LedgerState(x)' = "done"
      BY <2>2, <2>6 DEF LedgerState
    <3>2. \A h \in Handlers : x \in LRecorded[h]
      BY <2>6 DEF LRecorded
    <3>3. Ledger!Complete(x)
      BY <2>1, <3>1, <3>2 DEF Ledger!Complete, LState, LRecorded
    <3>. QED BY <3>3 DEF Ledger!Next
  <2>. QED BY <1>2, <2>3, <2>4, <2>5, <2>6
\* A handler writes.
<1>3. ASSUME NEW v \in Workers, HandleOK(v) \/ HandleErr(v)
      PROVE  Ledger!Next \/ UNCHANGED <<LState, LRecorded>>
  <2>1. /\ Applied(at[v], msg[v]) \/ UNCHANGED rows
        /\ UNCHANGED fate /\ at[v] \in Handlers /\ msg[v] \in Delivery
    BY <1>0, <1>3 DEF HandleOK, HandleErr, InHand, streamVars
  <2>2. CASE Applied(at[v], msg[v])
    <3>1. PICK e \in Events : msg[v].ev = e
      BY <2>1 DEF Delivery
    <3>2. Entered(e)
      BY <1>0, <2>1, <3>1, HandIsSlot DEF CopyInv, Counted
    <3>3. LState[e] # "none" /\ UNCHANGED LState
      BY <1>0, <2>1, <3>2 DEF LState, LedgerState, Entered, TypeOK
    <3>4. LRecorded' = [LRecorded EXCEPT ![at[v]] = @ \cup {e}]
      BY <1>0, <2>1, <2>2, <3>1, AppliedRecords
    <3>5. Ledger!Record(at[v], e)
      BY <3>3, <3>4 DEF Ledger!Record, LState, LRecorded
    <3>. QED BY <2>1, <3>5 DEF Ledger!Next
  <2>. QED BY <1>1, <2>1, <2>2
<1>4. ASSUME NEW x \in Events,
             \/ Emit(x) \/ EmitReturns(x) \/ Store(x) \/ LosePublish(x)
             \/ LoseDelivery(x) \/ AckWaitExpires(x) \/ Expire(x)
             \/ \E w \in Workers : Deliver(x, w)
      PROVE  Ledger!Next \/ UNCHANGED <<LState, LRecorded>>
  <2>1. CASE UNCHANGED fate /\ UNCHANGED rows
    BY <1>1, <2>1
  <2>2. CASE Emit(x)
    <3>1. UNCHANGED rows /\ fate[x] = "unsent"
          /\ (UNCHANGED fate \/ fate' = [fate EXCEPT ![x] = "wire"])
      BY <1>0, <2>2 DEF Emit, Unsent
    <3>. QED BY <1>1, <1>2, <3>1
  <2>3. CASE Store(x)
    BY <1>2, <2>3 DEF Store
  <2>4. CASE LosePublish(x)
    BY <1>2, <2>4 DEF LosePublish
  <2>5. CASE Expire(x)
    BY <1>2, <2>5 DEF Expire
  <2>. QED
    BY <1>4, <2>1, <2>2, <2>3, <2>4, <2>5
       DEF EmitReturns, LoseDelivery, AckWaitExpires, Deliver
<1>5. ASSUME NEW v \in Workers, NextMalformed(v)
      PROVE  Ledger!Next \/ UNCHANGED <<LState, LRecorded>>
  <2>1. PICK x \in Malformed : Head(inbox[v]).ev = x
    BY <1>5 DEF NextMalformed
  <2>2. x \in Events
    BY PipelineAssumption
  <2>3. /\ UNCHANGED rows
        /\ UNCHANGED fate \/ fate' = [fate EXCEPT ![x] = IF @ = "stored" THEN "termed" ELSE @]
    BY <1>5, <2>1 DEF NextMalformed, Removed, AnswerLost
  <2>4. UNCHANGED fate \/ (fate[x] = "stored" /\ fate' = [fate EXCEPT ![x] = "termed"])
    BY <1>0, <2>3 DEF TypeOK
  <2>. QED BY <1>1, <1>2, <2>2, <2>3, <2>4
<1>6. ASSUME NEW v \in Workers, Ack(v) \/ Nak(v)
      PROVE  Ledger!Next \/ UNCHANGED <<LState, LRecorded>>
  <2>1. /\ UNCHANGED rows /\ msg[v] \in Delivery
        /\ \/ UNCHANGED fate
           \/ Ack(v) /\ fate' = [fate EXCEPT ![msg[v].ev] = IF @ = "stored" THEN "acked" ELSE @]
    BY <1>0, <1>6 DEF Ack, Nak, Iterate, Removed, Requeued, AnswerLost, InHand
  <2>2. PICK x \in Events : msg[v].ev = x
    BY <2>1 DEF Delivery
  <2>3. UNCHANGED fate \/ (Ack(v) /\ fate[x] = "stored" /\ fate' = [fate EXCEPT ![x] = "acked"])
    BY <1>0, <2>1, <2>2 DEF TypeOK
  <2>4. ASSUME Ack(v) PROVE \A h \in Handlers : Recorded(h, x)
    <3>1. \A h \in Handlers : h < at[v]
      BY <1>0, <2>4 DEF Ack, TypeOK, Handlers, Metric, Audit, Agent
    <3>2. \A h \in Handlers : rows[h][msg[v]] > 0
      BY <2>4, <3>1 DEF Ack, CopyInv, PassedHandlers
    <3>3. msg[v].n \in 1..MaxDeliver /\ msg[v] = [ev |-> x, n |-> msg[v].n]
      BY <2>1, <2>2 DEF Delivery
    <3>. QED BY <3>2, <3>3 DEF Recorded
  <2>. QED BY <1>1, <1>2, <2>1, <2>3, <2>4
<1>7. ASSUME NEW v \in Workers,
             \/ ProcessNext(v) \/ Select(v) \/ NextFails(v) \/ Return(v) \/ NextEvent(v)
      PROVE  UNCHANGED <<fate, rows>>
  BY <1>7
     DEF ProcessNext, Start, Stop, Exit, Crash, CloseConn, Select, NextFails, Return,
         NextEvent, streamVars
<1>8. CASE UNCHANGED vars
  BY <1>1, <1>8 DEF vars
<1>. QED
  BY <1>1, <1>3, <1>4, <1>5, <1>6, <1>7, <1>8 DEF Next, StreamNext, Loop

\* The pipeline implements the ledger: an event is closed only when every sink has
\* it, or its payload is malformed, or it may outlive MaxAge; and nothing is recorded
\* of a message that never reached the stream.
THEOREM Implements == Spec => ImplementsLedger
<1>1. CopyInv /\ CopyInv' /\ [Next]_vars => [Ledger!Next]_Ledger!vars
  BY LedgerStep
<1>. QED
  BY <1>1, LedgerInit, CopyInvariance, PTL DEF Spec, ImplementsLedger, Ledger!Spec

=============================================================================
