------------------------------ MODULE StaleRead ------------------------------
(***************************************************************************)
(* What the key resolver promises its callers, with no cache in it: each   *)
(* request gets one answer, which the table held at some time not longer   *)
(* ago than Age, unless the reading fails.                                 *)
(***************************************************************************)
EXTENDS Integers

CONSTANTS
  Requests,   \* the callers
  Values,     \* what the table may hold
  Nil,        \* the answer of a reading that fails
  Age         \* how old an answer may be

VARIABLES
  now,        \* the clock
  row,        \* what the table holds
  left,       \* left[v]: when the table last stopped holding v, 0 for never
  answer      \* answer[r]: the value returned, when, and if the reading failed

vars == <<now, row, left, answer>>

\* Not answered yet. Nothing is answered at time 0.
NoAnswer == [value |-> Nil, at |-> 0, failed |-> TRUE]

Init ==
  /\ now \in Nat \ {0}
  /\ row \in Values
  /\ left = [v \in Values |-> 0]
  /\ answer = [r \in Requests |-> NoAnswer]

Tick == now' = now + 1 /\ UNCHANGED <<row, left, answer>>

SetRow(v) ==
  /\ v # row
  /\ row' = v
  /\ left' = [left EXCEPT ![row] = now]
  /\ UNCHANGED <<now, answer>>

\* The table held v at time t or later.
HeldSince(v, t) == row = v \/ left[v] >= t

Gives(r, v, failed) ==
  /\ answer[r] = NoAnswer
  /\ answer' = [answer EXCEPT ![r] = [value |-> v, at |-> now, failed |-> failed]]
  /\ UNCHANGED <<now, row, left>>

Answer(r, v) == HeldSince(v, now - Age) /\ Gives(r, v, FALSE)
Fail(r) == Gives(r, Nil, TRUE)

\* The next request with the same key.
Ask(r) ==
  /\ answer' = [answer EXCEPT ![r] = NoAnswer]
  /\ UNCHANGED <<now, row, left>>

Next ==
  \/ Tick
  \/ \E v \in Values : SetRow(v)
  \/ \E r \in Requests : Fail(r) \/ Ask(r) \/ \E v \in Values : Answer(r, v)

Spec == Init /\ [][Next]_vars

=============================================================================
