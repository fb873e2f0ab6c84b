---------------------------- MODULE DeliveryLedger ----------------------------
(***************************************************************************)
(* What the event pipeline promises, with no consumer, delivery or retry   *)
(* in it: an event is accepted once, every handler may record it any       *)
(* number of times after that, it is closed only when every handler has    *)
(* recorded it, and only a droppable event may be closed otherwise.        *)
(***************************************************************************)

CONSTANTS
  Events,      \* the request events
  Handlers,    \* the sinks every event is meant for
  Droppable    \* the events that may be closed without being recorded

VARIABLES
  state,       \* state[e]: "none", "accepted", "done" or "dropped"
  recorded     \* recorded[h]: the events handler h has recorded at least once

vars == <<state, recorded>>

TypeOK ==
  /\ state \in [Events -> {"none", "accepted", "done", "dropped"}]
  /\ recorded \in [Handlers -> SUBSET Events]

Init ==
  /\ state = [e \in Events |-> "none"]
  /\ recorded = [h \in Handlers |-> {}]

Accept(e) ==
  /\ state[e] = "none"
  /\ state' = [state EXCEPT ![e] = "accepted"]
  /\ UNCHANGED recorded

\* A copy that was delivered before the event was closed may still be recorded.
Record(h, e) ==
  /\ state[e] # "none"
  /\ recorded' = [recorded EXCEPT ![h] = @ \cup {e}]
  /\ UNCHANGED state

Complete(e) ==
  /\ state[e] = "accepted"
  /\ \A h \in Handlers : e \in recorded[h]
  /\ state' = [state EXCEPT ![e] = "done"]
  /\ UNCHANGED recorded

Drop(e) ==
  /\ state[e] = "accepted"
  /\ e \in Droppable
  /\ state' = [state EXCEPT ![e] = "dropped"]
  /\ UNCHANGED recorded

Next ==
  \E e \in Events :
    \/ Accept(e)
    \/ Complete(e)
    \/ Drop(e)
    \/ \E h \in Handlers : Record(h, e)

Spec == Init /\ [][Next]_vars

=============================================================================
