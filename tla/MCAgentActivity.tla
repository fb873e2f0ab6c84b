---------------------------- MODULE MCAgentActivity ----------------------------
(* A small instance of AgentActivity. *)
EXTENDS AgentActivity, TLC

CONSTANTS q1, q2, i1, i2, c1, c2

TwoRequests == {q1, q2}
TwoIngest == {i1, i2}
TwoClients == {c1, c2}

Symmetry == Permutations(TwoRequests) \cup Permutations(TwoIngest)
              \cup Permutations(TwoClients)

=============================================================================
