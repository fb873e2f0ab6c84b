--------------------------- MODULE MCAgentRegistry ---------------------------
(* A small instance of AgentRegistry. *)
EXTENDS AgentRegistry

CONSTANTS t1, t2, n1, n2, a1, w1, w2

Two == {t1, t2}
TwoNames == {n1, n2}
OneAgent == {a1}
TwoIngest == {w1, w2}

=============================================================================
