---------------------------- MODULE MCKeyResolver ----------------------------
(* A small instance of KeyResolver. *)
EXTENDS KeyResolver, TLC

CONSTANTS r1, r2, m1

TwoRequests == {r1, r2}
OneMapping == {m1}

Symmetry == Permutations(Requests)

=============================================================================
