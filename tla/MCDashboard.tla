------------------------------ MODULE MCDashboard ------------------------------
(* A small instance of Dashboard: three events. *)
EXTENDS Dashboard, TLC

CONSTANTS e1, e2, e3

ThreeEvents == {e1, e2, e3}

Symmetry == Permutations(ThreeEvents)

=============================================================================
