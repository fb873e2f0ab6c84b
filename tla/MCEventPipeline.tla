--------------------------- MODULE MCEventPipeline ---------------------------
(***************************************************************************)
(* Small instances of EventPipeline. A cfg picks the definitions it needs. *)
(***************************************************************************)
EXTENDS EventPipeline, TLC

CONSTANTS e1, e2, w1, w2

OneEvent == {e1}
TwoEvents == {e1, e2}
OneWorker == {w1}
TwoWorkers == {w1, w2}
OnlyE2 == {e2}
None == {}

\* The tenant ids "acme" and "" as tokens.
PlainTenants == [e \in Events |-> <<"acme">>]
EmptyTenants == [e \in Events |-> <<>>]

AuditBroken == {Audit}

Symmetry == Permutations(Workers)

=============================================================================
