------------------------------ MODULE MCBootstrap ------------------------------
(* A small instance of Bootstrap, on the files of MCMigrations. *)
EXTENDS Bootstrap, MCMigrations

CONSTANTS e1

OneEvent == {e1}

\* The two files of the repository in MixedFiles.
TableFiles == {1, 3}

=============================================================================
