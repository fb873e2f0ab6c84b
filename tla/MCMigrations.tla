----------------------------- MODULE MCMigrations -----------------------------
(* Small instances of Migrations: the repository's two files, and one more. *)
EXTENDS Migrations, TLC

CONSTANTS r1, r2

OneReplica == {r1}
TwoReplicas == {r1, r2}

\* 001_init.up.sql of PostgreSQL is one Exec, with plain CREATE INDEX in it;
\* that of ClickHouse is two statements that say IF NOT EXISTS.
Postgres == [stmts |-> 1, rerun |-> FALSE, unique |-> TRUE]
ClickHouse == [stmts |-> 2, rerun |-> TRUE, unique |-> FALSE]

\* A later PostgreSQL file that says IF NOT EXISTS throughout.
PostgresRerun == [stmts |-> 1, rerun |-> TRUE, unique |-> TRUE]

InitFiles == <<Postgres, ClickHouse>>
MixedFiles == <<Postgres, PostgresRerun, ClickHouse>>

=============================================================================
