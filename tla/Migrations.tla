------------------------------ MODULE Migrations ------------------------------
(***************************************************************************)
(* Start-up of the API: each replica applies the migration files that      *)
(* schema_migrations does not list, PostgreSQL's first, then ClickHouse's, *)
(* and serves when all are there. Checking, applying and recording a file  *)
(* are separate statements without a lock or a transaction around them.    *)
(*                                                                         *)
(*   internal/migrate/postgres.go, clickhouse.go                           *)
(*   cmd/meowsight-api/main.go:34-49                                       *)
(***************************************************************************)
EXTENDS Naturals, Sequences

CONSTANTS
  Replicas,     \* processes of the API
  Files,        \* the migration files in order, as records:
                \*   stmts   statements run one by one (one Exec for PostgreSQL)
                \*   rerun   TRUE iff they all say IF NOT EXISTS
                \*   unique  TRUE iff version is the PRIMARY KEY of the record
  MaxCrashes    \* bound on crashes and lost database connections

ASSUME MigrationsAssumption ==
  /\ Files \in Seq([stmts : Nat \ {0}, rerun : BOOLEAN, unique : BOOLEAN])
  /\ MaxCrashes \in Nat

File == 1..Len(Files)

VARIABLES
  done,      \* done[f]: the leading statements of f whose effect is in the database
  recorded,  \* the files schema_migrations lists
  pc,        \* pc[r]: "down", "check", "apply", "record" or "serving"
  file,      \* file[r]: the file r is at
  stmt,      \* stmt[r]: the statement of it r runs next
  crashes    \* crashes so far, at most MaxCrashes

vars == <<done, recorded, pc, file, stmt, crashes>>

TypeOK ==
  /\ \A f \in File : done[f] \in 0..Files[f].stmts
  /\ recorded \subseteq File
  /\ pc \in [Replicas -> {"down", "check", "apply", "record", "serving"}]
  /\ file \in [Replicas -> 1..(Len(Files) + 1)]
  /\ \A r \in Replicas : pc[r] = "apply" => stmt[r] \in 1..Files[file[r]].stmts
  /\ crashes \in 0..MaxCrashes

Init ==
  /\ done = [f \in File |-> 0]
  /\ recorded = {}
  /\ pc = [r \in Replicas |-> "down"]
  /\ file = [r \in Replicas |-> 1]
  /\ stmt = [r \in Replicas |-> 1]
  /\ crashes = 0

Goes(r, to) == pc' = [pc EXCEPT ![r] = to]

\* The process is gone: os.Exit(1) on an error, or a crash.
GoesDown(r) ==
  /\ Goes(r, "down")
  /\ file' = [file EXCEPT ![r] = 1]
  /\ stmt' = [stmt EXCEPT ![r] = 1]

NextFile(r) ==
  /\ Goes(r, "check")
  /\ file' = [file EXCEPT ![r] = @ + 1]
  /\ stmt' = [stmt EXCEPT ![r] = 1]

\* A replica starts, and creates schema_migrations if it does not exist.
Start(r) ==
  /\ pc[r] = "down"
  /\ Goes(r, "check")
  /\ UNCHANGED <<done, recorded, file, stmt, crashes>>

\* Mutation of Serve: the API listens while the last file is still to be applied.
ServeEarly(r) ==
  /\ pc[r] = "check" /\ file[r] >= Len(Files)
  /\ Goes(r, "serving")
  /\ UNCHANGED <<done, recorded, file, stmt, crashes>>

\* No file is left: the API connects and listens.
Serve(r) ==
  /\ pc[r] = "check" /\ file[r] \notin File
  /\ Goes(r, "serving")
  /\ UNCHANGED <<done, recorded, file, stmt, crashes>>

Skip(r) ==
  /\ pc[r] = "check" /\ file[r] \in recorded
  /\ NextFile(r)
  /\ UNCHANGED <<done, recorded, crashes>>

\* Mutation of Check: it looks for the effect of the file, not for the record.
CheckEffect(r) ==
  /\ pc[r] = "check" /\ file[r] \in File \ recorded
  /\ IF done[file[r]] > 0 THEN NextFile(r) ELSE Goes(r, "apply") /\ UNCHANGED <<file, stmt>>
  /\ UNCHANGED <<done, recorded, crashes>>

Check(r) ==
  /\ pc[r] = "check" /\ file[r] \in File \ recorded
  /\ Goes(r, "apply")
  /\ UNCHANGED <<done, recorded, file, stmt, crashes>>

\* Mutation of CanRun: no statement may be run twice.
CanRunOnce(f, s) == done[f] < s

\* Statement s of f succeeds: it has not been run, or says IF NOT EXISTS, which
\* the CREATE INDEX statements of PostgreSQL's file do not.
CanRun(f, s) == done[f] < s \/ Files[f].rerun

\* Mutation of Apply: the loop over the statements runs one too far.
ApplyPastEnd(r) ==
  /\ pc[r] = "apply" /\ CanRun(file[r], stmt[r])
  /\ done' = [done EXCEPT ![file[r]] = IF @ < stmt[r] THEN stmt[r] ELSE @]
  /\ \/ /\ stmt[r] <= Files[file[r]].stmts
        /\ stmt' = [stmt EXCEPT ![r] = @ + 1] /\ UNCHANGED pc
     \/ /\ stmt[r] > Files[file[r]].stmts
        /\ Goes(r, "record") /\ UNCHANGED stmt
  /\ UNCHANGED <<recorded, file, crashes>>

Apply(r) ==
  /\ pc[r] = "apply" /\ CanRun(file[r], stmt[r])
  /\ done' = [done EXCEPT ![file[r]] = IF @ < stmt[r] THEN stmt[r] ELSE @]
  /\ \/ /\ stmt[r] < Files[file[r]].stmts
        /\ stmt' = [stmt EXCEPT ![r] = @ + 1] /\ UNCHANGED pc
     \/ /\ stmt[r] = Files[file[r]].stmts
        /\ Goes(r, "record") /\ UNCHANGED stmt
  /\ UNCHANGED <<recorded, file, crashes>>

ApplyFails(r) ==
  /\ pc[r] = "apply" /\ ~CanRun(file[r], stmt[r])
  /\ GoesDown(r)
  /\ UNCHANGED <<done, recorded, crashes>>

\* Mutation of Record: the version is not written.
RecordNothing(r) ==
  /\ pc[r] = "record"
  /\ NextFile(r)
  /\ UNCHANGED <<done, recorded, crashes>>

Record(r) ==
  /\ pc[r] = "record"
  /\ file[r] \notin recorded \/ ~Files[file[r]].unique
  /\ recorded' = recorded \cup {file[r]}
  /\ NextFile(r)
  /\ UNCHANGED <<done, crashes>>

\* Mutation of RecordFails: the INSERT is tried again until it succeeds.
RecordFailsRetries(r) ==
  /\ pc[r] = "record"
  /\ file[r] \in recorded /\ Files[file[r]].unique
  /\ UNCHANGED vars

\* The INSERT violates the primary key: another replica has recorded the file.
RecordFails(r) ==
  /\ pc[r] = "record"
  /\ file[r] \in recorded /\ Files[file[r]].unique
  /\ GoesDown(r)
  /\ UNCHANGED <<done, recorded, crashes>>

Crash(r) ==
  /\ pc[r] # "down"
  /\ crashes < MaxCrashes
  /\ crashes' = crashes + 1
  /\ GoesDown(r)
  /\ UNCHANGED <<done, recorded>>

Step(r) ==
  \/ Start(r) \/ Serve(r) \/ Skip(r) \/ Check(r)
  \/ Apply(r) \/ ApplyFails(r) \/ Record(r) \/ RecordFails(r)

Next == \E r \in Replicas : Step(r) \/ Crash(r)

Spec == Init /\ [][Next]_vars

\* A replica that is down is started again, and one that runs goes on.
FairSpec == Spec /\ \A r \in Replicas : WF_vars(Step(r))

-----------------------------------------------------------------------------
(* Properties *)

\* A replica serves only on the whole schema, and a file is recorded only when
\* all of its statements have been applied, by whichever replica.
ServesWholeSchema ==
  /\ \A f \in recorded : done[f] = Files[f].stmts
  /\ \A r \in Replicas, f \in File :
       file[r] > f => f \in recorded /\ done[f] = Files[f].stmts

\* Replica r is at f and can go on.
Carries(r, f) ==
  file[r] = f /\ (pc[r] = "record" \/ (pc[r] = "apply" /\ done[f] < stmt[r]))

\* Applied in part or whole, not to be applied again, not recorded, and no
\* replica carries it on: every later start fails on it.
Stuck(f) ==
  /\ done[f] > 0 /\ ~Files[f].rerun
  /\ f \notin recorded
  /\ \A r \in Replicas : ~Carries(r, f)

\* Replicas that race each other never leave a file that no later start gets
\* past: only a crash between Apply and Record does (postgres.go:52-66).
StuckNeedsCrash == (\E f \in File : Stuck(f)) => crashes > 0

\* Unless a file is stuck, every replica ends up serving, and stays so, however
\* the replicas race each other and whatever they have to apply again.
ReplicasEndUpServing ==
  [](\A f \in File : ~Stuck(f)) => <>[](\A r \in Replicas : pc[r] = "serving")

\* "Auto-run migrations on startup so a fresh `docker compose up` is enough to
\* bootstrap the entire stack" (cmd/meowsight-api/main.go:34): the API serves in
\* the end if it is started again after a crash. A crash between applying and
\* recording a PostgreSQL file makes every later start fail.
StartupBootstraps == <>(\E r \in Replicas : pc[r] = "serving")

=============================================================================
