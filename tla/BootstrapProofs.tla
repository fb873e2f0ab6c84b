---------------------------- MODULE BootstrapProofs ----------------------------
(***************************************************************************)
(* The stack with any number of replicas, files, events, crashes and       *)
(* outages. First the migrations by themselves: the schema is whole where  *)
(* a replica serves, and only a crash leaves a file stuck. Then the stack, *)
(* in which the same holds, and gives what the events' first attempts      *)
(* depend on.                                                              *)
(***************************************************************************)
EXTENDS Bootstrap, SequenceTheorems, TLAPS

-----------------------------------------------------------------------------
(* The migrations *)

LEMMA FileRecord ==
  /\ Len(Files) \in Nat
  /\ \A f \in File : Files[f].stmts \in Nat \ {0} /\ Files[f].rerun \in BOOLEAN
<1>1. Len(Files) \in Nat
  BY MigrationsAssumption
<1>2. \A f \in File : Files[f] \in [stmts : Nat \ {0}, rerun : BOOLEAN, unique : BOOLEAN]
  BY MigrationsAssumption, ElementOfSeq DEF File
<1> QED
  BY <1>1, <1>2

\* The types, and where the cursor of a replica stands in each phase.
Typed ==
  /\ TypeOK
  /\ done \in [File -> Nat]
  /\ stmt \in [Replicas -> Nat \ {0}]
  /\ \A r \in Replicas :
       /\ pc[r] \in {"apply", "record"} => file[r] \in File
       /\ pc[r] \in {"down", "check"} => stmt[r] = 1

\* A replica that is about to record a file has applied all of it, one that is
\* at a statement has applied those before it, and one that is past a file has
\* seen it recorded.
Progress ==
  /\ \A f \in recorded : done[f] = Files[f].stmts
  /\ \A r \in Replicas :
       /\ \A f \in File : file[r] > f => f \in recorded
       /\ pc[r] = "apply" => done[file[r]] >= stmt[r] - 1
       /\ pc[r] = "record" => done[file[r]] = Files[file[r]].stmts

Inv == Typed /\ Progress /\ StuckNeedsCrash

LEMMA InitInv == Init => Inv
<1> SUFFICES ASSUME Init PROVE Inv
  OBVIOUS
<1> USE FileRecord, MigrationsAssumption DEF Init
<1>1. Typed
  BY DEF Typed, TypeOK, File
<1>2. Progress
  BY DEF Progress, File
<1>3. StuckNeedsCrash
  BY DEF StuckNeedsCrash, Stuck
<1> QED
  BY <1>1, <1>2, <1>3 DEF Inv

-----------------------------------------------------------------------------
(* Every step keeps the types and the progress. *)

\* What a step changes of the other replicas.
LEMMA Others ==
  ASSUME Inv, NEW r \in Replicas, Step(r) \/ Crash(r)
  PROVE  \A q \in Replicas \ {r} : pc'[q] = pc[q] /\ file'[q] = file[q] /\ stmt'[q] = stmt[q]
<1> USE DEF Inv, Typed, TypeOK
<1>1. CASE Start(r) \/ Serve(r) \/ Skip(r) \/ Check(r)
  BY <1>1 DEF Start, Serve, Skip, Check, NextFile, Goes
<1>2. CASE Apply(r)
  BY <1>2 DEF Apply, Goes
<1>3. CASE ApplyFails(r) \/ RecordFails(r) \/ Crash(r)
  BY <1>3 DEF ApplyFails, RecordFails, Crash, GoesDown, Goes
<1>4. CASE Record(r)
  BY <1>4 DEF Record, NextFile, Goes
<1> QED
  BY <1>1, <1>2, <1>3, <1>4 DEF Step

\* A replica that goes down is at the start again.
LEMMA Down ==
  ASSUME Inv, NEW r \in Replicas, GoesDown(r)
  PROVE  /\ pc' \in [Replicas -> {"down", "check", "apply", "record", "serving"}]
         /\ file' \in [Replicas -> 1..(Len(Files) + 1)]
         /\ stmt' \in [Replicas -> Nat \ {0}]
         /\ pc'[r] = "down" /\ file'[r] = 1 /\ stmt'[r] = 1
BY FileRecord DEF GoesDown, Goes, Inv, Typed, TypeOK

LEMMA StepTyped ==
  ASSUME Inv, NEW r \in Replicas, Step(r) \/ Crash(r)
  PROVE  Typed'
<1>a. \A q \in Replicas \ {r} : pc'[q] = pc[q] /\ file'[q] = file[q] /\ stmt'[q] = stmt[q]
  BY Others
<1>b. GoesDown(r) => /\ pc' \in [Replicas -> {"down", "check", "apply", "record", "serving"}]
                     /\ file' \in [Replicas -> 1..(Len(Files) + 1)]
                     /\ stmt' \in [Replicas -> Nat \ {0}]
                     /\ pc'[r] = "down" /\ file'[r] = 1 /\ stmt'[r] = 1
  BY Down
<1> USE FileRecord, MigrationsAssumption DEF Inv, Typed, TypeOK
<1>1. CASE Start(r)
  BY <1>1 DEF Start, Goes
<1>2. CASE Serve(r)
  BY <1>2 DEF Serve, Goes
<1>3. CASE Skip(r)
  <2>1. /\ pc[r] = "check" /\ file[r] \in 1..Len(Files)
        /\ pc' = [pc EXCEPT ![r] = "check"]
        /\ file' = [file EXCEPT ![r] = @ + 1] /\ stmt' = [stmt EXCEPT ![r] = 1]
        /\ UNCHANGED <<done, recorded, crashes>>
    BY <1>3 DEF Skip, NextFile, Goes, File
  <2>2. file[r] + 1 \in 1..(Len(Files) + 1)
    BY <2>1
  <2>3. TypeOK'
    BY <2>1, <2>2
  <2>. QED BY <2>1, <2>3
<1>4. CASE Check(r)
  BY <1>4 DEF Check, Goes
<1>5. CASE Apply(r)
  <2>1. file[r] \in File /\ stmt[r] \in 1..Files[file[r]].stmts
    BY <1>5 DEF Apply
  <2>2. done' \in [File -> Nat] /\ \A f \in File : done'[f] \in 0..Files[f].stmts
    BY <1>5, <2>1 DEF Apply
  <2>3. CASE stmt[r] < Files[file[r]].stmts
    <3>1. /\ UNCHANGED <<pc, file, recorded, crashes>>
          /\ stmt' = [stmt EXCEPT ![r] = @ + 1]
      BY <1>5, <2>3 DEF Apply
    <3>a. /\ stmt[r] + 1 \in Nat \ {0}
          /\ stmt[r] + 1 \in 1..Files[file[r]].stmts
      BY <2>1, <2>3
    <3>2. stmt' \in [Replicas -> Nat \ {0}] /\ stmt'[r] \in 1..Files[file[r]].stmts
      BY <3>1, <3>a
    <3>3. pc[r] = "apply"
      BY <1>5 DEF Apply
    <3> QED
      BY <2>2, <3>1, <3>2, <3>3, <1>a
  <2>4. CASE stmt[r] = Files[file[r]].stmts
    BY <1>5, <2>1, <2>2, <2>4 DEF Apply, Goes
  <2>5. stmt[r] < Files[file[r]].stmts \/ stmt[r] = Files[file[r]].stmts
    BY <1>5 DEF Apply
  <2> QED
    BY <2>3, <2>4, <2>5
<1>6. CASE ApplyFails(r) \/ RecordFails(r) \/ Crash(r)
  <2>1. GoesDown(r) /\ UNCHANGED <<done, recorded>> /\ crashes' \in 0..MaxCrashes
    BY <1>6 DEF ApplyFails, RecordFails, Crash
  <2> QED
    BY <2>1, <1>a, <1>b
<1>7. CASE Record(r)
  <2>1. file[r] \in File /\ UNCHANGED <<done, crashes>> /\ recorded' = recorded \cup {file[r]}
    BY <1>7 DEF Record
  <2>2. /\ pc' = [pc EXCEPT ![r] = "check"]
        /\ file' = [file EXCEPT ![r] = @ + 1] /\ stmt' = [stmt EXCEPT ![r] = 1]
    BY <1>7 DEF Record, NextFile, Goes
  <2>3. /\ pc' \in [Replicas -> {"down", "check", "apply", "record", "serving"}]
        /\ file' \in [Replicas -> 1..(Len(Files) + 1)]
        /\ stmt' \in [Replicas -> Nat \ {0}]
        /\ pc'[r] = "check" /\ stmt'[r] = 1
    BY <2>1, <2>2 DEF File
  <2> QED
    BY <2>1, <2>3, <1>a
<1> QED
  BY <1>1, <1>2, <1>3, <1>4, <1>5, <1>6, <1>7 DEF Step

LEMMA StepProgress ==
  ASSUME Inv, NEW r \in Replicas, Step(r) \/ Crash(r)
  PROVE  Progress'
<1>a. \A q \in Replicas \ {r} : pc'[q] = pc[q] /\ file'[q] = file[q] /\ stmt'[q] = stmt[q]
  BY Others
<1>b. GoesDown(r) => /\ pc' \in [Replicas -> {"down", "check", "apply", "record", "serving"}]
                     /\ file' \in [Replicas -> 1..(Len(Files) + 1)]
                     /\ stmt' \in [Replicas -> Nat \ {0}]
                     /\ pc'[r] = "down" /\ file'[r] = 1 /\ stmt'[r] = 1
  BY Down
<1> USE FileRecord, MigrationsAssumption DEF Inv, Typed, TypeOK, Progress
<1>1. CASE Start(r)
  BY <1>1 DEF Start, Goes
<1>2. CASE Serve(r)
  BY <1>2 DEF Serve, Goes
<1>3. CASE Skip(r)
  BY <1>3 DEF Skip, NextFile, Goes, File
<1>4. CASE Check(r)
  BY <1>4 DEF Check, Goes
<1>5. CASE Apply(r)
  <2>1. file[r] \in File /\ stmt[r] \in 1..Files[file[r]].stmts
    BY <1>5 DEF Apply
  <2>2. /\ \A f \in File : done'[f] >= done[f] /\ (done[f] = Files[f].stmts => done'[f] = done[f])
        /\ done'[file[r]] >= stmt[r]
        /\ stmt[r] = Files[file[r]].stmts => done'[file[r]] = stmt[r]
    BY <1>5, <2>1 DEF Apply
  <2>3. /\ UNCHANGED <<recorded, file>>
        /\ \A q \in Replicas \ {r} : pc'[q] = pc[q] /\ stmt'[q] = stmt[q]
    BY <1>5 DEF Apply, Goes
  <2>4. \A f \in recorded' : done'[f] = Files[f].stmts
    BY <2>2, <2>3
  <2>5. ASSUME NEW q \in Replicas \ {r}
        PROVE  /\ pc'[q] = "apply" => done'[file'[q]] >= stmt'[q] - 1
               /\ pc'[q] = "record" => done'[file'[q]] = Files[file'[q]].stmts
    <3>1. pc[q] \in {"apply", "record"} => file[q] \in File
      OBVIOUS
    <3>2. stmt[q] \in Nat /\ \A f \in File : done[f] \in Nat /\ done'[f] \in Nat
      BY StepTyped
    <3> QED
      BY <2>2, <2>3, <3>1, <3>2
  <2>6. /\ pc'[r] = "apply" => done'[file'[r]] >= stmt'[r] - 1
        /\ pc'[r] = "record" => done'[file'[r]] = Files[file'[r]].stmts
    BY <1>5, <2>1, <2>2, <2>3 DEF Apply, Goes
  <2> QED
    BY <2>3, <2>4, <2>5, <2>6
<1>6. CASE ApplyFails(r) \/ RecordFails(r) \/ Crash(r)
  <2>1. GoesDown(r) /\ UNCHANGED <<done, recorded>>
    BY <1>6 DEF ApplyFails, RecordFails, Crash
  <2>2. \A f \in File : ~(file'[r] > f)
    BY <2>1, <1>b DEF File
  <2>3. pc'[r] = "down"
    BY <2>1, <1>b
  <2>4. \A q \in Replicas \ {r} :
          /\ \A f \in File : file'[q] > f => f \in recorded'
          /\ pc'[q] = "apply" => done'[file'[q]] >= stmt'[q] - 1
          /\ pc'[q] = "record" => done'[file'[q]] = Files[file'[q]].stmts
    BY <2>1, <1>a
  <2> QED
    BY <2>1, <2>2, <2>3, <2>4
<1>7. CASE Record(r)
  BY <1>7 DEF Record, NextFile, Goes, File
<1> QED
  BY <1>1, <1>2, <1>3, <1>4, <1>5, <1>6, <1>7 DEF Step

-----------------------------------------------------------------------------
(* No step but a crash leaves a file stuck. *)

\* A file stays free if only r moves, and r does not leave a file it carries,
\* unless that file is recorded by then.
LEMMA StaysFree ==
  ASSUME Inv, NEW r \in Replicas, NEW f \in File, ~Stuck(f),
         done' = done, recorded \subseteq recorded',
         \A q \in Replicas \ {r} : pc'[q] = pc[q] /\ file'[q] = file[q] /\ stmt'[q] = stmt[q],
         Carries(r, f) => f \in recorded' \/ Files[f].rerun
  PROVE  ~Stuck(f)'
BY DEF Stuck, Carries

LEMMA StepFree ==
  ASSUME Inv, NEW r \in Replicas, Step(r), NEW f \in File, ~Stuck(f)
  PROVE  ~Stuck(f)'
<1> USE FileRecord DEF Inv, Typed, TypeOK
<1>1. CASE Start(r) \/ Serve(r) \/ Skip(r) \/ Check(r)
  <2>1. ~Carries(r, f) /\ UNCHANGED <<done, recorded>>
    BY <1>1 DEF Start, Serve, Skip, Check, Carries
  <2>2. \A q \in Replicas \ {r} : pc'[q] = pc[q] /\ file'[q] = file[q] /\ stmt'[q] = stmt[q]
    BY <1>1 DEF Start, Serve, Skip, Check, NextFile, Goes
  <2> QED
    BY <2>1, <2>2, StaysFree
<1>2. CASE Apply(r)
  <2>0. file[r] \in File /\ stmt[r] \in Nat /\ done[f] \in Nat
    BY <1>2 DEF Apply
  <2>1. CASE f = file[r] /\ ~Files[f].rerun
    <3>1. done[f] < stmt[r]
      BY <1>2, <2>1 DEF Apply, CanRun
    <3>2. done'[f] = stmt[r] /\ file'[r] = f
      BY <1>2, <2>0, <2>1, <3>1 DEF Apply
    <3>3. pc'[r] = "record" \/ (pc'[r] = "apply" /\ stmt'[r] = stmt[r] + 1)
      BY <1>2 DEF Apply, Goes
    <3>4. Carries(r, f)'
      BY <2>0, <3>2, <3>3 DEF Carries
    <3> QED
      BY <3>4 DEF Stuck
  <2>2. CASE f # file[r]
    <3>1. done'[f] = done[f] /\ UNCHANGED <<recorded, file>> /\ ~Carries(r, f)
      BY <1>2, <2>2 DEF Apply, Carries
    <3>2. \A q \in Replicas \ {r} : pc'[q] = pc[q] /\ stmt'[q] = stmt[q]
      BY <1>2 DEF Apply, Goes
    <3> QED
      BY <3>1, <3>2 DEF Stuck, Carries
  <2> QED
    BY <2>1, <2>2 DEF Stuck
<1>3. CASE ApplyFails(r)
  <2>1. ~Carries(r, f)
    BY <1>3 DEF ApplyFails, CanRun, Carries
  <2>2. /\ UNCHANGED <<done, recorded>>
        /\ \A q \in Replicas \ {r} : pc'[q] = pc[q] /\ file'[q] = file[q] /\ stmt'[q] = stmt[q]
    BY <1>3 DEF ApplyFails, GoesDown, Goes
  <2> QED
    BY <2>1, <2>2, StaysFree
<1>4. CASE Record(r)
  <2>1. done' = done /\ recorded' = recorded \cup {file[r]}
    BY <1>4 DEF Record
  <2>2. \A q \in Replicas \ {r} : pc'[q] = pc[q] /\ file'[q] = file[q] /\ stmt'[q] = stmt[q]
    BY <1>4 DEF Record, NextFile, Goes
  <2>3. Carries(r, f) => f \in recorded'
    BY <2>1 DEF Carries
  <2> QED
    BY <2>1, <2>2, <2>3, StaysFree
<1>5. CASE RecordFails(r)
  <2>1. Carries(r, f) => f \in recorded
    BY <1>5 DEF RecordFails, Carries
  <2>2. /\ UNCHANGED <<done, recorded>>
        /\ \A q \in Replicas \ {r} : pc'[q] = pc[q] /\ file'[q] = file[q] /\ stmt'[q] = stmt[q]
    BY <1>5 DEF RecordFails, GoesDown, Goes
  <2> QED
    BY <2>1, <2>2, StaysFree
<1> QED
  BY <1>1, <1>2, <1>3, <1>4, <1>5 DEF Step

LEMMA StepInv == Inv /\ [Next]_vars => Inv'
<1> SUFFICES ASSUME Inv, [Next]_vars PROVE Inv'
  OBVIOUS
<1>1. CASE UNCHANGED vars
  BY <1>1 DEF vars, Inv, Typed, TypeOK, Progress, StuckNeedsCrash, Stuck, Carries
<1>2. CASE Next
  <2>1. PICK r \in Replicas : Step(r) \/ Crash(r)
    BY <1>2 DEF Next
  <2>2. Typed' /\ Progress'
    BY <2>1, StepTyped, StepProgress
  <2>3. CASE Step(r)
    <3>1. UNCHANGED crashes
      BY <2>3 DEF Step, Start, Serve, Skip, Check, Apply, ApplyFails, Record, RecordFails
    <3>2. StuckNeedsCrash'
      BY <2>3, <3>1, StepFree DEF Inv, StuckNeedsCrash
    <3> QED
      BY <2>2, <3>2 DEF Inv
  <2>4. CASE Crash(r)
    <3>1. crashes' > 0
      BY <2>4 DEF Crash, Inv, Typed, TypeOK
    <3> QED
      BY <2>2, <3>1 DEF Inv, StuckNeedsCrash
  <2> QED
    BY <2>1, <2>3, <2>4
<1> QED
  BY <1>1, <1>2

-----------------------------------------------------------------------------
LEMMA Invariance == Spec => []Inv
<1> QED
  BY InitInv, StepInv, PTL DEF Spec

\* The variables keep their types in any number of replicas and files.
THEOREM TypeCorrect == Spec => []TypeOK
<1>1. Inv => TypeOK
  BY DEF Inv, Typed
<1> QED
  BY <1>1, Invariance, PTL

\* A replica serves, and a file is recorded, only when all of its statements
\* have been applied, however the replicas race and crash.
THEOREM SchemaIsWhole == Spec => []ServesWholeSchema
<1>1. Inv => ServesWholeSchema
  BY DEF Inv, Progress, ServesWholeSchema
<1> QED
  BY <1>1, Invariance, PTL

\* Without a crash no race of replicas leaves a file that later starts fail on.
THEOREM RacesAreHarmless == Spec => []StuckNeedsCrash
<1>1. Inv => StuckNeedsCrash
  BY DEF Inv
<1> QED
  BY <1>1, Invariance, PTL

-----------------------------------------------------------------------------
(* The stack *)

\* A replica that serves is past the last file; once one has served, every file
\* is recorded, which no crash takes back.
Settled ==
  /\ StackTypeOK
  /\ \A r \in Replicas : pc[r] = "serving" => file[r] \notin File
  /\ served => File \subseteq recorded

StackInv == Inv /\ Settled

\* A step of the stack is one of the migrations, or leaves them alone but for
\* the count of crashes.
LEMMA StackStep ==
  ASSUME [StackNext]_stackVars, crashes \in Nat
  PROVE  \/ [Next]_vars
         \/ UNCHANGED <<done, recorded, pc, file, stmt>> /\ crashes' = crashes + 1
               /\ crashes < MaxCrashes
BY DEF StackNext, Beside, stackVars, apiVars, NatsUp, NatsDown, Begin, Connects, CreatesStream, TimesOut,
       GivesUp, Dies, Emit, Deliver, HandleFails, Handle

LEMMA StackMigrates == Inv /\ [StackNext]_stackVars => Inv'
<1> SUFFICES ASSUME Inv, [StackNext]_stackVars PROVE Inv'
  OBVIOUS
<1>1. crashes \in Nat
  BY MigrationsAssumption DEF Inv, Typed, TypeOK
<1>2. CASE [Next]_vars
  BY <1>2, StepInv
<1>3. CASE UNCHANGED <<done, recorded, pc, file, stmt>> /\ crashes' = crashes + 1 /\ crashes < MaxCrashes
  <2>1. crashes' \in 0..MaxCrashes /\ crashes' > 0
    BY <1>1, <1>3, MigrationsAssumption
  <2> QED
    BY <1>3, <2>1 DEF Inv, Typed, TypeOK, Progress, StuckNeedsCrash
<1> QED
  BY <1>1, <1>2, <1>3, StackStep

\* What the migrations do: a replica begins to serve past the last file, and no
\* file is struck off the record.
LEMMA MigrationsSettle ==
  ASSUME StackInv, Next, Beside
  PROVE  /\ \A r \in Replicas : pc'[r] = "serving" => file'[r] \notin File
         /\ served' => File \subseteq recorded'
<1>1. PICK r \in Replicas : Step(r) \/ Crash(r)
  BY DEF Next
<1>2. \A q \in Replicas \ {r} : pc'[q] = pc[q] /\ file'[q] = file[q]
  BY <1>1, Others DEF StackInv
<1>3. pc'[r] = "serving" => file'[r] \notin File
  BY <1>1, FileRecord DEF StackInv, Settled, Inv, Typed, TypeOK, Step, Start, Serve, Skip,
     Check, Apply, ApplyFails, Record, RecordFails, Crash, GoesDown, NextFile, Goes
<1>4. \A q \in Replicas : pc'[q] = "serving" => file'[q] \notin File
  BY <1>2, <1>3 DEF StackInv, Settled
<1>5. recorded \subseteq recorded'
  BY <1>1 DEF Step, Start, Serve, Skip, Check, Apply, ApplyFails, Record, RecordFails, Crash
<1>6. ASSUME NEW q \in Replicas, pc'[q] = "serving"
      PROVE  File \subseteq recorded'
  <2>1. file'[q] \in 1..(Len(Files) + 1) /\ file'[q] \notin File
    BY <1>1, <1>4, <1>6, StepTyped DEF StackInv, Typed, TypeOK
  <2>2. \A f \in File : file'[q] > f
    BY <2>1, FileRecord DEF File
  <2>3. Progress'
    BY <1>1, StepProgress DEF StackInv
  <2> QED
    BY <2>2, <2>3 DEF Progress
<1> QED
  BY <1>4, <1>5, <1>6 DEF Beside, StackInv, Settled

LEMMA StackSettles == StackInv /\ [StackNext]_stackVars => Settled'
<1> SUFFICES ASSUME StackInv, [StackNext]_stackVars PROVE Settled'
  OBVIOUS
<1> USE MigrationsAssumption, BootstrapAssumption
    DEF StackInv, Settled, StackTypeOK, natsVars, eventVars, apiVars, Clients, Becomes
<1>1. CASE Next /\ Beside
  <2>1. served' \in BOOLEAN
    BY <1>1 DEF Beside
  <2> QED
    BY <1>1, <2>1, MigrationsSettle DEF Beside
<1>2. ASSUME UNCHANGED <<pc, file, recorded, served>>
      PROVE  /\ \A r \in Replicas : pc'[r] = "serving" => file'[r] \notin File
             /\ served' => File \subseteq recorded'
  BY <1>2
<1>3. CASE NatsUp
  BY <1>2, <1>3 DEF NatsUp, vars
<1>4. CASE NatsDown
  <2>1. outages' \in 0..MaxOutages
    BY <1>4 DEF NatsDown
  <2>2. away' \in [{"proxy", "ingest"} -> BOOLEAN]
    BY <1>4 DEF NatsDown
  <2> QED
    BY <1>2, <1>4, <2>1, <2>2 DEF NatsDown, vars
<1>6. ASSUME NEW c \in Clients, Begin(c)
      PROVE  Settled'
  BY <1>2, <1>6 DEF Begin, vars
<1>7. ASSUME NEW c \in Clients, CreatesStream(c)
      PROVE  Settled'
  BY <1>2, <1>7 DEF CreatesStream, vars
<1>8. ASSUME NEW c \in Clients, TimesOut(c)
      PROVE  Settled'
  BY <1>2, <1>8 DEF TimesOut, vars
<1>9. ASSUME NEW c \in Clients, GivesUp(c) \/ Dies(c)
      PROVE  Settled'
  BY <1>2, <1>9 DEF GivesUp, Dies, LeavesUnanswered, vars
<1>10. ASSUME NEW e \in Events, Emit(e)
      PROVE  Settled'
  <2>1. PICK o \in Outcomes : event' = [event EXCEPT ![e] = o]
    BY <1>10 DEF Emit
  <2>2. o \in {"stored", "logged", "lost"}
    BY <2>1 DEF Outcomes
  <2> QED
    BY <1>2, <1>10, <2>1, <2>2 DEF Emit, vars
<1>11. ASSUME NEW e \in Events, Deliver(e)
      PROVE  Settled'
  <2>1. tries[e] + 1 \in 0..MaxDeliver
    BY <1>11 DEF Deliver
  <2> QED
    BY <1>2, <1>11, <2>1 DEF Deliver, vars
<1>12. ASSUME NEW e \in Events, HandleFails(e) \/ Handle(e)
      PROVE  Settled'
  BY <1>2, <1>12 DEF HandleFails, Handle, vars
<1>5. CASE UNCHANGED stackVars
  BY <1>5 DEF stackVars, vars
<1> QED
  BY <1>1, <1>3, <1>4, <1>5, <1>6, <1>7, <1>8, <1>9, <1>10, <1>11, <1>12
     DEF StackNext, Connects

LEMMA StackInitInv == StackInit => StackInv
<1> SUFFICES ASSUME StackInit PROVE StackInv
  OBVIOUS
<1>1. Inv
  BY InitInv DEF StackInit
<1>2. StackTypeOK
  <2>1. outages \in 0..MaxOutages
    BY BootstrapAssumption DEF StackInit
  <2>2. tries \in [Events -> 0..MaxDeliver]
    BY BootstrapAssumption DEF StackInit
  <2> QED
    BY <2>1, <2>2, Zenon DEF StackInit, StackTypeOK
<1>3. \A r \in Replicas : pc[r] = "down"
  BY DEF StackInit, Init
<1>5. Settled
  BY <1>2, <1>3 DEF Settled, StackInit
<1> QED
  BY <1>1, <1>5 DEF StackInv

LEMMA StackInvariance == StackSpec => []StackInv
<1>1. StackInv /\ [StackNext]_stackVars => StackInv'
  BY StackMigrates, StackSettles DEF StackInv
<1> QED
  BY <1>1, StackInitInv, PTL DEF StackSpec

-----------------------------------------------------------------------------
\* The variables of the whole stack keep their types.
THEOREM StackTypeCorrect == StackSpec => []StackTypeOK
<1>1. StackInv => StackTypeOK
  BY DEF StackInv, Settled
<1> QED
  BY <1>1, StackInvariance, PTL

\* Once a replica has served, a delivery ends unhandled only with the process or
\* the connection of the ingest: the schema its handlers need is there for good.
THEOREM AttemptsFailEarly == StackSpec => FailsOnlyBeforeServing
<1>1. StackInv /\ [StackNext]_stackVars =>
        [\A e \in held \ held' :
           served => event'[e] = "handled" \/ mode'["ingest"] # "up"]_stackVars
  <2> SUFFICES ASSUME StackInv, StackNext, NEW e \in held \ held', served
               PROVE  event'[e] = "handled" \/ mode'["ingest"] # "up"
    OBVIOUS
  <2> e \in Events
    BY DEF StackInv, Settled, StackTypeOK
  <2>1. Prepared
    BY BootstrapAssumption DEF Prepared, StackInv, Settled, Inv, Progress
  <2>2. CASE Dies("ingest") \/ GivesUp("ingest")
    BY <2>2 DEF Dies, GivesUp, Becomes, Clients, StackInv, Settled, StackTypeOK
  <2>3. CASE Handle(e)
    BY <2>3 DEF Handle, StackInv, Settled, StackTypeOK
  <2>4. CASE HandleFails(e)
    BY <2>1, <2>4 DEF HandleFails
  <2>5. held' # held
    OBVIOUS
  <2>6. PICK c \in Clients, d \in Events :
          GivesUp(c) \/ Dies(c) \/ Deliver(d) \/ HandleFails(d) \/ Handle(d)
    BY <2>5 DEF StackNext, Beside, NatsUp, NatsDown, Begin, Connects, CreatesStream, TimesOut,
       Emit, natsVars, eventVars, Clients
  <2>7. CASE GivesUp(c) \/ Dies(c)
    <3>1. c = "ingest"
      BY <2>5, <2>7 DEF GivesUp, Dies, LeavesUnanswered
    <3> QED
      BY <2>2, <2>7, <3>1
  <2>8. CASE Deliver(d) \/ HandleFails(d) \/ Handle(d)
    <3>1. ~Deliver(d)
      BY DEF Deliver
    <3>2. d = e
      BY <2>8, <3>1 DEF HandleFails, Handle
    <3> QED
      BY <2>3, <2>4, <2>8, <3>1, <3>2
  <2> QED
    BY <2>6, <2>7, <2>8
<1> QED
  BY <1>1, StackInvariance, PTL DEF StackSpec, FailsOnlyBeforeServing

=============================================================================
