----------------------------- MODULE Migration -----------------------------
(***************************************************************************)
(* migration.Migrate (src/migration/migration.go): processes that bring a  *)
(* Spanner database to the newest schema, each statement in an operation   *)
(* or a transaction of its own, the version recorded after the last one.   *)
(* Processes may run at the same time, fail, crash and be started again.   *)
(*                                                                         *)
(* A migration file is a version and its statements.  Of a statement the   *)
(* model keeps whether IsDDL holds, whether the database refuses to        *)
(* execute it a second time (ALTER TABLE ADD COLUMN, INSERT of a key), and *)
(* how often it has taken effect.                                          *)
(***************************************************************************)
EXTENDS Naturals, Sequences, FiniteSets, Functions

CONSTANTS Runners,     \* the processes that call Migrate
          Nobody,      \* no process
          Files,       \* the files in the order of fs.WalkDir
          MaxRuns,     \* bound: calls of Migrate; the last one runs alone and
                       \* meets no fault, as some call of a service that is
                       \* started again and again does
          MaxFaults    \* bound: crashes and lost or failed requests

\* README.md: files are numbered, and ordered as the file system orders them.
ASSUME FilesAssumption ==
  /\ Files \in Seq([version : Nat \ {0}, stmts : Seq([ddl : BOOLEAN, once : BOOLEAN])])
  /\ \A i, j \in DOMAIN Files : i < j => Files[i].version < Files[j].version
  /\ Nobody \notin Runners
  /\ MaxRuns \in Nat /\ MaxFaults \in Nat

StatementsOf(i) == {<<i, s>> : s \in DOMAIN Files[i].stmts}
AllStatements == UNION {StatementsOf(i) : i \in DOMAIN Files}
Text(x) == Files[x[1]].stmts[x[2]]

VARIABLES table,     \* the table schema_migrations exists
          versions,  \* its rows
          effects,   \* effects[stmt]: how often the statement took effect
          pending,   \* DDL operations Spanner has accepted, and who waits
          pc,        \* where r is in Migrate
          current,   \* currentVersion, read once by r
          file,      \* the file r is at
          stmt,      \* the statement of the file r is at
          runs, faults,
          unaware    \* kept for the properties: unaware[i] is the number of
                     \* runs that started when file i was not recorded

database == <<table, versions, effects, pending>>
locals == <<current, file, stmt>>
vars == <<database, pc, locals, runs, faults, unaware>>

Init ==
  /\ table = FALSE
  /\ versions = {}
  /\ effects = [x \in AllStatements |-> 0]
  /\ pending = <<>>
  /\ pc = [r \in Runners |-> "idle"]
  /\ current = [r \in Runners |-> 0]
  /\ file = [r \in Runners |-> 1]
  /\ stmt = [r \in Runners |-> 1]
  /\ runs = 0
  /\ faults = 0
  /\ unaware = [i \in DOMAIN Files |-> 0]

Goto(r, place) == pc' = [pc EXCEPT ![r] = place]
Fault == runs < MaxRuns /\ faults < MaxFaults /\ faults' = faults + 1
Here(r) == <<file[r], stmt[r]>>
Version(r) == Files[file[r]].version

\* Migrate returns, or its process ends; either way its variables are gone.
Stops(r) ==
  /\ Goto(r, "idle")
  /\ current' = [current EXCEPT ![r] = 0]
  /\ file' = [file EXCEPT ![r] = 1]
  /\ stmt' = [stmt EXCEPT ![r] = 1]

\* The operation r has waited for goes on without it.
Abandoned(r) ==
  [i \in DOMAIN pending |-> IF pending[i].by = r THEN [pending[i] EXCEPT !.by = Nobody]
                                                ELSE pending[i]]

-----------------------------------------------------------------------------
Start(r) ==
  /\ pc[r] = "idle"
  /\ runs < MaxRuns - 1 \/ (runs < MaxRuns /\ \A q \in Runners : pc[q] = "idle")
  /\ runs' = runs + 1
  /\ Goto(r, "table")
  /\ UNCHANGED <<database, locals, faults, unaware>>

\* EnsureMigrationTable: a read, then CREATE TABLE IF NOT EXISTS and a wait.
EnsureTable(r) ==
  /\ pc[r] = "table"
  /\ table' = TRUE
  /\ Goto(r, "version")
  /\ UNCHANGED <<versions, effects, pending, locals, runs, faults, unaware>>

\* Mutant of GetVersion: the order of the versions is forgotten.
GetVersionLowest(r) ==
  /\ pc[r] = "version"
  /\ current' = [current EXCEPT ![r] =
                   CHOOSE v \in versions \cup {0} : \A w \in versions : v <= w]
  /\ unaware' = [i \in DOMAIN Files |->
                   IF Files[i].version \in versions THEN unaware[i] ELSE unaware[i] + 1]
  /\ Goto(r, "walk")
  /\ UNCHANGED <<database, file, stmt, runs, faults>>

\* GetCurrentVersion: the highest version, 0 in an empty table.
GetVersion(r) ==
  /\ pc[r] = "version"
  /\ current' = [current EXCEPT ![r] =
                   CHOOSE v \in versions \cup {0} : \A w \in versions : w <= v]
  /\ unaware' = [i \in DOMAIN Files |->
                   IF Files[i].version \in versions THEN unaware[i] ELSE unaware[i] + 1]
  /\ Goto(r, "walk")
  /\ UNCHANGED <<database, file, stmt, runs, faults>>

\* WalkDir: a file whose version is not above the current one is skipped.
SkipFile(r) ==
  /\ pc[r] = "walk"
  /\ file[r] \in DOMAIN Files
  /\ Version(r) <= current[r]
  /\ file' = [file EXCEPT ![r] = @ + 1]
  /\ UNCHANGED <<database, pc, current, stmt, runs, faults, unaware>>

EnterFile(r) ==
  /\ pc[r] = "walk"
  /\ file[r] \in DOMAIN Files
  /\ Version(r) > current[r]
  /\ stmt' = [stmt EXCEPT ![r] = 1]
  /\ Goto(r, "file")
  /\ UNCHANGED <<database, current, file, runs, faults, unaware>>

\* The statement of r has been dealt with.
NextStatement(r) ==
  /\ stmt' = [stmt EXCEPT ![r] = @ + 1]
  /\ Goto(r, "file")
  /\ UNCHANGED <<current, file>>

AtStatement(r, ddl) ==
  /\ pc[r] = "file"
  /\ Here(r) \in AllStatements
  /\ Text(Here(r)).ddl = ddl

\* The database executes x: it takes effect once more, if that is possible.
Executable(x) == Text(x).once => effects[x] = 0
TakesEffect(x) == effects' = [effects EXCEPT ![x] = @ + 1]

\* Mutant of SubmitDDL: no op.Wait.
SubmitOnly(r) ==
  /\ AtStatement(r, TRUE)
  /\ pending' = Append(pending, [by |-> Nobody, stmt |-> Here(r)])
  /\ NextStatement(r)
  /\ UNCHANGED <<table, versions, effects, runs, faults, unaware>>

\* UpdateDatabaseDdl: Spanner accepts the operation; r waits for it.
SubmitDDL(r) ==
  /\ AtStatement(r, TRUE)
  /\ pending' = Append(pending, [by |-> r, stmt |-> Here(r)])
  /\ Goto(r, "wait")
  /\ UNCHANGED <<table, versions, effects, locals, runs, faults, unaware>>

\* Spanner executes its operations one after the other, whether or not anybody
\* still waits, and op.Wait gives the outcome to the runner that does.
RunDDL ==
  /\ pending # <<>>
  /\ LET op == Head(pending)
     IN  \/ /\ Executable(op.stmt)
            /\ TakesEffect(op.stmt)
            /\ IF op.by = Nobody THEN UNCHANGED <<pc, locals>> ELSE NextStatement(op.by)
         \/ /\ ~Executable(op.stmt)
            /\ UNCHANGED effects
            /\ IF op.by = Nobody THEN UNCHANGED <<pc, locals>> ELSE Stops(op.by)
  /\ pending' = Tail(pending)
  /\ UNCHANGED <<table, versions, runs, faults, unaware>>

\* A read-write transaction with the statement.
RunDML(r) ==
  /\ AtStatement(r, FALSE)
  /\ Executable(Here(r))
  /\ TakesEffect(Here(r))
  /\ NextStatement(r)
  /\ UNCHANGED <<table, versions, pending, runs, faults, unaware>>

RefusedDML(r) ==
  /\ AtStatement(r, FALSE)
  /\ ~Executable(Here(r))
  /\ Stops(r)
  /\ UNCHANGED <<database, runs, faults, unaware>>

AtEnd(r) == pc[r] = "file" /\ Here(r) \notin AllStatements

\* Mutants of RecordVersion: it is forgotten, or kept for the end of the walk.
RecordNothing(r) ==
  /\ AtEnd(r)
  /\ file' = [file EXCEPT ![r] = @ + 1]
  /\ Goto(r, "walk")
  /\ UNCHANGED <<database, current, stmt, runs, faults, unaware>>

RecordLastVersion(r) ==
  /\ AtEnd(r)
  /\ versions' = IF file[r] = Len(Files) THEN versions \cup {Version(r)} ELSE versions
  /\ file' = [file EXCEPT ![r] = @ + 1]
  /\ Goto(r, "walk")
  /\ UNCHANGED <<table, effects, pending, current, stmt, runs, faults, unaware>>

\* SetCurrentVersion: INSERT of the version, the primary key.
RecordVersion(r) ==
  /\ AtEnd(r)
  /\ Version(r) \notin versions
  /\ versions' = versions \cup {Version(r)}
  /\ file' = [file EXCEPT ![r] = @ + 1]
  /\ Goto(r, "walk")
  /\ UNCHANGED <<table, effects, pending, current, stmt, runs, faults, unaware>>

\* The row is there already: another runner was faster.
RecordRefused(r) ==
  /\ AtEnd(r)
  /\ Version(r) \in versions
  /\ Stops(r)
  /\ UNCHANGED <<database, runs, faults, unaware>>

\* Every file was skipped or applied: nil.
Finish(r) ==
  /\ pc[r] = "walk"
  /\ file[r] \notin DOMAIN Files
  /\ Stops(r)
  /\ UNCHANGED <<database, runs, faults, unaware>>

\* The process crashes, or a request fails and its error is returned.
Fail(r) ==
  /\ pc[r] # "idle"
  /\ Fault
  /\ pending' = Abandoned(r)
  /\ Stops(r)
  /\ UNCHANGED <<table, versions, effects, runs, unaware>>

\* The transaction with the statement, or with the version, committed, but the
\* process ends or gets an error before it knows.
FailAfterCommit(r) ==
  /\ Fault
  /\ \/ /\ AtStatement(r, FALSE)
        /\ Executable(Here(r))
        /\ TakesEffect(Here(r))
        /\ UNCHANGED versions
     \/ /\ AtEnd(r)
        /\ Version(r) \notin versions
        /\ versions' = versions \cup {Version(r)}
        /\ UNCHANGED effects
  /\ Stops(r)
  /\ UNCHANGED <<table, pending, runs, unaware>>

-----------------------------------------------------------------------------
RunnerStep(r) ==
  \/ EnsureTable(r) \/ GetVersion(r) \/ SkipFile(r) \/ EnterFile(r)
  \/ SubmitDDL(r) \/ RunDML(r) \/ RefusedDML(r)
  \/ RecordVersion(r) \/ RecordRefused(r) \/ Finish(r)

Next ==
  \/ RunDDL
  \/ \E r \in Runners : Start(r) \/ RunnerStep(r) \/ Fail(r) \/ FailAfterCommit(r)

Spec == Init /\ [][Next]_vars

\* Processes and Spanner make progress, and a service is started again.
Fairness ==
  /\ WF_vars(RunDDL)
  /\ \A r \in Runners : WF_vars(RunnerStep(r)) /\ WF_vars(Start(r))

FairSpec == Spec /\ Fairness

-----------------------------------------------------------------------------
(* Properties                                                              *)

Places == {"idle", "table", "version", "walk", "file", "wait"}

\* The variables have their types.
TypeOK ==
  /\ table \in BOOLEAN
  /\ versions \subseteq {Files[i].version : i \in DOMAIN Files}
  /\ effects \in [AllStatements -> Nat]
  /\ pending \in Seq([by : Runners \cup {Nobody}, stmt : AllStatements])
  /\ pc \in [Runners -> Places]
  /\ current \in [Runners -> Nat]
  /\ file \in [Runners -> Nat \ {0}]
  /\ stmt \in [Runners -> Nat \ {0}]
  /\ runs \in 0 .. MaxRuns
  /\ faults \in 0 .. MaxFaults
  /\ unaware \in [DOMAIN Files -> Nat]

Recorded(i) == Files[i].version \in versions

\* A recorded version is completely applied, however many runners worked on it
\* and wherever they failed.
RecordedMeansApplied ==
  \A i \in DOMAIN Files : Recorded(i) => \A x \in StatementsOf(i) : effects[x] > 0

\* Versions are recorded without gaps: the highest one, which is all that
\* Migrate looks at, stands for all the files before it.
NoGap ==
  \A i, j \in DOMAIN Files : i < j /\ Recorded(j) => Recorded(i)

\* A runner has left a file behind, skipped or applied, only if it is recorded.
BehindMeansRecorded ==
  \A r \in Runners : \A i \in DOMAIN Files : i < file[r] => Recorded(i)

\* README.md: "will apply the migrations only if the migration version is greater
\* than the current version of the database": a statement takes effect at most
\* once per call of Migrate that found its file unrecorded; a second effect has
\* a failed or a concurrent call as its reason.
AtMostOncePerUnawareRun ==
  \A x \in AllStatements :
    effects[x] + Cardinality({k \in DOMAIN pending : pending[k].stmt = x})
      <= unaware[x[1]]

\* A file that the database refuses to apply again after a run that failed.
Stuck == \E x \in AllStatements : Text(x).once /\ effects[x] > 0 /\ ~Recorded(x[1])

\* Started again after each failure, Migrate gets every file recorded, unless a
\* failed run left a statement behind that cannot be executed twice.
EventuallyMigrated ==
  <>[]((\A i \in DOMAIN Files : Recorded(i)) \/ Stuck)
=============================================================================
