-------------------------- MODULE Migration_proofs --------------------------
(***************************************************************************)
(* Proofs about Migration, for every set of runners, all files and every   *)
(* bound: the version table never claims more than has been applied.  And  *)
(* about MigrationParser, for files of any length: every line of SQL gets  *)
(* into a statement, and the statements are the blocks that are written.   *)
(***************************************************************************)
EXTENDS Migration, MigrationParser, WellFoundedInduction, SequenceTheorems, FiniteSetTheorems,
        TLAPS

(***************************************************************************)
(* The inductive invariant.                                                *)
(***************************************************************************)

\* What op.Wait of r will answer.
WaitedBy(r, k) == k \in DOMAIN pending /\ pending[k].by = r

\* The recorded versions have a highest one, which GetCurrentVersion finds.
HasHighest == \E v \in versions \cup {0} : \A w \in versions : w <= v

\* A runner within a file has brought every statement before its own to effect.
BeforeMineApplied ==
  \A r \in Runners : pc[r] \in {"file", "wait"} =>
    /\ file[r] \in DOMAIN Files
    /\ \A s \in DOMAIN Files[file[r]].stmts : s < stmt[r] => effects[<<file[r], s>>] > 0

\* Who waits in Spanner's queue waits there once, for the statement it is at.
WaitsForMine ==
  /\ \A r \in Runners, k \in DOMAIN pending :
       WaitedBy(r, k) => pc[r] = "wait" /\ pending[k].stmt = Here(r)
  /\ \A r \in Runners, k, l \in DOMAIN pending : WaitedBy(r, k) /\ WaitedBy(r, l) => k = l

\* The version a runner has read once stands for files that were recorded then.
CurrentMeansRecorded ==
  \A r \in Runners : \A i \in DOMAIN Files : Files[i].version <= current[r] => Recorded(i)

IInv ==
  /\ TypeOK /\ HasHighest /\ BeforeMineApplied /\ WaitsForMine /\ CurrentMeansRecorded
  /\ RecordedMeansApplied /\ NoGap /\ BehindMeansRecorded


(***************************************************************************)
(* Facts about the constants and the initial state.                        *)
(***************************************************************************)

\* The migration files: positive versions in ascending order.
LEMMA FileFacts ==
  /\ \A i \in DOMAIN Files : /\ i \in Nat \ {0}
                             /\ Files[i].version \in Nat \ {0}
                             /\ \E n \in Nat : DOMAIN Files[i].stmts = 1 .. n
  /\ \A i, j \in DOMAIN Files : i < j => Files[i].version < Files[j].version
  /\ \A i, j \in DOMAIN Files : Files[i].version = Files[j].version => i = j
<1>1. \A i \in DOMAIN Files : /\ i \in Nat \ {0}
                              /\ Files[i].version \in Nat \ {0}
                              /\ \E n \in Nat : DOMAIN Files[i].stmts = 1 .. n
  <2> DEFINE Statement == [ddl : BOOLEAN, once : BOOLEAN]
             File == [version : Nat \ {0}, stmts : Seq(Statement)]
  <2>1. Files \in Seq(File)
    BY FilesAssumption
  <2>2. ASSUME NEW i \in DOMAIN Files
        PROVE  i \in Nat \ {0} /\ Files[i] \in File
    <3> HIDE DEF File
    <3> QED
      BY <2>1, LenProperties
  <2>3. ASSUME NEW i \in DOMAIN Files
        PROVE  Files[i].version \in Nat \ {0} /\ Files[i].stmts \in Seq(Statement)
    BY <2>2
  <2>4. ASSUME NEW i \in DOMAIN Files
        PROVE  \E n \in Nat : DOMAIN Files[i].stmts = 1 .. n
    <3> HIDE DEF Statement
    <3> QED
      BY <2>3, LenProperties
  <2> QED
    BY <2>2, <2>3, <2>4
<1>2. \A i, j \in DOMAIN Files : i < j => Files[i].version < Files[j].version
  BY FilesAssumption
<1>3. \A i, j \in DOMAIN Files : Files[i].version = Files[j].version => i = j
  BY <1>1, <1>2
<1> QED
  BY <1>1, <1>2, <1>3

\* The bounds are numbers.
LEMMA BoundFacts == MaxRuns \in Nat /\ MaxFaults \in Nat /\ Nobody \notin Runners
BY FilesAssumption, Zenon

\* A statement is the pair of its file and its place in the file.
LEMMA StatementFacts ==
  \A i, s : <<i, s>> \in AllStatements <=> i \in DOMAIN Files /\ s \in DOMAIN Files[i].stmts
BY DEF AllStatements, StatementsOf

\* The statements of a file are statements.
LEMMA StatementsOfFacts ==
  ASSUME NEW i \in DOMAIN Files, NEW x \in StatementsOf(i)
  PROVE  x \in AllStatements /\ \E s \in DOMAIN Files[i].stmts : x = <<i, s>>
BY DEF AllStatements, StatementsOf

\* Versions are numbers.
LEMMA VersionsAreNumbers == TypeOK => versions \cup {0} \subseteq Nat
<1> SUFFICES ASSUME TypeOK, NEW v \in versions PROVE v \in Nat
  OBVIOUS
<1>1. PICK i \in DOMAIN Files : v = Files[i].version
  BY DEF TypeOK
<1> QED
  BY <1>1, FileFacts

\* In the empty database nothing is recorded and nobody has begun.
LEMMA InitInv == Init => IInv
<1> SUFFICES ASSUME Init PROVE IInv
  OBVIOUS
<1> USE DEF Init
<1>1. TypeOK
  <2>1. pending \in Seq([by : Runners \cup {Nobody}, stmt : AllStatements])
    BY EmptySeq
  <2>2. effects \in [AllStatements -> Nat] /\ unaware \in [DOMAIN Files -> Nat]
    OBVIOUS
  <2>3. versions \subseteq {Files[i].version : i \in DOMAIN Files}
    OBVIOUS
  <2>4. /\ pc \in [Runners -> Places] /\ current \in [Runners -> Nat]
        /\ file \in [Runners -> Nat \ {0}] /\ stmt \in [Runners -> Nat \ {0}]
    BY DEF Places
  <2>5. table \in BOOLEAN
    BY Zenon
  <2>6. runs \in 0 .. MaxRuns /\ faults \in 0 .. MaxFaults
    <3>1. runs = 0 /\ faults = 0
      OBVIOUS
    <3> QED
      BY <3>1, BoundFacts
  <2> QED
    BY <2>1, <2>2, <2>3, <2>4, <2>5, <2>6, Zenon DEF TypeOK
<1>2. HasHighest
  BY DEF HasHighest
<1>3. BeforeMineApplied /\ WaitsForMine
  BY DEF BeforeMineApplied, WaitsForMine, WaitedBy
<1>4. CurrentMeansRecorded
  BY FileFacts DEF CurrentMeansRecorded
<1>5. RecordedMeansApplied /\ NoGap /\ BehindMeansRecorded
  BY FileFacts DEF RecordedMeansApplied, NoGap, BehindMeansRecorded, Recorded
<1> QED
  BY <1>1, <1>2, <1>3, <1>4, <1>5 DEF IInv

(***************************************************************************)
(* Types.                                                                  *)
(***************************************************************************)

Operation == [by : Runners \cup {Nobody}, stmt : AllStatements]

\* Leaving Migrate keeps the types of the runners' variables.
LEMMA StopsType ==
  ASSUME TypeOK, NEW r \in Runners, Stops(r)
  PROVE  /\ pc' \in [Runners -> Places]
         /\ current' \in [Runners -> Nat]
         /\ file' \in [Runners -> Nat \ {0}]
         /\ stmt' \in [Runners -> Nat \ {0}]
BY DEF TypeOK, Stops, Goto, Places

\* Going on to the next statement does, too.
LEMMA NextStatementType ==
  ASSUME TypeOK, NEW r \in Runners, NextStatement(r)
  PROVE  /\ pc' \in [Runners -> Places]
         /\ current' \in [Runners -> Nat]
         /\ file' \in [Runners -> Nat \ {0}]
         /\ stmt' \in [Runners -> Nat \ {0}]
BY DEF TypeOK, NextStatement, Goto, Places

\* GetCurrentVersion answers with a recorded version or 0, no recorded one above.
LEMMA HighestFacts ==
  ASSUME HasHighest,
         NEW v, v = CHOOSE x \in versions \cup {0} : \A w \in versions : w <= x
  PROVE  v \in versions \cup {0} /\ \A w \in versions : w <= v
BY DEF HasHighest

\* The oldest operation of a queue, and the queue without it.
LEMMA QueueFacts ==
  ASSUME TypeOK, pending # <<>>
  PROVE  /\ Head(pending) \in Operation /\ Head(pending) = pending[1] /\ 1 \in DOMAIN pending
         /\ Tail(pending) \in Seq(Operation)
         /\ \A k \in DOMAIN Tail(pending) :
              k + 1 \in DOMAIN pending /\ k + 1 # 1 /\ Tail(pending)[k] = pending[k + 1]
<1>1. pending \in Seq(Operation)
  BY DEF TypeOK, Operation
<1> QED
  BY <1>1, HeadTailProperties

\* The queue with one more operation.
LEMMA SubmitFacts ==
  ASSUME TypeOK, NEW o \in Operation
  PROVE  /\ Append(pending, o) \in Seq(Operation)
         /\ \A k \in DOMAIN Append(pending, o) :
              \/ k \in DOMAIN pending /\ Append(pending, o)[k] = pending[k]
              \/ k = Len(pending) + 1 /\ k \notin DOMAIN pending /\ Append(pending, o)[k] = o
<1>1. pending \in Seq(Operation)
  BY DEF TypeOK, Operation
<1> QED
  BY <1>1, AppendProperties

\* The queue of which nobody waits for what r submitted.
LEMMA AbandonedFacts ==
  ASSUME TypeOK, NEW r \in Runners
  PROVE  /\ Abandoned(r) \in Seq(Operation)
         /\ DOMAIN Abandoned(r) = DOMAIN pending
         /\ \A k \in DOMAIN pending :
              /\ Abandoned(r)[k].stmt = pending[k].stmt
              /\ pending[k].by = r => Abandoned(r)[k].by = Nobody
              /\ pending[k].by # r => Abandoned(r)[k].by = pending[k].by
<1>1. pending \in Seq(Operation) /\ \A k \in DOMAIN pending : pending[k] \in Operation
  <2>1. pending \in Seq(Operation)
    BY DEF TypeOK, Operation
  <2> QED
    BY <2>1, LenProperties
<1>2. \A k \in DOMAIN pending :
        /\ pending[k] \in Operation
        /\ [pending[k] EXCEPT !.by = Nobody] \in Operation
        /\ [pending[k] EXCEPT !.by = Nobody].by = Nobody
        /\ [pending[k] EXCEPT !.by = Nobody].stmt = pending[k].stmt
  BY <1>1 DEF Operation
<1>3. \A k \in DOMAIN pending : Abandoned(r)[k] \in Operation
  BY <1>2 DEF Abandoned
<1>4. DOMAIN Abandoned(r) = 1 .. Len(pending) /\ Len(pending) \in Nat
  BY <1>1 DEF Abandoned
<1>5. Abandoned(r) \in [1 .. Len(pending) -> Operation]
  BY <1>1, <1>3, <1>4 DEF Abandoned
<1>6. Abandoned(r) \in Seq(Operation)
  BY <1>4, <1>5
<1> QED
  BY <1>1, <1>2, <1>4, <1>6 DEF Abandoned

\* Every step of a runner or of Spanner keeps the types.
LEMMA NextType == IInv /\ [Next]_vars => TypeOK'
<1> SUFFICES ASSUME IInv, [Next]_vars PROVE TypeOK'
  OBVIOUS
<1> USE BoundFacts DEF database, locals
<1>0. TypeOK /\ HasHighest /\ BeforeMineApplied
  BY DEF IInv
<1>1. ASSUME NEW r \in Runners, Start(r) PROVE TypeOK'
  BY <1>0, <1>1 DEF Start, TypeOK, Goto, Places
<1>2. ASSUME NEW r \in Runners, EnsureTable(r) PROVE TypeOK'
  BY <1>0, <1>2 DEF EnsureTable, TypeOK, Goto, Places
<1>3. ASSUME NEW r \in Runners, GetVersion(r) PROVE TypeOK'
  <2> DEFINE v == CHOOSE x \in versions \cup {0} : \A w \in versions : w <= x
  <2>1. v \in versions \cup {0}
    BY <1>0, HighestFacts
  <2>2. v \in Nat
    BY <1>0, <2>1, VersionsAreNumbers
  <2>3. current' = [current EXCEPT ![r] = v]
    BY <1>3, Zenon DEF GetVersion
  <2>4. current' \in [Runners -> Nat]
    BY <1>0, <2>2, <2>3 DEF TypeOK
  <2>5. unaware' \in [DOMAIN Files -> Nat]
    BY <1>0, <1>3 DEF GetVersion, TypeOK
  <2> QED
    BY <1>0, <1>3, <2>4, <2>5 DEF GetVersion, TypeOK, Goto, Places
<1>4. ASSUME NEW r \in Runners, SkipFile(r) PROVE TypeOK'
  BY <1>0, <1>4 DEF SkipFile, TypeOK
<1>5. ASSUME NEW r \in Runners, EnterFile(r) PROVE TypeOK'
  BY <1>0, <1>5 DEF EnterFile, TypeOK, Goto, Places
<1>6. ASSUME NEW r \in Runners, SubmitDDL(r) PROVE TypeOK'
  <2>1. [by |-> r, stmt |-> Here(r)] \in Operation
    BY <1>6 DEF SubmitDDL, AtStatement, Operation
  <2>2. pending' \in Seq(Operation)
    BY <1>0, <1>6, <2>1, SubmitFacts DEF SubmitDDL
  <2> QED
    BY <1>0, <1>6, <2>2 DEF SubmitDDL, TypeOK, Goto, Places, Operation
<1>7. ASSUME RunDDL PROVE TypeOK'
  <2> DEFINE op == Head(pending)
  <2>1. op \in Operation /\ pending' \in Seq(Operation)
    BY <1>0, <1>7, QueueFacts DEF RunDDL
  <2>2. effects' \in [AllStatements -> Nat]
    <3>1. UNCHANGED effects \/ TakesEffect(op.stmt)
      BY <1>7 DEF RunDDL
    <3>2. op.stmt \in AllStatements
      BY <2>1 DEF Operation
    <3>3. effects \in [AllStatements -> Nat]
      BY <1>0 DEF TypeOK
    <3> HIDE DEF op
    <3> QED
      BY <3>1, <3>2, <3>3 DEF TakesEffect
  <2>3. /\ pc' \in [Runners -> Places]
        /\ current' \in [Runners -> Nat]
        /\ file' \in [Runners -> Nat \ {0}]
        /\ stmt' \in [Runners -> Nat \ {0}]
    <3>1. CASE op.by = Nobody
      BY <1>0, <1>7, <3>1 DEF RunDDL, TypeOK
    <3>2. CASE op.by # Nobody
      <4>1. op.by \in Runners
        BY <2>1, <3>2 DEF Operation
      <4>2. NextStatement(op.by) \/ Stops(op.by)
        BY <1>7, <3>2 DEF RunDDL
      <4> QED
        BY <1>0, <4>1, <4>2, NextStatementType, StopsType
    <3> QED
      BY <3>1, <3>2
  <2> QED
    BY <1>0, <1>7, <2>1, <2>2, <2>3 DEF RunDDL, TypeOK, Operation
<1>8. ASSUME NEW r \in Runners, RunDML(r) PROVE TypeOK'
  <2>1. effects' \in [AllStatements -> Nat]
    BY <1>0, <1>8 DEF RunDML, AtStatement, TakesEffect, TypeOK
  <2> QED
    BY <1>0, <1>8, <2>1, NextStatementType DEF RunDML, TypeOK
<1>9. ASSUME NEW r \in Runners, RefusedDML(r) \/ RecordRefused(r) \/ Finish(r) PROVE TypeOK'
  BY <1>0, <1>9, StopsType DEF RefusedDML, RecordRefused, Finish, TypeOK
<1>10. ASSUME NEW r \in Runners, AtEnd(r)
       PROVE  versions \cup {Version(r)} \subseteq {Files[i].version : i \in DOMAIN Files}
  BY <1>0, <1>10 DEF AtEnd, Version, TypeOK, BeforeMineApplied
<1>11. ASSUME NEW r \in Runners, RecordVersion(r) PROVE TypeOK'
  <2>1. versions' \subseteq {Files[i].version : i \in DOMAIN Files}
    BY <1>10, <1>11 DEF RecordVersion
  <2>2. file' \in [Runners -> Nat \ {0}]
    BY <1>0, <1>11 DEF RecordVersion, TypeOK
  <2>3. pc' \in [Runners -> Places]
    BY <1>0, <1>11 DEF RecordVersion, TypeOK, Goto, Places
  <2> QED
    BY <1>0, <1>11, <2>1, <2>2, <2>3 DEF RecordVersion, TypeOK
<1>12. ASSUME NEW r \in Runners, Fail(r) PROVE TypeOK'
  <2>1. pending' \in Seq(Operation)
    BY <1>0, <1>12, AbandonedFacts DEF Fail
  <2> QED
    BY <1>0, <1>12, <2>1, StopsType DEF Fail, Fault, TypeOK, Operation
<1>13. ASSUME NEW r \in Runners, FailAfterCommit(r) PROVE TypeOK'
  <2>1. versions' \subseteq {Files[i].version : i \in DOMAIN Files}
    BY <1>0, <1>10, <1>13 DEF FailAfterCommit, TypeOK
  <2>2. effects' \in [AllStatements -> Nat]
    <3>1. effects \in [AllStatements -> Nat]
      BY <1>0 DEF TypeOK
    <3>2. UNCHANGED effects \/ TakesEffect(Here(r))
      BY <1>13 DEF FailAfterCommit
    <3> QED
      BY <3>1, <3>2 DEF TakesEffect
  <2> QED
    BY <1>0, <1>13, <2>1, <2>2, StopsType DEF FailAfterCommit, Fault, TypeOK
<1>14. CASE UNCHANGED vars
  BY <1>0, <1>14 DEF vars, TypeOK
<1> QED
  BY <1>1, <1>2, <1>3, <1>4, <1>5, <1>6, <1>7, <1>8, <1>9, <1>11, <1>12, <1>13, <1>14
     DEF Next, RunnerStep

(***************************************************************************)
(* The database: what a step may change of it.                             *)
(***************************************************************************)

\* A statement that took effect stays; a version is recorded by the runner that
\* has every statement of its file behind it.
Recording(r) ==
  /\ AtEnd(r)
  /\ versions' = versions \cup {Version(r)}
  /\ UNCHANGED effects

\* Effects are never taken back.
LEMMA TakesEffectGrows ==
  ASSUME TypeOK, NEW x \in AllStatements, TakesEffect(x)
  PROVE  /\ effects'[x] > 0
         /\ \A y \in AllStatements : effects'[y] >= effects[y]
BY DEF TypeOK, TakesEffect

\* What a step does to the database.
LEMMA DatabaseGrows ==
  ASSUME IInv, [Next]_vars
  PROVE  /\ \A x \in AllStatements : effects'[x] >= effects[x]
         /\ UNCHANGED versions \/ \E r \in Runners : Recording(r)
<1>0. TypeOK
  BY DEF IInv
<1>1. ASSUME UNCHANGED effects
      PROVE  \A x \in AllStatements : effects'[x] >= effects[x]
  BY <1>0, <1>1 DEF TypeOK
<1>2. ASSUME RunDDL
      PROVE  UNCHANGED versions /\ \A x \in AllStatements : effects'[x] >= effects[x]
  <2>1. Head(pending) \in Operation
    BY <1>0, <1>2, QueueFacts DEF RunDDL
  <2>2. UNCHANGED effects \/ TakesEffect(Head(pending).stmt)
    BY <1>2 DEF RunDDL
  <2>3. Head(pending).stmt \in AllStatements
    BY <2>1 DEF Operation
  <2> QED
    BY <1>0, <1>1, <1>2, <2>2, <2>3, TakesEffectGrows DEF RunDDL
<1>3. ASSUME NEW r \in Runners, RunDML(r) \/ FailAfterCommit(r)
      PROVE  /\ \A x \in AllStatements : effects'[x] >= effects[x]
             /\ UNCHANGED versions \/ Recording(r)
  <2>1. \/ Here(r) \in AllStatements /\ TakesEffect(Here(r)) /\ UNCHANGED versions
        \/ Recording(r)
    BY <1>3 DEF RunDML, FailAfterCommit, AtStatement, Recording
  <2> QED
    BY <1>0, <1>1, <2>1, TakesEffectGrows DEF Recording
<1>4. ASSUME NEW r \in Runners, RecordVersion(r)
      PROVE  Recording(r)
  BY <1>4 DEF RecordVersion, Recording
<1>5. ASSUME NEW r \in Runners,
             \/ Start(r) \/ EnsureTable(r) \/ GetVersion(r) \/ SkipFile(r) \/ EnterFile(r)
             \/ SubmitDDL(r) \/ RefusedDML(r) \/ RecordRefused(r) \/ Finish(r) \/ Fail(r)
      PROVE  UNCHANGED <<effects, versions>>
  BY <1>5 DEF Start, EnsureTable, GetVersion, SkipFile, EnterFile, SubmitDDL, RefusedDML,
              RecordRefused, Finish, Fail, database
<1>6. CASE UNCHANGED vars
  BY <1>1, <1>6 DEF vars, database
<1> QED
  BY <1>1, <1>2, <1>3, <1>4, <1>5, <1>6 DEF Next, RunnerStep, Recording

\* Nothing recorded is ever forgotten.
LEMMA RecordedStays ==
  ASSUME IInv, [Next]_vars, NEW i \in DOMAIN Files, Recorded(i)
  PROVE  Recorded(i)'
BY DatabaseGrows DEF Recording, Recorded

\* What the step of a runner that records a version makes recorded.
LEMMA RecordingFacts ==
  ASSUME IInv, NEW r \in Runners, Recording(r)
  PROVE  /\ file[r] \in DOMAIN Files
         /\ Version(r) \in versions'
         /\ \A i \in DOMAIN Files : Recorded(i)' => Recorded(i) \/ i = file[r]
         /\ \A x \in StatementsOf(file[r]) : effects[x] > 0
         /\ \A i \in DOMAIN Files : i < file[r] => Recorded(i)
<1>1. /\ file[r] \in DOMAIN Files /\ pc[r] = "file"
      /\ \A s \in DOMAIN Files[file[r]].stmts : s < stmt[r] => effects[<<file[r], s>>] > 0
  BY DEF IInv, BeforeMineApplied, Recording, AtEnd
<1>2. stmt[r] \notin DOMAIN Files[file[r]].stmts /\ stmt[r] \in Nat \ {0}
  BY <1>1, StatementFacts DEF Recording, AtEnd, Here, IInv, TypeOK
<1>3. \A s \in DOMAIN Files[file[r]].stmts : s < stmt[r]
  <2>1. PICK n \in Nat : DOMAIN Files[file[r]].stmts = 1 .. n
    BY <1>1, FileFacts
  <2> QED
    BY <1>2, <2>1
<1>4. \A x \in StatementsOf(file[r]) : effects[x] > 0
  BY <1>1, <1>3, StatementsOfFacts
<1>5. \A i \in DOMAIN Files : Recorded(i)' => Recorded(i) \/ i = file[r]
  BY <1>1, FileFacts DEF Recording, Recorded, Version
<1>6. Version(r) \in versions'
  BY DEF Recording
<1>7. \A i \in DOMAIN Files : i < file[r] => Recorded(i)
  BY DEF IInv, BehindMeansRecorded
<1> QED
  BY <1>1, <1>4, <1>5, <1>6, <1>7

\* The versions keep a highest one.
LEMMA NextHighest == IInv /\ [Next]_vars => HasHighest'
<1> SUFFICES ASSUME IInv, [Next]_vars PROVE HasHighest'
  OBVIOUS
<1>1. CASE UNCHANGED versions
  BY <1>1 DEF IInv, HasHighest
<1>2. ASSUME NEW r \in Runners, Recording(r) PROVE HasHighest'
  <2>1. Version(r) \in Nat
    BY <1>2, RecordingFacts, FileFacts DEF Version
  <2>2. PICK v \in versions \cup {0} : \A w \in versions : w <= v
    BY DEF IInv, HasHighest
  <2>3. versions \cup {0} \subseteq Nat
    BY VersionsAreNumbers DEF IInv
  <2>4. CASE Version(r) <= v
    BY <1>2, <2>2, <2>4 DEF Recording, HasHighest
  <2>5. CASE Version(r) > v
    <3>1. \A w \in versions' : w <= Version(r)
      BY <1>2, <2>1, <2>2, <2>3, <2>5 DEF Recording
    <3> QED
      BY <1>2, <3>1 DEF Recording, HasHighest
  <2> QED
    BY <2>1, <2>2, <2>3, <2>4, <2>5
<1> QED
  BY <1>1, <1>2, DatabaseGrows

\* A version is recorded over applied statements and recorded files only.
LEMMA NextRecorded == IInv /\ [Next]_vars => RecordedMeansApplied' /\ NoGap'
<1> SUFFICES ASSUME IInv, [Next]_vars PROVE RecordedMeansApplied' /\ NoGap'
  OBVIOUS
<1>1. RecordedMeansApplied /\ NoGap /\ TypeOK /\ TypeOK'
  BY NextType DEF IInv
<1>2. \A i \in DOMAIN Files, x \in AllStatements :
        effects[x] > 0 => effects'[x] > 0
  BY <1>1, DatabaseGrows DEF TypeOK
<1>3. \A i \in DOMAIN Files : Recorded(i)' =>
        /\ \A x \in StatementsOf(i) : effects[x] > 0
        /\ \A j \in DOMAIN Files : j < i => Recorded(j)
  <2>1. CASE UNCHANGED versions
    BY <1>1, <2>1 DEF Recorded, RecordedMeansApplied, NoGap
  <2>2. ASSUME NEW r \in Runners, Recording(r), NEW i \in DOMAIN Files, Recorded(i)'
        PROVE  /\ \A x \in StatementsOf(i) : effects[x] > 0
               /\ \A j \in DOMAIN Files : j < i => Recorded(j)
    BY <1>1, <2>2, RecordingFacts DEF RecordedMeansApplied, NoGap
  <2> QED
    BY <2>1, <2>2, DatabaseGrows
<1>4. RecordedMeansApplied'
  BY <1>2, <1>3, StatementsOfFacts DEF RecordedMeansApplied
<1>5. NoGap'
  BY <1>3, RecordedStays DEF NoGap
<1> QED
  BY <1>4, <1>5

(***************************************************************************)
(* The runners: what a step may do to one of them.                         *)
(***************************************************************************)

Same(r) == /\ pc'[r] = pc[r] /\ current'[r] = current[r]
           /\ file'[r] = file[r] /\ stmt'[r] = stmt[r]

\* A runner stays where it is, starts or ends, has read the highest version, has
\* a recorded file behind it, enters a file, waits for its statement, or has
\* brought it to effect.
Moved(r) ==
  \/ Same(r)
  \/ pc'[r] = "idle" /\ current'[r] = 0 /\ file'[r] = 1
  \/ /\ pc'[r] \in {"table", "version"}
     /\ current'[r] = current[r] /\ file'[r] = file[r]
  \/ /\ pc'[r] = "walk" /\ file'[r] = file[r]
     /\ current'[r] \in versions \cup {0}
  \/ /\ pc'[r] = "walk" /\ file'[r] = file[r] + 1 /\ current'[r] = current[r]
     /\ file[r] \in DOMAIN Files /\ Version(r) \in versions'
  \/ /\ pc'[r] = "file" /\ stmt'[r] = 1
     /\ file'[r] = file[r] /\ current'[r] = current[r] /\ file[r] \in DOMAIN Files
     /\ current[r] < Version(r)
  \/ /\ pc[r] = "file" /\ pc'[r] = "wait"
     /\ file'[r] = file[r] /\ stmt'[r] = stmt[r] /\ current'[r] = current[r]
  \/ /\ pc[r] \in {"file", "wait"} /\ pc'[r] = "file"
     /\ file'[r] = file[r] /\ stmt'[r] = stmt[r] + 1 /\ current'[r] = current[r]
     /\ effects'[Here(r)] > 0

\* A step of r moves r alone.
MovesOnly(r) == Moved(r) /\ \A q \in Runners : q # r => Same(q)

\* A runner that leaves Migrate.
LEMMA StopsMoves ==
  ASSUME TypeOK, NEW r \in Runners, Stops(r)
  PROVE  MovesOnly(r) /\ pc'[r] = "idle"
BY DEF TypeOK, Stops, Goto, MovesOnly, Moved, Same

\* A runner whose statement has taken effect.
LEMMA NextStatementMoves ==
  ASSUME TypeOK, NEW r \in Runners, pc[r] \in {"file", "wait"},
         NextStatement(r), effects'[Here(r)] > 0
  PROVE  MovesOnly(r) /\ pc'[r] = "file"
BY DEF TypeOK, NextStatement, Goto, MovesOnly, Moved, Same

\* A runner whose operation Spanner executes.
LEMMA RunDDLMoves ==
  ASSUME IInv, RunDDL, Head(pending).by # Nobody
  PROVE  /\ Head(pending).by \in Runners
         /\ MovesOnly(Head(pending).by)
         /\ pc'[Head(pending).by] # "wait"
<1> DEFINE op == Head(pending)
<1>0. TypeOK /\ WaitsForMine
  BY DEF IInv
<1>1. op \in Operation /\ op = pending[1] /\ 1 \in DOMAIN pending
  BY <1>0, QueueFacts DEF RunDDL
<1>2. op.by \in Runners /\ op.stmt \in AllStatements
  BY <1>1 DEF Operation
<1>3. pc[op.by] = "wait" /\ op.stmt = Here(op.by)
  BY <1>0, <1>1, <1>2 DEF WaitsForMine, WaitedBy
<1>4. \/ TakesEffect(op.stmt) /\ NextStatement(op.by)
      \/ Stops(op.by)
  BY DEF RunDDL
<1> HIDE DEF op
<1>5. MovesOnly(op.by) /\ pc'[op.by] # "wait"
  <2>1. CASE TakesEffect(op.stmt) /\ NextStatement(op.by)
    BY <1>0, <1>2, <1>3, <2>1, TakesEffectGrows, NextStatementMoves
  <2>2. CASE Stops(op.by)
    BY <1>0, <1>2, <2>2, StopsMoves
  <2> QED
    BY <1>4, <2>1, <2>2
<1> QED
  BY <1>2, <1>5 DEF op

\* Every step of r moves r alone.
LEMMA StepMoves ==
  ASSUME IInv, NEW r \in Runners,
         Start(r) \/ RunnerStep(r) \/ Fail(r) \/ FailAfterCommit(r)
  PROVE  MovesOnly(r)
<1>0. TypeOK /\ HasHighest /\ BeforeMineApplied /\ CurrentMeansRecorded
  BY DEF IInv
<1> USE DEF Goto, locals, database
<1>1. CASE Start(r)
  BY <1>0, <1>1 DEF Start, TypeOK, MovesOnly, Moved, Same
<1>2. CASE EnsureTable(r)
  BY <1>0, <1>2 DEF EnsureTable, TypeOK, MovesOnly, Moved, Same
<1>3. CASE GetVersion(r)
  <2>1. current'[r] \in versions \cup {0}
    <3> DEFINE v == CHOOSE x \in versions \cup {0} : \A w \in versions : w <= x
    <3>1. v \in versions \cup {0}
      BY <1>0, HighestFacts
    <3>2. current' = [current EXCEPT ![r] = v]
      BY <1>3, Zenon DEF GetVersion
    <3> HIDE DEF v
    <3> QED
      BY <1>0, <3>1, <3>2 DEF TypeOK
  <2>2. \A q \in Runners : q # r => current'[q] = current[q]
    BY <1>0, <1>3 DEF GetVersion, TypeOK
  <2> QED
    BY <1>0, <1>3, <2>1, <2>2 DEF GetVersion, TypeOK, MovesOnly, Moved, Same
<1>4. CASE SkipFile(r)
  <2>1. file[r] \in DOMAIN Files /\ Version(r) \in versions'
    BY <1>0, <1>4 DEF SkipFile, CurrentMeansRecorded, Recorded, Version
  <2> QED
    BY <1>0, <1>4, <2>1 DEF SkipFile, TypeOK, MovesOnly, Moved, Same
<1>5. CASE EnterFile(r)
  BY <1>0, <1>5 DEF EnterFile, TypeOK, MovesOnly, Moved, Same
<1>6. CASE SubmitDDL(r)
  BY <1>0, <1>6 DEF SubmitDDL, AtStatement, TypeOK, MovesOnly, Moved, Same
<1>7. CASE RunDML(r)
  BY <1>0, <1>7, TakesEffectGrows, NextStatementMoves DEF RunDML, AtStatement
<1>8. CASE RefusedDML(r) \/ RecordRefused(r) \/ Finish(r) \/ Fail(r) \/ FailAfterCommit(r)
  BY <1>0, <1>8, StopsMoves DEF RefusedDML, RecordRefused, Finish, Fail, FailAfterCommit
<1>9. CASE RecordVersion(r)
  <2>1. file[r] \in DOMAIN Files /\ Version(r) \in versions'
    BY <1>0, <1>9 DEF RecordVersion, AtEnd, BeforeMineApplied
  <2> QED
    BY <1>0, <1>9, <2>1 DEF RecordVersion, TypeOK, MovesOnly, Moved, Same
<1> QED
  BY <1>1, <1>2, <1>3, <1>4, <1>5, <1>6, <1>7, <1>8, <1>9 DEF RunnerStep

\* No step does anything else to any runner.
LEMMA AllMoved ==
  ASSUME IInv, [Next]_vars, NEW q \in Runners
  PROVE  Moved(q)
<1>1. CASE RunDDL
  <2>1. CASE Head(pending).by = Nobody
    BY <1>1, <2>1 DEF RunDDL, locals, Moved, Same
  <2>2. CASE Head(pending).by # Nobody
    BY <1>1, <2>2, RunDDLMoves DEF MovesOnly, Moved
  <2> QED
    BY <2>1, <2>2
<1>2. ASSUME NEW r \in Runners,
             Start(r) \/ RunnerStep(r) \/ Fail(r) \/ FailAfterCommit(r)
      PROVE  Moved(q)
  BY <1>2, StepMoves DEF MovesOnly, Moved
<1>3. CASE UNCHANGED vars
  BY <1>3 DEF vars, locals, Moved, Same
<1> QED
  BY <1>1, <1>2, <1>3 DEF Next

\* Statements stay applied behind a runner.
LEMMA NextBeforeMine == IInv /\ [Next]_vars => BeforeMineApplied'
<1> SUFFICES ASSUME IInv, [Next]_vars, NEW q \in Runners, pc'[q] \in {"file", "wait"}
             PROVE  /\ file'[q] \in DOMAIN Files
                    /\ \A s \in DOMAIN Files[file'[q]].stmts :
                         s < stmt'[q] => effects'[<<file'[q], s>>] > 0
  BY DEF BeforeMineApplied
<1>1. TypeOK /\ BeforeMineApplied /\ Moved(q)
  BY AllMoved DEF IInv
<1>2. \A i \in DOMAIN Files : \A s \in DOMAIN Files[i].stmts :
        effects[<<i, s>>] > 0 => effects'[<<i, s>>] > 0
  <2>1. TypeOK'
    BY NextType
  <2>2. ASSUME NEW i \in DOMAIN Files, NEW s \in DOMAIN Files[i].stmts
        PROVE  effects[<<i, s>>] > 0 => effects'[<<i, s>>] > 0
    <3>1. <<i, s>> \in AllStatements
      BY StatementFacts
    <3>2. effects[<<i, s>>] \in Nat /\ effects'[<<i, s>>] \in Nat
      BY <1>1, <2>1, <3>1 DEF TypeOK
    <3> QED
      BY <1>1, <3>1, <3>2, DatabaseGrows
  <2> QED
    BY <2>2
<1>3. stmt[q] \in Nat \ {0} /\ pc[q] \in Places
  BY <1>1 DEF TypeOK
<1>4. \A i \in DOMAIN Files : \A s \in DOMAIN Files[i].stmts : s \in Nat \ {0}
  BY FileFacts
<1>5. CASE pc[q] \in {"file", "wait"} /\ file'[q] = file[q] /\ stmt'[q] = stmt[q]
  BY <1>1, <1>2, <1>5 DEF BeforeMineApplied
<1>6. CASE stmt'[q] = 1 /\ file'[q] = file[q] /\ file[q] \in DOMAIN Files
  BY <1>4, <1>6
<1>7. CASE /\ pc[q] \in {"file", "wait"} /\ file'[q] = file[q]
           /\ stmt'[q] = stmt[q] + 1 /\ effects'[Here(q)] > 0
  <2>1. file[q] \in DOMAIN Files
    BY <1>1, <1>7 DEF BeforeMineApplied
  <2>2. \A s \in DOMAIN Files[file[q]].stmts : s < stmt[q] + 1 => s < stmt[q] \/ s = stmt[q]
    BY <1>3, <1>4, <2>1
  <2> QED
    BY <1>1, <1>2, <1>7, <2>1, <2>2 DEF BeforeMineApplied, Here
<1> QED
  BY <1>1, <1>5, <1>6, <1>7 DEF Moved, Same

\* What a runner has read stands for recorded files.
LEMMA NextCurrent == IInv /\ [Next]_vars => CurrentMeansRecorded'
<1> SUFFICES ASSUME IInv, [Next]_vars, NEW q \in Runners, NEW i \in DOMAIN Files,
                    Files[i].version <= current'[q]
             PROVE  Recorded(i)'
  BY DEF CurrentMeansRecorded
<1>1. TypeOK /\ CurrentMeansRecorded /\ NoGap /\ Moved(q)
  BY AllMoved DEF IInv
<1>2. CASE current'[q] = current[q]
  BY <1>1, <1>2, RecordedStays DEF CurrentMeansRecorded
<1>3. CASE current'[q] = 0
  BY <1>3, FileFacts
<1>4. CASE current'[q] \in versions
  <2>1. PICK j \in DOMAIN Files : current'[q] = Files[j].version
    BY <1>1, <1>4 DEF TypeOK
  <2>2. Recorded(j)
    BY <1>4, <2>1 DEF Recorded
  <2>3. i < j \/ i = j
    BY <2>1, FileFacts
  <2> QED
    BY <1>1, <2>2, <2>3, RecordedStays DEF NoGap
<1> QED
  BY <1>1, <1>2, <1>3, <1>4 DEF Moved, Same

\* A runner leaves only recorded files behind.
LEMMA NextBehind == IInv /\ [Next]_vars => BehindMeansRecorded'
<1> SUFFICES ASSUME IInv, [Next]_vars, NEW q \in Runners, NEW i \in DOMAIN Files,
                    i < file'[q]
             PROVE  Recorded(i)'
  BY DEF BehindMeansRecorded
<1>1. TypeOK /\ BehindMeansRecorded /\ Moved(q)
  BY AllMoved DEF IInv
<1>2. CASE file'[q] = file[q]
  BY <1>1, <1>2, RecordedStays DEF BehindMeansRecorded
<1>3. CASE file'[q] = 1
  BY <1>3, FileFacts
<1>4. CASE file'[q] = file[q] + 1 /\ Version(q) \in versions'
  <2>1. i < file[q] \/ i = file[q]
    BY <1>1, <1>4, FileFacts DEF TypeOK
  <2> QED
    BY <1>1, <1>4, <2>1, RecordedStays DEF BehindMeansRecorded, Recorded, Version
<1> QED
  BY <1>1, <1>2, <1>3, <1>4 DEF Moved, Same

(***************************************************************************)
(* The queue of Spanner.                                                   *)
(***************************************************************************)

\* A step of a runner that does not wait, and that leaves the queue alone.
LEMMA QueueUntouched ==
  ASSUME IInv, NEW r \in Runners, MovesOnly(r), pc[r] # "wait", UNCHANGED pending
  PROVE  WaitsForMine'
<1>1. WaitsForMine
  BY DEF IInv
<1>2. \A k \in DOMAIN pending : ~WaitedBy(r, k)
  BY <1>1 DEF WaitsForMine
<1>3. \A q \in Runners : q # r => pc'[q] = pc[q] /\ Here(q)' = Here(q)
  BY DEF MovesOnly, Same, Here
<1> QED
  BY <1>1, <1>2, <1>3 DEF WaitsForMine, WaitedBy

\* The entries of the queue and those who wait for them.
LEMMA NextWaits == IInv /\ [Next]_vars => WaitsForMine'
<1> SUFFICES ASSUME IInv, [Next]_vars PROVE WaitsForMine'
  OBVIOUS
<1>0. TypeOK /\ WaitsForMine /\ Nobody \notin Runners
  BY BoundFacts DEF IInv
<1>1. ASSUME NEW r \in Runners, SubmitDDL(r) PROVE WaitsForMine'
  <2> DEFINE o == [by |-> r, stmt |-> Here(r)]
  <2>1. pc[r] = "file" /\ o \in Operation /\ pending' = Append(pending, o)
    BY <1>1 DEF SubmitDDL, AtStatement, Operation
  <2>2. pc'[r] = "wait" /\ Here(r)' = Here(r) /\ o.by = r /\ o.stmt = Here(r)
    BY <1>0, <1>1 DEF SubmitDDL, Goto, TypeOK, Here, locals
  <2>3. \A q \in Runners : q # r => pc'[q] = pc[q] /\ Here(q)' = Here(q)
    BY <1>0, <1>1 DEF SubmitDDL, Goto, TypeOK, Here, locals
  <2>4. \A k \in DOMAIN pending : pending[k].by # r
    BY <1>0, <2>1 DEF WaitsForMine, WaitedBy
  <2>5. \A k \in DOMAIN pending' :
          \/ k \in DOMAIN pending /\ pending'[k] = pending[k]
          \/ k = Len(pending) + 1 /\ pending'[k] = o
    BY <1>0, <2>1, SubmitFacts
  <2> HIDE DEF o
  <2>6. ASSUME NEW q \in Runners, NEW k \in DOMAIN pending', pending'[k].by = q
        PROVE  /\ pc'[q] = "wait" /\ pending'[k].stmt = Here(q)'
               /\ q = r => k = Len(pending) + 1
               /\ q # r => WaitedBy(q, k)
    BY <1>0, <2>2, <2>3, <2>4, <2>5, <2>6 DEF WaitsForMine, WaitedBy
  <2> QED
    BY <1>0, <2>6 DEF WaitsForMine, WaitedBy
<1>2. ASSUME RunDDL PROVE WaitsForMine'
  <2> DEFINE op == Head(pending)
  <2>1. /\ op = pending[1] /\ 1 \in DOMAIN pending /\ op \in Operation
        /\ \A k \in DOMAIN pending' :
             k \in Nat /\ k + 1 \in DOMAIN pending /\ k + 1 # 1 /\ pending'[k] = pending[k + 1]
    BY <1>0, <1>2, QueueFacts DEF RunDDL
  <2>2. ASSUME NEW q \in Runners, NEW k \in DOMAIN pending', pending'[k].by = q
        PROVE  WaitedBy(q, k + 1) /\ q # op.by
    BY <1>0, <2>1, <2>2 DEF WaitsForMine, WaitedBy
  <2>3. ASSUME NEW q \in Runners, q # op.by
        PROVE  pc'[q] = pc[q] /\ Here(q)' = Here(q)
    <3>1. CASE op.by = Nobody
      BY <1>2, <3>1 DEF RunDDL, Here, locals
    <3>2. CASE op.by # Nobody
      BY <1>2, <2>3, <3>2, RunDDLMoves DEF MovesOnly, Same, Here
    <3> QED
      BY <3>1, <3>2
  <2> HIDE DEF op
  <2>4. ASSUME NEW q \in Runners, NEW k \in DOMAIN pending', pending'[k].by = q
        PROVE  pc'[q] = "wait" /\ pending'[k].stmt = Here(q)'
    BY <1>0, <2>1, <2>2, <2>3, <2>4 DEF WaitsForMine, WaitedBy
  <2>5. ASSUME NEW q \in Runners, NEW k \in DOMAIN pending', NEW l \in DOMAIN pending',
               pending'[k].by = q, pending'[l].by = q
        PROVE  k = l
    <3>1. k + 1 = l + 1
      BY <1>0, <2>1, <2>2, <2>5 DEF WaitsForMine
    <3> QED
      BY <2>1, <3>1
  <2> QED
    BY <2>4, <2>5 DEF WaitsForMine, WaitedBy
<1>3. ASSUME NEW r \in Runners, Fail(r) PROVE WaitsForMine'
  <2>1. /\ DOMAIN pending' = DOMAIN pending
        /\ \A k \in DOMAIN pending :
             /\ pending'[k].stmt = pending[k].stmt
             /\ pending'[k].by # r
             /\ \A q \in Runners : pending'[k].by = q => pending[k].by = q
    BY <1>0, <1>3, AbandonedFacts DEF Fail
  <2>2. MovesOnly(r)
    BY <1>3, StepMoves
  <2>3. \A q \in Runners : q # r => pc'[q] = pc[q] /\ Here(q)' = Here(q)
    BY <2>2 DEF MovesOnly, Same, Here
  <2> QED
    BY <1>0, <2>1, <2>3 DEF WaitsForMine, WaitedBy
<1>4. ASSUME NEW r \in Runners, Start(r) \/ RunnerStep(r) \/ FailAfterCommit(r), ~SubmitDDL(r)
      PROVE  WaitsForMine'
  <2>1. MovesOnly(r)
    BY <1>4, StepMoves
  <2>2. pc[r] # "wait" /\ UNCHANGED pending
    BY <1>4 DEF Start, RunnerStep, EnsureTable, GetVersion, SkipFile, EnterFile, RunDML,
                RefusedDML, RecordVersion, RecordRefused, Finish, FailAfterCommit,
                AtStatement, AtEnd, database
  <2> QED
    BY <2>1, <2>2, QueueUntouched
<1>5. CASE UNCHANGED vars
  BY <1>0, <1>5 DEF vars, database, locals, WaitsForMine, WaitedBy, Here
<1> QED
  BY <1>1, <1>2, <1>3, <1>4, <1>5 DEF Next

(***************************************************************************)
(* A statement takes effect at most once per run that found it missing.    *)
(***************************************************************************)

\* r has read a version below that of x's file, and has x still before it.
StillBefore(r, x) ==
  \/ file[r] < x[1]
  \/ /\ file[r] = x[1]
     /\ \/ pc[r] = "walk"
        \/ pc[r] = "file" /\ stmt[r] <= x[2]
        \/ pc[r] = "wait" /\ stmt[r] < x[2]

MayExecute(r, x) ==
  /\ pc[r] \in {"walk", "file", "wait"}
  /\ current[r] < Files[x[1]].version
  /\ StillBefore(r, x)

Candidates(x) == {r \in Runners : MayExecute(r, x)}
Queued(x) == {k \in DOMAIN pending : pending[k].stmt = x}

\* What has happened, what Spanner has accepted and what may still be asked of it.
WithinRuns(x) ==
  /\ IsFiniteSet(Candidates(x)) /\ IsFiniteSet(Queued(x))
  /\ effects[x] + Cardinality(Queued(x)) + Cardinality(Candidates(x)) <= unaware[x[1]]

\* A runner is within a file only if that is newer than what it has read.
WithinNewer == \A r \in Runners : pc[r] \in {"file", "wait"} => current[r] < Version(r)

Budget == WithinNewer /\ \A x \in AllStatements : WithinRuns(x)

\* Nobody has read anything yet.
LEMMA InitBudget == Init => Budget
<1> SUFFICES ASSUME Init PROVE Budget
  OBVIOUS
<1>1. WithinNewer
  BY DEF Init, WithinNewer
<1>2. ASSUME NEW x \in AllStatements PROVE WithinRuns(x)
  <2>1. Candidates(x) = {} /\ Queued(x) = {}
    BY DEF Init, Candidates, Queued, MayExecute
  <2>2. effects[x] = 0 /\ unaware[x[1]] = 0
    BY StatementsOfFacts DEF Init, AllStatements, StatementsOf
  <2> QED
    BY <2>1, <2>2, FS_EmptySet DEF WithinRuns
<1> QED
  BY <1>1, <1>2 DEF Budget

\* The types of what is kept for a statement.
LEMMA StatementTypes ==
  ASSUME TypeOK, NEW x \in AllStatements
  PROVE  /\ x[1] \in DOMAIN Files /\ x[1] \in Nat \ {0} /\ x[2] \in Nat \ {0}
         /\ Files[x[1]].version \in Nat \ {0}
         /\ effects[x] \in Nat /\ unaware[x[1]] \in Nat
<1>1. PICK i \in DOMAIN Files : x \in StatementsOf(i)
  BY DEF AllStatements
<1>2. PICK s \in DOMAIN Files[i].stmts : x = <<i, s>>
  BY <1>1, StatementsOfFacts
<1>3. i \in Nat \ {0} /\ Files[i].version \in Nat \ {0} /\ s \in Nat \ {0}
  BY FileFacts
<1> QED
  BY <1>2, <1>3 DEF TypeOK

\* A runner comes within reach of x only by reading that x's file is not recorded.
LEMMA NewCandidate ==
  ASSUME IInv, [Next]_vars, NEW x \in AllStatements, NEW q \in Runners,
         MayExecute(q, x)', ~MayExecute(q, x)
  PROVE  GetVersion(q) /\ ~Recorded(x[1])
<1>0. TypeOK /\ HasHighest /\ WaitsForMine
  BY DEF IInv
<1>1. /\ x[1] \in Nat \ {0} /\ x[2] \in Nat \ {0} /\ x[1] \in DOMAIN Files
      /\ current[q] \in Nat /\ file[q] \in Nat \ {0} /\ stmt[q] \in Nat \ {0}
  BY <1>0, StatementTypes DEF TypeOK
<1>2. ASSUME Same(q) PROVE FALSE
  BY <1>2 DEF Same, MayExecute, StillBefore
<1>3. ASSUME pc'[q] \in {"idle", "table", "version"} PROVE FALSE
  BY <1>3 DEF MayExecute
<1>4. ASSUME pc[q] \in {"file", "wait"}, NextStatement(q) PROVE FALSE
  BY <1>0, <1>1, <1>4 DEF NextStatement, Goto, TypeOK, MayExecute, StillBefore
<1>5. CASE RunDDL
  <2>1. CASE Head(pending).by = q
    <3>1. Head(pending).by # Nobody
      BY <2>1, BoundFacts
    <3>2. NextStatement(q) \/ Stops(q)
      BY <1>5, <2>1, <3>1 DEF RunDDL
    <3>3. pc[q] = "wait"
      BY <1>0, <1>5, <2>1, QueueFacts DEF RunDDL, WaitsForMine, WaitedBy
    <3> QED
      BY <1>0, <1>3, <1>4, <3>2, <3>3, StopsMoves
  <2>2. CASE Head(pending).by # q
    <3>1. Same(q)
      BY <1>5, <2>2, RunDDLMoves DEF RunDDL, MovesOnly, Same, locals
    <3> QED
      BY <1>2, <3>1
  <2> QED
    BY <2>1, <2>2
<1>6. ASSUME NEW r \in Runners, r # q,
             Start(r) \/ RunnerStep(r) \/ Fail(r) \/ FailAfterCommit(r)
      PROVE  FALSE
  BY <1>2, <1>6, StepMoves DEF MovesOnly
<1>7. CASE Start(q) \/ EnsureTable(q)
  BY <1>0, <1>3, <1>7 DEF Start, EnsureTable, Goto, TypeOK
<1>8. CASE GetVersion(q)
  <2> DEFINE v == CHOOSE w \in versions \cup {0} : \A z \in versions : z <= w
  <2>1. \A z \in versions : z <= v
    BY <1>0, HighestFacts
  <2>2. current' = [current EXCEPT ![q] = v]
    BY <1>8, Zenon DEF GetVersion
  <2> HIDE DEF v
  <2>3. v < Files[x[1]].version
    BY <1>0, <2>2 DEF TypeOK, MayExecute
  <2>4. v \in versions \cup {0}
    BY <1>0, HighestFacts DEF v
  <2>5. v \in Nat /\ Files[x[1]].version \in Nat
    BY <1>0, <2>4, StatementTypes, VersionsAreNumbers
  <2>6. Files[x[1]].version \notin versions
    BY <2>1, <2>3, <2>5
  <2> QED
    BY <1>8, <2>6 DEF Recorded
<1>9. CASE SkipFile(q)
  BY <1>0, <1>1, <1>9 DEF SkipFile, TypeOK, MayExecute, StillBefore, Version
<1>10. CASE EnterFile(q)
  BY <1>0, <1>1, <1>10 DEF EnterFile, Goto, TypeOK, MayExecute, StillBefore
<1>11. CASE SubmitDDL(q)
  BY <1>0, <1>1, <1>11 DEF SubmitDDL, AtStatement, Goto, locals, TypeOK, MayExecute, StillBefore
<1>12. CASE RunDML(q)
  BY <1>4, <1>12 DEF RunDML, AtStatement
<1>13. CASE RecordVersion(q)
  BY <1>0, <1>1, <1>13 DEF RecordVersion, AtEnd, Goto, TypeOK, MayExecute, StillBefore
<1>14. CASE RefusedDML(q) \/ RecordRefused(q) \/ Finish(q) \/ Fail(q) \/ FailAfterCommit(q)
  BY <1>0, <1>3, <1>14, StopsMoves DEF RefusedDML, RecordRefused, Finish, Fail, FailAfterCommit
<1>15. CASE UNCHANGED vars
  BY <1>2, <1>15 DEF vars, locals, Same
<1> QED
  BY <1>5, <1>6, <1>7, <1>8, <1>9, <1>10, <1>11, <1>12, <1>13, <1>14, <1>15
     DEF Next, RunnerStep

\* A finite set with one element more.
LEMMA OneMore ==
  ASSUME NEW S, IsFiniteSet(S), NEW e
  PROVE  /\ IsFiniteSet(S \cup {e})
         /\ Cardinality(S) \in Nat /\ Cardinality(S \cup {e}) \in Nat
         /\ Cardinality(S \cup {e}) <= Cardinality(S) + 1
<1>1. Cardinality(S) \in Nat
  BY FS_CardinalityType
<1> DEFINE T == S \cup {e}
<1>2. IsFiniteSet(T) /\ Cardinality(T) = IF e \in S THEN Cardinality(S) ELSE Cardinality(S) + 1
  BY FS_AddElement, Zenon
<1> HIDE DEF T
<1>3. Cardinality(T) \in Nat /\ Cardinality(T) <= Cardinality(S) + 1
  BY <1>1, <1>2
<1> QED
  BY <1>1, <1>2, <1>3 DEF T

\* A finite set with one element less.
LEMMA OneLess ==
  ASSUME NEW S, IsFiniteSet(S), NEW e
  PROVE  /\ IsFiniteSet(S \ {e})
         /\ Cardinality(S) \in Nat /\ Cardinality(S \ {e}) \in Nat
         /\ Cardinality(S \ {e}) <= Cardinality(S)
         /\ e \in S => Cardinality(S \ {e}) + 1 = Cardinality(S)
<1> DEFINE T == S \ {e}
<1>1. IsFiniteSet(T) /\ Cardinality(T) = IF e \in S THEN Cardinality(S) - 1 ELSE Cardinality(S)
  BY FS_RemoveElement, Zenon
<1> HIDE DEF T
<1>2. Cardinality(S) \in Nat /\ Cardinality(T) \in Nat
  BY <1>1, FS_CardinalityType
<1>3. Cardinality(T) <= Cardinality(S) /\ (e \in S => Cardinality(T) + 1 = Cardinality(S))
  BY <1>1, <1>2
<1> QED
  BY <1>1, <1>2, <1>3 DEF T

\* The candidates of x after a step that brings nobody within reach of x.
LEMMA FewerCandidates ==
  ASSUME NEW x, IsFiniteSet(Candidates(x)),
         \A q \in Runners : MayExecute(q, x)' => MayExecute(q, x)
  PROVE  /\ IsFiniteSet(Candidates(x)')
         /\ Cardinality(Candidates(x)') <= Cardinality(Candidates(x))
         /\ Cardinality(Candidates(x)) \in Nat /\ Cardinality(Candidates(x)') \in Nat
<1>1. Candidates(x)' \in SUBSET Candidates(x)
  BY DEF Candidates
<1>2. IsFiniteSet(Candidates(x)')
  BY <1>1, FS_Subset
<1> QED
  BY <1>1, <1>2, FS_Subset, FS_CardinalityType

\* One candidate less when r has had its chance.
LEMMA OneCandidateLess ==
  ASSUME NEW x, IsFiniteSet(Candidates(x)),
         \A q \in Runners : MayExecute(q, x)' => MayExecute(q, x),
         NEW r \in Runners, MayExecute(r, x), ~MayExecute(r, x)'
  PROVE  /\ IsFiniteSet(Candidates(x)')
         /\ Cardinality(Candidates(x)') + 1 <= Cardinality(Candidates(x))
         /\ Cardinality(Candidates(x)) \in Nat /\ Cardinality(Candidates(x)') \in Nat
<1> DEFINE rest == Candidates(x) \ {r}
<1>1. Candidates(x)' \in SUBSET rest
  BY DEF Candidates
<1>2. r \in Candidates(x)
  BY DEF Candidates
<1>3. IsFiniteSet(rest) /\ Cardinality(rest) + 1 = Cardinality(Candidates(x))
      /\ Cardinality(rest) \in Nat
  BY <1>2, OneLess
<1> HIDE DEF rest
<1>4. IsFiniteSet(Candidates(x)') /\ Cardinality(Candidates(x)') <= Cardinality(rest)
  BY <1>1, <1>3, FS_Subset
<1>5. Cardinality(Candidates(x)) \in Nat /\ Cardinality(Candidates(x)') \in Nat
  BY <1>4, FS_CardinalityType
<1> QED
  BY <1>3, <1>4, <1>5

\* At most one candidate more when only r can have come within reach.
LEMMA OneCandidateMore ==
  ASSUME NEW x, IsFiniteSet(Candidates(x)), NEW r \in Runners,
         \A q \in Runners : q # r /\ MayExecute(q, x)' => MayExecute(q, x)
  PROVE  /\ IsFiniteSet(Candidates(x)')
         /\ Cardinality(Candidates(x)') <= Cardinality(Candidates(x)) + 1
         /\ Cardinality(Candidates(x)) \in Nat /\ Cardinality(Candidates(x)') \in Nat
<1> DEFINE more == Candidates(x) \cup {r}
<1>1. Candidates(x)' \in SUBSET more
  BY DEF Candidates
<1>2. Cardinality(Candidates(x)) \in Nat
  BY FS_CardinalityType
<1>3. IsFiniteSet(more) /\ Cardinality(more) <= Cardinality(Candidates(x)) + 1
      /\ Cardinality(more) \in Nat
  BY OneMore
<1> HIDE DEF more
<1>4. IsFiniteSet(Candidates(x)') /\ Cardinality(Candidates(x)') <= Cardinality(more)
  BY <1>1, <1>3, FS_Subset
<1>5. Cardinality(Candidates(x)') \in Nat
  BY <1>4, FS_CardinalityType
<1> QED
  BY <1>2, <1>3, <1>4, <1>5

\* Accepting an operation queues its own statement once more, and no other.
LEMMA QueuedSubmit ==
  ASSUME TypeOK, NEW x, IsFiniteSet(Queued(x)), NEW o \in Operation,
         pending' = Append(pending, o)
  PROVE  /\ IsFiniteSet(Queued(x)')
         /\ Cardinality(Queued(x)') <= Cardinality(Queued(x)) + 1
         /\ o.stmt # x => Cardinality(Queued(x)') <= Cardinality(Queued(x))
         /\ Cardinality(Queued(x)) \in Nat /\ Cardinality(Queued(x)') \in Nat
<1> DEFINE more == Queued(x) \cup {Len(pending) + 1}
<1>1. Cardinality(Queued(x)) \in Nat
  BY FS_CardinalityType
<1>2. IsFiniteSet(more) /\ Cardinality(more) <= Cardinality(Queued(x)) + 1
      /\ Cardinality(more) \in Nat
  BY OneMore
<1>3. /\ Queued(x)' \in SUBSET more
      /\ o.stmt # x => Queued(x)' \in SUBSET Queued(x)
  BY SubmitFacts DEF Queued
<1> HIDE DEF more
<1>4. IsFiniteSet(Queued(x)') /\ Cardinality(Queued(x)') <= Cardinality(more)
  BY <1>2, <1>3, FS_Subset
<1>5. o.stmt # x => Cardinality(Queued(x)') <= Cardinality(Queued(x))
  BY <1>3, FS_Subset
<1>6. Cardinality(Queued(x)') \in Nat
  BY <1>4, FS_CardinalityType
<1> QED
  BY <1>1, <1>2, <1>4, <1>5, <1>6

\* Executing the oldest operation takes it out of the queue.
LEMMA QueuedRun ==
  ASSUME TypeOK, NEW x, IsFiniteSet(Queued(x)), pending # <<>>, pending' = Tail(pending)
  PROVE  /\ IsFiniteSet(Queued(x)')
         /\ Cardinality(Queued(x)') <= Cardinality(Queued(x))
         /\ Head(pending).stmt = x => Cardinality(Queued(x)') + 1 <= Cardinality(Queued(x))
         /\ Cardinality(Queued(x)) \in Nat /\ Cardinality(Queued(x)') \in Nat
<1> DEFINE rest == Queued(x) \ {1}
           shift == [k \in Queued(x)' |-> k + 1]
<1>1. Cardinality(Queued(x)) \in Nat
  BY FS_CardinalityType
<1>2. /\ IsFiniteSet(rest) /\ Cardinality(rest) \in Nat
      /\ Cardinality(rest) <= Cardinality(Queued(x))
      /\ 1 \in Queued(x) => Cardinality(rest) + 1 = Cardinality(Queued(x))
  BY OneLess
<1>3. /\ Head(pending) = pending[1] /\ 1 \in DOMAIN pending
      /\ \A k \in DOMAIN pending' :
           k \in Nat /\ k + 1 \in DOMAIN pending /\ k + 1 # 1 /\ pending'[k] = pending[k + 1]
  BY QueueFacts
<1>4. \A k \in Queued(x)' : k \in Nat /\ k + 1 \in rest
  BY <1>3 DEF Queued
<1>5. Head(pending).stmt = x => 1 \in Queued(x)
  BY <1>3 DEF Queued
<1> HIDE DEF rest
<1>6. shift \in Injection(Queued(x)', rest)
  BY <1>4 DEF Injection, IsInjective
<1> HIDE DEF shift
<1>7. IsFiniteSet(Queued(x)') /\ Cardinality(Queued(x)') <= Cardinality(rest)
  BY <1>2, <1>6, FS_Injection
<1>8. Cardinality(Queued(x)') \in Nat
  BY <1>7, FS_CardinalityType
<1> QED
  BY <1>1, <1>2, <1>5, <1>7, <1>8

\* A queue with the same statements, whoever waits for them.
LEMMA QueuedSame ==
  ASSUME NEW x, DOMAIN pending' = DOMAIN pending,
         \A k \in DOMAIN pending : pending'[k].stmt = pending[k].stmt
  PROVE  Queued(x)' = Queued(x)
BY DEF Queued

\* While no run reads the version without finding x's file, x gets no candidate.
LEMMA NobodyNew ==
  ASSUME IInv, [Next]_vars, NEW x \in AllStatements, unaware'[x[1]] = unaware[x[1]]
  PROVE  \A q \in Runners : MayExecute(q, x)' => MayExecute(q, x)
<1> SUFFICES ASSUME NEW q \in Runners, MayExecute(q, x)', ~MayExecute(q, x) PROVE FALSE
  OBVIOUS
<1>1. GetVersion(q) /\ ~Recorded(x[1])
  BY NewCandidate
<1>2. x[1] \in DOMAIN Files /\ unaware[x[1]] \in Nat
  BY StatementTypes DEF IInv
<1> QED
  BY <1>1, <1>2 DEF GetVersion, Recorded

\* A step that leaves x alone in the database.
LEMMA BudgetIdle ==
  ASSUME IInv, [Next]_vars, NEW x \in AllStatements, WithinRuns(x),
         effects'[x] = effects[x], unaware'[x[1]] = unaware[x[1]], Queued(x)' = Queued(x)
  PROVE  WithinRuns(x)'
<1>1. effects[x] \in Nat /\ unaware[x[1]] \in Nat
  BY StatementTypes DEF IInv
<1>2. /\ IsFiniteSet(Candidates(x)')
      /\ Cardinality(Candidates(x)') <= Cardinality(Candidates(x))
      /\ Cardinality(Candidates(x)) \in Nat /\ Cardinality(Candidates(x)') \in Nat
  BY NobodyNew, FewerCandidates DEF WithinRuns
<1>3. IsFiniteSet(Queued(x)) /\ Cardinality(Queued(x)) \in Nat
  BY FS_CardinalityType DEF WithinRuns
<1> QED
  BY <1>1, <1>2, <1>3 DEF WithinRuns

\* r reads the version: one candidate more for a file that is not recorded, and
\* one run more that is unaware of it.
LEMMA BudgetRead ==
  ASSUME IInv, [Next]_vars, NEW x \in AllStatements, WithinRuns(x),
         NEW r \in Runners, GetVersion(r)
  PROVE  WithinRuns(x)'
<1>1. x[1] \in DOMAIN Files /\ effects[x] \in Nat /\ unaware[x[1]] \in Nat
  BY StatementTypes DEF IInv
<1>2. effects' = effects /\ Queued(x)' = Queued(x)
  BY DEF GetVersion, database, Queued
<1>3. unaware'[x[1]] = IF Recorded(x[1]) THEN unaware[x[1]] ELSE unaware[x[1]] + 1
  BY <1>1 DEF GetVersion, Recorded
<1>4. CASE Recorded(x[1])
  BY <1>2, <1>3, <1>4, BudgetIdle
<1>5. CASE ~Recorded(x[1])
  <2>1. \A q \in Runners : q # r /\ MayExecute(q, x)' => MayExecute(q, x)
    BY StepMoves DEF RunnerStep, MovesOnly, Same, MayExecute, StillBefore
  <2>2. /\ IsFiniteSet(Candidates(x)')
        /\ Cardinality(Candidates(x)') <= Cardinality(Candidates(x)) + 1
        /\ Cardinality(Candidates(x)) \in Nat /\ Cardinality(Candidates(x)') \in Nat
    BY <2>1, OneCandidateMore DEF WithinRuns
  <2>3. IsFiniteSet(Queued(x)) /\ Cardinality(Queued(x)) \in Nat
    BY FS_CardinalityType DEF WithinRuns
  <2> QED
    BY <1>1, <1>2, <1>3, <1>5, <2>2, <2>3 DEF WithinRuns
<1> QED
  BY <1>4, <1>5

\* r asks Spanner for its statement: a candidate less, an operation more.
LEMMA BudgetSubmit ==
  ASSUME IInv, WithinNewer, [Next]_vars, NEW x \in AllStatements, WithinRuns(x),
         NEW r \in Runners, SubmitDDL(r)
  PROVE  WithinRuns(x)'
<1> DEFINE o == [by |-> r, stmt |-> Here(r)]
<1>0. TypeOK
  BY DEF IInv
<1>1. effects[x] \in Nat /\ unaware[x[1]] \in Nat /\ file[r] \in Nat /\ stmt[r] \in Nat
  BY <1>0, StatementTypes DEF TypeOK
<1>2. effects' = effects /\ unaware' = unaware
  BY DEF SubmitDDL
<1>3. o \in Operation /\ o.stmt = Here(r) /\ pending' = Append(pending, o)
  BY DEF SubmitDDL, AtStatement, Operation
<1> HIDE DEF o
<1>4. /\ IsFiniteSet(Queued(x)')
      /\ Cardinality(Queued(x)') <= Cardinality(Queued(x)) + 1
      /\ o.stmt # x => Cardinality(Queued(x)') <= Cardinality(Queued(x))
      /\ Cardinality(Queued(x)) \in Nat /\ Cardinality(Queued(x)') \in Nat
  BY <1>0, <1>3, QueuedSubmit DEF WithinRuns
<1>5. \A q \in Runners : MayExecute(q, x)' => MayExecute(q, x)
  BY <1>2, NobodyNew
<1>6. /\ IsFiniteSet(Candidates(x)')
      /\ Cardinality(Candidates(x)') <= Cardinality(Candidates(x))
      /\ Cardinality(Candidates(x)) \in Nat /\ Cardinality(Candidates(x)') \in Nat
  BY <1>5, FewerCandidates DEF WithinRuns
<1>7. CASE x = Here(r)
  <2>1. pc[r] = "file" /\ pc'[r] = "wait" /\ file'[r] = file[r] /\ stmt'[r] = stmt[r]
    BY <1>0 DEF SubmitDDL, AtStatement, Goto, locals, TypeOK
  <2>2. x[1] = file[r] /\ x[2] = stmt[r]
    BY <1>7 DEF Here
  <2>3. MayExecute(r, x)
    BY <1>1, <2>1, <2>2 DEF WithinNewer, MayExecute, StillBefore, Version
  <2>4. ~MayExecute(r, x)'
    BY <1>1, <2>1, <2>2 DEF MayExecute, StillBefore
  <2>5. Cardinality(Candidates(x)') + 1 <= Cardinality(Candidates(x))
    BY <1>5, <2>3, <2>4, OneCandidateLess DEF WithinRuns
  <2> QED
    BY <1>1, <1>2, <1>4, <1>6, <2>5 DEF WithinRuns
<1>8. CASE x # Here(r)
  <2>1. Cardinality(Queued(x)') <= Cardinality(Queued(x))
    BY <1>3, <1>4, <1>8
  <2>2. effects[x] + Cardinality(Queued(x)) + Cardinality(Candidates(x)) <= unaware[x[1]]
    BY DEF WithinRuns
  <2>3. effects[x] + Cardinality(Queued(x)') + Cardinality(Candidates(x)') <= unaware[x[1]]
    BY <1>1, <1>4, <1>6, <2>1, <2>2
  <2> QED
    BY <1>2, <1>4, <1>6, <2>3 DEF WithinRuns
<1> QED
  BY <1>7, <1>8

\* Spanner executes the oldest operation: one less, and one effect more at most.
LEMMA BudgetRun ==
  ASSUME IInv, [Next]_vars, NEW x \in AllStatements, WithinRuns(x), RunDDL
  PROVE  WithinRuns(x)'
<1>0. TypeOK
  BY DEF IInv
<1>1. effects[x] \in Nat /\ unaware[x[1]] \in Nat
  BY <1>0, StatementTypes
<1>2. pending # <<>> /\ pending' = Tail(pending) /\ unaware' = unaware
  BY DEF RunDDL
<1>3. /\ IsFiniteSet(Queued(x)')
      /\ Cardinality(Queued(x)') <= Cardinality(Queued(x))
      /\ Head(pending).stmt = x => Cardinality(Queued(x)') + 1 <= Cardinality(Queued(x))
      /\ Cardinality(Queued(x)) \in Nat /\ Cardinality(Queued(x)') \in Nat
  BY <1>0, <1>2, QueuedRun DEF WithinRuns
<1>4. /\ IsFiniteSet(Candidates(x)')
      /\ Cardinality(Candidates(x)') <= Cardinality(Candidates(x))
      /\ Cardinality(Candidates(x)) \in Nat /\ Cardinality(Candidates(x)') \in Nat
  BY <1>2, NobodyNew, FewerCandidates DEF WithinRuns
<1>5. \/ effects'[x] = effects[x]
      \/ Head(pending).stmt = x /\ effects'[x] = effects[x] + 1
  <2>1. effects' = effects \/ TakesEffect(Head(pending).stmt)
    BY DEF RunDDL
  <2> QED
    BY <1>0, <2>1 DEF TakesEffect, TypeOK
<1>6. PICK q \in Nat, p \in Nat, c \in Nat, d \in Nat :
        /\ q = Cardinality(Queued(x)) /\ p = Cardinality(Queued(x)')
        /\ c = Cardinality(Candidates(x)) /\ d = Cardinality(Candidates(x)')
  BY <1>3, <1>4
<1>7. p <= q /\ d <= c /\ (Head(pending).stmt = x => p + 1 <= q)
  BY <1>3, <1>4, <1>6
<1>8. PICK n \in Nat, u \in Nat : n = effects[x] /\ u = unaware[x[1]] /\ n + q + c <= u
  BY <1>1, <1>6 DEF WithinRuns
<1>9. effects'[x] + p + d <= unaware'[x[1]]
  <2>1. unaware'[x[1]] = u
    BY <1>2, <1>8
  <2>2. CASE effects'[x] = effects[x]
    <3>1. effects'[x] = n
      BY <1>8, <2>2
    <3>2. n + p + d <= u
      BY <1>7, <1>8
    <3> QED
      BY <2>1, <3>1, <3>2
  <2>3. CASE Head(pending).stmt = x /\ effects'[x] = effects[x] + 1
    <3>1. effects'[x] = n + 1
      BY <1>8, <2>3
    <3>2. (n + 1) + p + d <= u
      BY <1>7, <1>8, <2>3
    <3> QED
      BY <2>1, <3>1, <3>2
  <2> QED
    BY <1>5, <2>2, <2>3
<1> QED
  BY <1>3, <1>4, <1>6, <1>9 DEF WithinRuns

\* r has the database execute its statement: a candidate less, an effect more.
LEMMA BudgetExecute ==
  ASSUME IInv, WithinNewer, [Next]_vars, NEW x \in AllStatements, WithinRuns(x),
         NEW r \in Runners, pc[r] = "file", TakesEffect(Here(r)),
         pc'[r] = "idle" \/ NextStatement(r),
         pending' = pending, unaware' = unaware
  PROVE  WithinRuns(x)'
<1>0. TypeOK
  BY DEF IInv
<1>1. effects[x] \in Nat /\ unaware[x[1]] \in Nat /\ file[r] \in Nat /\ stmt[r] \in Nat
  BY <1>0, StatementTypes DEF TypeOK
<1>2. Queued(x)' = Queued(x)
  BY DEF Queued
<1>3. CASE x = Here(r)
  <2>1. x[1] = file[r] /\ x[2] = stmt[r]
    BY <1>3 DEF Here
  <2>2. MayExecute(r, x)
    BY <1>1, <2>1 DEF WithinNewer, MayExecute, StillBefore, Version
  <2>3. ~MayExecute(r, x)'
    BY <1>0, <1>1, <2>1 DEF MayExecute, StillBefore, NextStatement, Goto, TypeOK
  <2>4. /\ IsFiniteSet(Candidates(x)')
        /\ Cardinality(Candidates(x)') + 1 <= Cardinality(Candidates(x))
        /\ Cardinality(Candidates(x)) \in Nat /\ Cardinality(Candidates(x)') \in Nat
    BY <2>2, <2>3, NobodyNew, OneCandidateLess DEF WithinRuns
  <2>5. effects'[x] = effects[x] + 1
    BY <1>0, <1>3 DEF TakesEffect, TypeOK
  <2>6. IsFiniteSet(Queued(x)) /\ Cardinality(Queued(x)) \in Nat
    BY FS_CardinalityType DEF WithinRuns
  <2> QED
    BY <1>1, <1>2, <2>4, <2>5, <2>6 DEF WithinRuns
<1>4. CASE x # Here(r)
  <2>1. effects'[x] = effects[x]
    BY <1>0, <1>4 DEF TakesEffect, TypeOK
  <2> QED
    BY <1>2, <2>1, BudgetIdle
<1> QED
  BY <1>3, <1>4

\* Every step keeps within the runs that found the file missing.
LEMMA NextBudget == IInv /\ Budget /\ [Next]_vars => Budget'
<1> SUFFICES ASSUME IInv, Budget, [Next]_vars PROVE Budget'
  OBVIOUS
<1>0. TypeOK /\ WithinNewer
  BY DEF IInv, Budget
<1>1. WithinNewer'
  <2> SUFFICES ASSUME NEW q \in Runners, pc'[q] \in {"file", "wait"}
               PROVE  current'[q] < Version(q)'
    BY DEF WithinNewer
  <2> QED
    BY <1>0, AllMoved DEF Moved, Same, WithinNewer, Version
<1>2. ASSUME NEW x \in AllStatements PROVE WithinRuns(x)'
  <2>0. WithinRuns(x)
    BY DEF Budget
  <2>1. CASE RunDDL
    BY <2>0, <2>1, BudgetRun
  <2>2. ASSUME NEW r \in Runners, GetVersion(r) PROVE WithinRuns(x)'
    BY <2>0, <2>2, BudgetRead
  <2>3. ASSUME NEW r \in Runners, SubmitDDL(r) PROVE WithinRuns(x)'
    BY <1>0, <2>0, <2>3, BudgetSubmit
  <2>4. ASSUME NEW r \in Runners, RunDML(r) PROVE WithinRuns(x)'
    BY <1>0, <2>0, <2>4, BudgetExecute DEF RunDML, AtStatement
  <2>5. ASSUME NEW r \in Runners, FailAfterCommit(r) PROVE WithinRuns(x)'
    <3>1. pc'[r] = "idle" /\ pc[r] = "file" /\ UNCHANGED <<pending, unaware>>
      BY <1>0, <2>5, StopsMoves DEF FailAfterCommit, AtStatement, AtEnd
    <3>2. CASE TakesEffect(Here(r))
      BY <1>0, <2>0, <3>1, <3>2, BudgetExecute
    <3>3. CASE UNCHANGED effects
      BY <2>0, <3>1, <3>3, BudgetIdle, QueuedSame
    <3> QED
      BY <2>5, <3>2, <3>3 DEF FailAfterCommit
  <2>6. ASSUME NEW r \in Runners, Fail(r) PROVE WithinRuns(x)'
    <3>1. Queued(x)' = Queued(x)
      BY <1>0, <2>6, AbandonedFacts, QueuedSame DEF Fail
    <3> QED
      BY <2>0, <2>6, <3>1, BudgetIdle DEF Fail
  <2>7. ASSUME NEW r \in Runners,
               \/ Start(r) \/ EnsureTable(r) \/ SkipFile(r) \/ EnterFile(r) \/ RefusedDML(r)
               \/ RecordVersion(r) \/ RecordRefused(r) \/ Finish(r)
        PROVE  WithinRuns(x)'
    <3>1. UNCHANGED <<effects, pending, unaware>>
      BY <2>7 DEF Start, EnsureTable, SkipFile, EnterFile, RefusedDML, RecordVersion,
                  RecordRefused, Finish, database
    <3> QED
      BY <2>0, <3>1, BudgetIdle, QueuedSame
  <2>8. CASE UNCHANGED vars
    BY <2>0, <2>8, BudgetIdle, QueuedSame DEF vars, database
  <2> QED
    BY <2>1, <2>2, <2>3, <2>4, <2>5, <2>6, <2>7, <2>8 DEF Next, RunnerStep
<1> QED
  BY <1>1, <1>2 DEF Budget

(***************************************************************************)
(* The theorems.                                                           *)
(***************************************************************************)

\* Every reachable state satisfies the inductive invariant.
LEMMA Invariant == Spec => []IInv
<1>1. IInv /\ [Next]_vars => IInv'
  BY NextType, NextHighest, NextBeforeMine, NextWaits, NextCurrent, NextRecorded, NextBehind
     DEF IInv
<1> QED
  BY <1>1, InitInv, PTL DEF Spec

\* The variables of Migrate and of the database keep their types.
THEOREM TypeCorrect == Spec => []TypeOK
BY Invariant, PTL DEF IInv

\* However many processes run Migrate, fail, crash and start again: a version in
\* schema_migrations means that all of its file's statements have taken effect.
THEOREM RecordedMeansAppliedTheorem == Spec => []RecordedMeansApplied
BY Invariant, PTL DEF IInv

\* Versions are recorded without gaps, so that GetCurrentVersion may stand for
\* all files below it.
THEOREM NoGapTheorem == Spec => []NoGap
BY Invariant, PTL DEF IInv

\* A runner that goes on to a file has all files before it recorded.
THEOREM BehindMeansRecordedTheorem == Spec => []BehindMeansRecorded
BY Invariant, PTL DEF IInv

\* A statement takes effect at most once per call of Migrate that found its file
\* unrecorded: whatever crashes, overlaps or is abandoned in Spanner's queue, a
\* call that reads a version at or above the file's never executes it again.
THEOREM AtMostOnceTheorem == Spec => []AtMostOncePerUnawareRun
<1>1. IInv /\ Budget => AtMostOncePerUnawareRun
  <2> SUFFICES ASSUME IInv, Budget, NEW x \in AllStatements
               PROVE  effects[x] + Cardinality(Queued(x)) <= unaware[x[1]]
    BY DEF AtMostOncePerUnawareRun, Queued
  <2>1. effects[x] \in Nat /\ unaware[x[1]] \in Nat
    BY StatementTypes DEF IInv
  <2>2. Cardinality(Queued(x)) \in Nat /\ Cardinality(Candidates(x)) \in Nat
    BY FS_CardinalityType DEF Budget, WithinRuns
  <2> QED
    BY <2>1, <2>2 DEF Budget, WithinRuns
<1> QED
  BY <1>1, Invariant, InitBudget, NextBudget, PTL DEF Spec

(***************************************************************************)
(* The parser, for files of any length.                                    *)
(***************************************************************************)

\* A set of natural numbers has a least element.
LEMMA Least ==
  ASSUME NEW S, S \subseteq Nat, S # {}
  PROVE  \E x \in S : \A y \in S : x <= y
<1>1. PICK x \in S : \A y \in S : ~ (<<y, x>> \in OpToRel(<, Nat))
  BY NatLessThanWellFounded, WFMin
<1>2. ASSUME NEW y \in S PROVE x <= y
  <2>1. x \in Nat /\ y \in Nat
    OBVIOUS
  <2>2. ~ (y < x)
    <3>1. <<y, x>> \in Nat \X Nat /\ <<y, x>>[1] = y /\ <<y, x>>[2] = x
      BY <2>1
    <3> QED
      BY <1>1, <3>1 DEF OpToRel
  <2> QED
    BY <2>1, <2>2
<1> QED
  BY <1>2

\* A set of bounded natural numbers has a greatest element.
LEMMA Greatest ==
  ASSUME NEW S, NEW n \in Nat, S \subseteq 0 .. n, S # {}
  PROVE  \E x \in S : \A y \in S : y <= x
<1> DEFINE T == {n - x : x \in S}
<1>1. PICK t \in T : \A u \in T : t <= u
  <2>1. \A x \in S : n - x \in Nat
    OBVIOUS
  <2>2. T \subseteq Nat /\ T # {}
    BY <2>1
  <2> HIDE DEF T
  <2> QED
    BY <2>2, Least
<1>2. PICK x \in S : t = n - x
  OBVIOUS
<1>3. ASSUME NEW y \in S PROVE y <= x
  <2>1. n - x <= n - y
    BY <1>1, <1>2
  <2>2. x \in Int /\ y \in Int
    OBVIOUS
  <2> QED
    BY <2>1, <2>2
<1> QED
  BY <1>3

-----------------------------------------------------------------------------
(* Joined sequences                                                        *)

\* f joins the first n sequences of ss, as FlattenSeq does.
Joins(f, ss, n) == f = [i \in 1 .. n |-> IF i = 1 THEN ss[i] ELSE f[i - 1] \o ss[i]]

\* It joins ever more of them.
LEMMA JoinStep ==
  ASSUME NEW f, NEW ss, NEW n \in Nat, Joins(f, ss, n), NEW i \in 1 .. n
  PROVE  f[i] = IF i = 1 THEN ss[i] ELSE f[i - 1] \o ss[i]
BY DEF Joins

\* There is such a function.
LEMMA JoinExists ==
  ASSUME NEW ss, NEW n \in Nat
  PROVE  \E f : Joins(f, ss, n)
<1> DEFINE B == {m \in Nat : ~ \E f : Joins(f, ss, m)}
<1>1. ASSUME B # {} PROVE FALSE
  <2>1. PICK m \in B : \A k \in B : m <= k
    <3>1. B \subseteq Nat
      OBVIOUS
    <3> HIDE DEF B
    <3> QED
      BY <1>1, <3>1, Least
  <2>2. m \in Nat
    OBVIOUS
  <2>3. CASE m = 0
    <3> DEFINE g == [i \in 1 .. 0 |-> <<>>]
    <3>1. Joins(g, ss, 0)
      <4>1. \A i \in 1 .. 0 : FALSE
        OBVIOUS
      <4> QED
        BY <4>1 DEF Joins
    <3> QED
      BY <2>1, <2>3, <3>1
  <2>4. CASE m # 0
    <3>1. m - 1 \in Nat /\ m - 1 \notin B
      BY <2>1, <2>2, <2>4
    <3>2. PICK f : Joins(f, ss, m - 1)
      BY <3>1
    <3> DEFINE last == IF m = 1 THEN ss[m] ELSE f[m - 1] \o ss[m]
               g == [i \in 1 .. m |-> IF i = m THEN last ELSE f[i]]
    <3>3. \A i \in 1 .. m : g[i] = IF i = 1 THEN ss[i] ELSE g[i - 1] \o ss[i]
      <4> SUFFICES ASSUME NEW i \in 1 .. m
                   PROVE  g[i] = IF i = 1 THEN ss[i] ELSE g[i - 1] \o ss[i]
        OBVIOUS
      <4>1. CASE i = m
        BY <2>2, <4>1
      <4>2. CASE i # m
        <5>1. i \in 1 .. m - 1 /\ g[i] = f[i]
          BY <2>2, <4>2
        <5>2. f[i] = IF i = 1 THEN ss[i] ELSE f[i - 1] \o ss[i]
          BY <3>1, <3>2, <5>1, JoinStep
        <5>3. i # 1 => g[i - 1] = f[i - 1]
          BY <2>2, <5>1
        <5> QED
          BY <5>1, <5>2, <5>3
      <4> QED
        BY <4>1, <4>2
    <3>4. g = [i \in 1 .. m |-> g[i]]
      OBVIOUS
    <3> HIDE DEF g
    <3>5. Joins(g, ss, m)
      BY <3>3, <3>4 DEF Joins
    <3> QED
      BY <2>1, <3>5
  <2> QED
    BY <2>3, <2>4
<1> QED
  BY <1>1

\* Two of them join the same where the sequences are the same.
LEMMA JoinUnique ==
  ASSUME NEW f, NEW g, NEW ss, NEW tt, NEW m \in Nat, NEW n \in Nat,
         Joins(f, ss, m), Joins(g, tt, n), m <= n, \A i \in 1 .. m : ss[i] = tt[i]
  PROVE  \A i \in 1 .. m : f[i] = g[i]
<1> DEFINE B == {i \in 1 .. m : f[i] # g[i]}
<1>1. ASSUME B # {} PROVE FALSE
  <2>1. PICK i \in B : \A k \in B : i <= k
    <3>1. B \subseteq Nat
      OBVIOUS
    <3> HIDE DEF B
    <3> QED
      BY <1>1, <3>1, Least
  <2>2. i \in 1 .. m /\ i \in 1 .. n
    OBVIOUS
  <2>3. /\ f[i] = IF i = 1 THEN ss[i] ELSE f[i - 1] \o ss[i]
        /\ g[i] = IF i = 1 THEN tt[i] ELSE g[i - 1] \o tt[i]
    BY <2>2, JoinStep
  <2>4. i # 1 => f[i - 1] = g[i - 1]
    <3>1. i # 1 => i - 1 \in 1 .. m /\ i - 1 \notin B
      BY <2>1, <2>2
    <3> QED
      BY <3>1
  <2> QED
    BY <2>1, <2>2, <2>3, <2>4
<1> QED
  BY <1>1

\* What is joined is a sequence.
LEMMA JoinType ==
  ASSUME NEW f, NEW S, NEW ss \in Seq(Seq(S)), Joins(f, ss, Len(ss))
  PROVE  \A i \in 1 .. Len(ss) : f[i] \in Seq(S)
<1> DEFINE B == {i \in 1 .. Len(ss) : f[i] \notin Seq(S)}
<1>1. ASSUME B # {} PROVE FALSE
  <2>1. PICK i \in B : \A k \in B : i <= k
    <3>1. B \subseteq Nat
      OBVIOUS
    <3> HIDE DEF B
    <3> QED
      BY <1>1, <3>1, Least
  <2>2. i \in 1 .. Len(ss) /\ ss[i] \in Seq(S) /\ Len(ss) \in Nat
    OBVIOUS
  <2>3. f[i] = IF i = 1 THEN ss[i] ELSE f[i - 1] \o ss[i]
    BY <2>2, JoinStep
  <2>4. i # 1 => f[i - 1] \in Seq(S)
    <3>1. i # 1 => i - 1 \in 1 .. Len(ss) /\ i - 1 \notin B
      BY <2>1, <2>2
    <3> QED
      BY <3>1
  <2>5. f[i] \in Seq(S)
    BY <2>2, <2>3, <2>4, ConcatProperties
  <2> QED
    BY <2>1, <2>5
<1> QED
  BY <1>1

\* FlattenSeq joins all of them.
LEMMA FlattenJoins ==
  ASSUME NEW S, NEW ss \in Seq(Seq(S)), Len(ss) # 0
  PROVE  \E f : Joins(f, ss, Len(ss)) /\ FlattenSeq(ss) = f[Len(ss)]
<1>1. Len(ss) \in Nat
  OBVIOUS
<1>2. \E f : Joins(f, ss, Len(ss))
  BY <1>1, JoinExists
<1> QED
  BY <1>2 DEF FlattenSeq, Joins

\* No sequence, or one more.
LEMMA FlattenEmpty == FlattenSeq(<<>>) = <<>>
BY DEF FlattenSeq

LEMMA FlattenType ==
  ASSUME NEW S, NEW ss \in Seq(Seq(S))
  PROVE  FlattenSeq(ss) \in Seq(S)
<1>1. CASE Len(ss) = 0
  BY <1>1, EmptySeq DEF FlattenSeq
<1>2. CASE Len(ss) # 0
  <2>1. PICK f : Joins(f, ss, Len(ss)) /\ FlattenSeq(ss) = f[Len(ss)]
    BY <1>2, FlattenJoins
  <2>2. Len(ss) \in 1 .. Len(ss)
    BY <1>2
  <2> QED
    BY <2>1, <2>2, JoinType
<1> QED
  BY <1>1, <1>2

LEMMA FlattenAppend ==
  ASSUME NEW S, NEW ss \in Seq(Seq(S)), NEW t \in Seq(S)
  PROVE  FlattenSeq(Append(ss, t)) = FlattenSeq(ss) \o t
<1> DEFINE tt == Append(ss, t)
           n == Len(ss)
<1>1. /\ tt \in Seq(Seq(S)) /\ n \in Nat /\ Len(tt) = n + 1
      /\ tt[n + 1] = t /\ \A i \in 1 .. n : tt[i] = ss[i]
  OBVIOUS
<1> HIDE DEF tt
<1>2. PICK g : Joins(g, tt, n + 1) /\ FlattenSeq(tt) = g[n + 1]
  <2>1. Len(tt) # 0
    BY <1>1
  <2>2. \E g : Joins(g, tt, Len(tt)) /\ FlattenSeq(tt) = g[Len(tt)]
    BY <1>1, <2>1, FlattenJoins
  <2> QED
    BY <1>1, <2>2
<1>3. g[n + 1] = IF n + 1 = 1 THEN tt[n + 1] ELSE g[n] \o tt[n + 1]
  BY <1>1, <1>2, JoinStep
<1>4. CASE n = 0
  <2>1. FlattenSeq(ss) = <<>>
    <3>1. ss = <<>>
      BY <1>4
    <3> QED
      BY <3>1, FlattenEmpty
  <2>2. <<>> \o t = t
    BY ConcatEmptySeq
  <2> QED
    BY <1>1, <1>2, <1>3, <1>4, <2>1, <2>2 DEF tt
<1>5. CASE n # 0
  <2>1. PICK f : Joins(f, ss, n) /\ FlattenSeq(ss) = f[n]
    BY <1>5, FlattenJoins
  <2>2. f[n] = g[n]
    <3>1. n + 1 \in Nat /\ n <= n + 1 /\ n \in 1 .. n
      BY <1>1, <1>5
    <3>2. \A i \in 1 .. n : ss[i] = tt[i]
      BY <1>1
    <3> DEFINE N == n + 1
    <3>3. n \in Nat /\ N \in Nat /\ n <= N /\ Joins(f, ss, n) /\ Joins(g, tt, N)
      BY <1>1, <1>2, <2>1, <3>1
    <3> HIDE DEF n, N
    <3>4. \A i \in 1 .. n : f[i] = g[i]
      BY <3>2, <3>3, JoinUnique
    <3> QED
      BY <3>1, <3>4
  <2> QED
    BY <1>1, <1>2, <1>3, <1>5, <2>1, <2>2 DEF tt
<1> QED
  BY <1>4, <1>5

-----------------------------------------------------------------------------
(* The lines and their comments                                            *)

\* The next line is read.
Reading(line) ==
  /\ lines \in Seq(Kinds)
  /\ line \in Kinds
  /\ lines' = Append(lines, line)

LEMMA ReadFacts ==
  ASSUME NEW line, Reading(line)
  PROVE  /\ Len(lines) \in Nat /\ Numbers = 1 .. Len(lines)
         /\ Len(lines') = Len(lines) + 1 /\ Numbers' = 1 .. Len(lines) + 1
         /\ lines'[Len(lines) + 1] = line
         /\ \A i \in 1 .. Len(lines) : lines'[i] = lines[i]
         /\ lines' \in Seq(Kinds)
BY DEF Reading, Numbers

\* The first k lines leave a comment open.
LeftOpen(ls, k) == \E o \in 1 .. k : /\ ls[o] = "/*x"
                                     /\ \A m \in o + 1 .. k : ~Closes(ls[m])

\* Where comments stand among the lines read before does not change, and the line
\* after next is in a comment that the next line opens or does not close.
LEMMA InsideNext ==
  ASSUME NEW line, Reading(line)
  PROVE  /\ \A i \in 1 .. Len(lines) + 1 : Inside(i)' <=> Inside(i)
         /\ Inside(Len(lines) + 1)' <=> line = "/*x" \/ (Inside(Len(lines) + 1) /\ ~Closes(line))
<1>1. PICK n \in Nat : /\ n = Len(lines) /\ Len(lines') = n + 1 /\ lines'[n + 1] = line
                       /\ \A i \in 1 .. n : lines'[i] = lines[i]
  BY ReadFacts
<1>2. ASSUME NEW i \in 1 .. n + 1 PROVE Inside(i)' <=> Inside(i)
  <2>1. \A o \in 1 .. i - 1 : /\ lines'[o] = lines[o]
                              /\ \A m \in o + 1 .. i - 1 : lines'[m] = lines[m]
    BY <1>1
  <2> QED
    BY <2>1 DEF Inside, Closes
<1>3. (Inside(n + 1) <=> LeftOpen(lines, n)) /\ (Inside(Len(lines) + 1)' <=> LeftOpen(lines', n + 1))
  <2>1. Inside(n + 1) <=> LeftOpen(lines, (n + 1) - 1)
    BY DEF Inside, LeftOpen
  <2>2. Inside(Len(lines) + 1)' <=> LeftOpen(lines', (Len(lines') + 1) - 1)
    BY DEF Inside, LeftOpen
  <2>3. (n + 1) - 1 = n /\ (Len(lines') + 1) - 1 = n + 1
    BY <1>1
  <2> QED
    BY <2>1, <2>2, <2>3
<1>4. ASSUME LeftOpen(lines', n + 1) PROVE line = "/*x" \/ (LeftOpen(lines, n) /\ ~Closes(line))
  <2>1. PICK o \in Nat : /\ 1 <= o /\ o <= n + 1 /\ lines'[o] = "/*x"
                         /\ \A m \in o + 1 .. n + 1 : ~Closes(lines'[m])
    BY <1>1, <1>4 DEF LeftOpen
  <2>2. CASE o = n + 1
    BY <1>1, <2>1, <2>2
  <2>3. CASE o # n + 1
    <3>1. o \in 1 .. n /\ lines[o] = "/*x"
      BY <1>1, <2>1, <2>3
    <3>2. ~Closes(line)
      <4>1. n + 1 \in o + 1 .. n + 1
        BY <1>1, <3>1
      <4> QED
        BY <1>1, <2>1, <4>1
    <3>3. \A m \in o + 1 .. n : m \in o + 1 .. n + 1 /\ m \in 1 .. n
      BY <1>1, <3>1
    <3>4. \A m \in o + 1 .. n : ~Closes(lines[m])
      BY <1>1, <2>1, <3>3
    <3> QED
      BY <1>1, <3>1, <3>2, <3>4 DEF LeftOpen
  <2> QED
    BY <2>2, <2>3
<1>5. ASSUME line = "/*x" PROVE LeftOpen(lines', n + 1)
  <2>1. n + 1 \in 1 .. n + 1 /\ \A m \in (n + 1) + 1 .. n + 1 : FALSE
    BY <1>1
  <2> QED
    BY <1>1, <1>5, <2>1 DEF LeftOpen
<1>6. ASSUME LeftOpen(lines, n), ~Closes(line) PROVE LeftOpen(lines', n + 1)
  <2>1. PICK o \in Nat : /\ 1 <= o /\ o <= n /\ lines[o] = "/*x"
                         /\ \A m \in o + 1 .. n : ~Closes(lines[m])
    BY <1>1, <1>6 DEF LeftOpen
  <2>2. o \in 1 .. n + 1 /\ lines'[o] = "/*x"
    BY <1>1, <2>1
  <2>3. \A m \in o + 1 .. n + 1 : m = n + 1 \/ (m \in o + 1 .. n /\ m \in 1 .. n)
    BY <1>1, <2>1
  <2>4. \A m \in o + 1 .. n + 1 : ~Closes(lines'[m])
    BY <1>1, <1>6, <2>1, <2>3
  <2> QED
    BY <2>2, <2>4 DEF LeftOpen
<1> QED
  BY <1>1, <1>2, <1>3, <1>4, <1>5, <1>6

\* A line of SQL is added to those found.
LEMMA TextNext ==
  ASSUME NEW line, Reading(line)
  PROVE  TextLines' = IF line \in SQL /\ ~Inside(Len(lines) + 1)
                      THEN TextLines \cup {Len(lines) + 1} ELSE TextLines
<1> DEFINE n == Len(lines)
<1>1. /\ n \in Nat /\ lines'[n + 1] = line /\ Numbers = 1 .. n /\ Numbers' = 1 .. n + 1
      /\ \A i \in 1 .. n : lines'[i] = lines[i]
  BY ReadFacts
<1>2. \A i \in 1 .. n + 1 : Inside(i)' <=> Inside(i)
  BY InsideNext
<1> HIDE DEF n
<1>3. 1 .. n + 1 = (1 .. n) \cup {n + 1} /\ n + 1 \notin 1 .. n
  BY <1>1
<1>4. \A i : i \in TextLines' <=> i \in Numbers' /\ lines'[i] \in SQL /\ ~Inside(i)'
  BY DEF TextLines
<1>5. \A i : i \in TextLines <=> i \in Numbers /\ lines[i] \in SQL /\ ~Inside(i)
  BY DEF TextLines
<1>6. \A i : i \in TextLines' <=> i \in TextLines \/ (i = n + 1 /\ line \in SQL /\ ~Inside(n + 1))
  BY <1>1, <1>2, <1>3, <1>4, <1>5
<1> QED
  BY <1>6 DEF n

\* The comments that have been read are well-formed if all are.
LEMMA ProperCommentsBefore ==
  ASSUME NEW line, Reading(line), ProperComments'
  PROVE  /\ ProperComments
         /\ Inside(Len(lines) + 1) => line \in InComment
         /\ line = "x*/" => Inside(Len(lines) + 1)
         /\ line \notin {"x/*x", "--/*x"}
<1> DEFINE n == Len(lines)
<1>1. /\ n \in Nat /\ lines'[n + 1] = line /\ Numbers = 1 .. n /\ Numbers' = 1 .. n + 1
      /\ \A i \in 1 .. n : lines'[i] = lines[i]
  BY ReadFacts
<1>2. \A i \in 1 .. n + 1 : Inside(i)' <=> Inside(i)
  BY InsideNext
<1> HIDE DEF n
<1>3. 1 .. n + 1 = (1 .. n) \cup {n + 1} /\ n + 1 \notin 1 .. n
  BY <1>1
<1>4. \A i \in Numbers' : /\ lines'[i] \notin {"x/*x", "--/*x"}
                          /\ Inside(i)' => lines'[i] \in InComment
                          /\ lines'[i] = "x*/" => Inside(i)'
  BY DEF ProperComments
<1>5. \A i \in Numbers : /\ lines[i] \notin {"x/*x", "--/*x"}
                         /\ Inside(i) => lines[i] \in InComment
                         /\ lines[i] = "x*/" => Inside(i)
  BY <1>1, <1>2, <1>3, <1>4
<1>6. /\ line \notin {"x/*x", "--/*x"}
      /\ Inside(n + 1) => line \in InComment
      /\ line = "x*/" => Inside(n + 1)
  BY <1>1, <1>2, <1>3, <1>4
<1> QED
  BY <1>5, <1>6 DEF ProperComments, n

-----------------------------------------------------------------------------
(* Markers                                                                 *)

\* The markers among the lines before i, and the last of a set of lines.
MarkedBefore(ls, i) == {m \in 1 .. i - 1 : ls[m] \in Markers}
LastOf(S) == CHOOSE m \in S \cup {0} : \A n \in S : n <= m

\* It is the greatest.
LEMMA LastFacts ==
  ASSUME NEW k \in Nat, NEW S, S \subseteq 1 .. k
  PROVE  /\ LastOf(S) \in S \cup {0}
         /\ \A n \in S : n <= LastOf(S)
         /\ \A m \in S : (\A n \in S : n <= m) => m = LastOf(S)
<1>1. \E m \in S \cup {0} : \A n \in S : n <= m
  <2>1. S \cup {0} \subseteq 0 .. k /\ S \cup {0} # {}
    OBVIOUS
  <2> QED
    BY <2>1, Greatest
<1>2. LastOf(S) \in S \cup {0} /\ \A n \in S : n <= LastOf(S)
  BY <1>1 DEF LastOf
<1>3. ASSUME NEW m \in S, \A n \in S : n <= m PROVE m = LastOf(S)
  <2>1. m \in 1 .. k /\ (LastOf(S) = 0 \/ LastOf(S) \in 1 .. k)
    BY <1>2
  <2>2. m <= LastOf(S) /\ (LastOf(S) = 0 \/ LastOf(S) <= m)
    BY <1>2, <1>3
  <2> QED
    BY <2>1, <2>2
<1> QED
  BY <1>2, <1>3

\* MarkerBefore finds the last marker before a line.
LEMMA MarkerFacts ==
  ASSUME NEW i \in Nat \ {0}
  PROVE  /\ MarkerBefore(i) = LastOf(MarkedBefore(lines, i))
         /\ MarkerBefore(i)' = LastOf(MarkedBefore(lines', i))
         /\ MarkerBefore(i) \in 0 .. i - 1
         /\ \A m \in 1 .. i - 1 : lines[m] \in Markers => m <= MarkerBefore(i)
<1>1. /\ MarkerBefore(i) = LastOf(MarkedBefore(lines, i))
      /\ MarkerBefore(i)' = LastOf(MarkedBefore(lines', i))
  BY DEF MarkerBefore, LastOf, MarkedBefore
<1>2. /\ MarkedBefore(lines, i) \subseteq 1 .. i - 1
      /\ \A m \in 1 .. i - 1 : lines[m] \in Markers => m \in MarkedBefore(lines, i)
  BY DEF MarkedBefore
<1>3. /\ LastOf(MarkedBefore(lines, i)) \in MarkedBefore(lines, i) \cup {0}
      /\ \A m \in MarkedBefore(lines, i) : m <= LastOf(MarkedBefore(lines, i))
  <2>1. i - 1 \in Nat
    OBVIOUS
  <2> QED
    BY <1>2, <2>1, LastFacts
<1>4. LastOf(MarkedBefore(lines, i)) \in 0 .. i - 1
  BY <1>2, <1>3
<1> QED
  BY <1>1, <1>2, <1>3, <1>4

\* The last marker before a line read does not change, and before the line after
\* next it is the next line if that is one.
LEMMA MarkerNext ==
  ASSUME NEW line, Reading(line)
  PROVE  /\ \A i \in 1 .. Len(lines) + 1 : MarkerBefore(i)' = MarkerBefore(i)
         /\ MarkerBefore(Len(lines) + 1)' = IF line \in Markers THEN Len(lines) + 1
                                            ELSE MarkerBefore(Len(lines) + 1)
<1>1. PICK n \in Nat : /\ n = Len(lines) /\ Len(lines') = n + 1 /\ lines'[n + 1] = line
                       /\ \A i \in 1 .. n : lines'[i] = lines[i]
  BY ReadFacts
<1>2. ASSUME NEW i \in 1 .. n + 1 PROVE MarkerBefore(i)' = MarkerBefore(i)
  <2>1. i \in Nat \ {0} /\ \A m \in 1 .. i - 1 : lines'[m] = lines[m]
    BY <1>1
  <2>2. MarkedBefore(lines', i) = MarkedBefore(lines, i)
    BY <2>1 DEF MarkedBefore
  <2> QED
    BY <2>1, <2>2, MarkerFacts
<1> DEFINE old == MarkedBefore(lines, n + 1)
           new == MarkedBefore(lines', n + 2)
<1>3. MarkerBefore(Len(lines) + 1)' = LastOf(new) /\ MarkerBefore(n + 1) = LastOf(old)
  <2>1. MarkerBefore(Len(lines) + 1)' = LastOf(MarkedBefore(lines', Len(lines') + 1))
    BY DEF MarkerBefore, LastOf, MarkedBefore
  <2>2. Len(lines') + 1 = n + 2 /\ n + 1 \in Nat \ {0}
    BY <1>1
  <2> QED
    BY <2>1, <2>2, MarkerFacts
<1>4. new = IF line \in Markers THEN old \cup {n + 1} ELSE old
  <2>1. (n + 2) - 1 = n + 1 /\ (n + 1) - 1 = n /\ 1 .. n + 1 = (1 .. n) \cup {n + 1}
    BY <1>1
  <2>2. old = {m \in 1 .. n : lines[m] \in Markers} /\ new = {m \in 1 .. n + 1 : lines'[m] \in Markers}
    BY <2>1 DEF MarkedBefore
  <2> HIDE DEF old, new
  <2> QED
    BY <1>1, <2>1, <2>2
<1>5. old \subseteq 1 .. n
  <2>1. (n + 1) - 1 = n
    BY <1>1
  <2> QED
    BY <2>1 DEF MarkedBefore
<1> HIDE DEF old, new
<1>6. CASE line \in Markers
  <2>1. new = old \cup {n + 1} /\ new \subseteq 1 .. n + 1
    BY <1>4, <1>5, <1>6
  <2>2. n + 1 \in new /\ \A k \in new : k <= n + 1
    BY <2>1
  <2>3. n + 1 = LastOf(new)
    <3>1. n + 1 \in Nat
      OBVIOUS
    <3> QED
      BY <2>1, <2>2, <3>1, LastFacts
  <2> QED
    BY <1>1, <1>2, <1>3, <1>6, <2>3
<1>7. CASE line \notin Markers
  BY <1>1, <1>2, <1>3, <1>4, <1>7
<1> QED
  BY <1>6, <1>7

\* The lines of SQL are lines, and their markers stand before them.
LEMMA TextFacts ==
  ASSUME lines \in Seq(Kinds)
  PROVE  /\ TextLines \subseteq 1 .. Len(lines)
         /\ \A t \in TextLines : MarkerBefore(t) \in 0 .. t - 1
         /\ \A t \in TextLines : MarkerBefore(t) \in 0 .. Len(lines)
<1>1. TextLines \subseteq 1 .. Len(lines) /\ Len(lines) \in Nat
  BY DEF TextLines, Numbers
<1>2. \A t \in TextLines : t \in Nat \ {0} /\ t <= Len(lines)
  BY <1>1
<1>3. \A t \in TextLines : MarkerBefore(t) \in 0 .. t - 1
  BY <1>2, MarkerFacts
<1> QED
  BY <1>1, <1>2, <1>3

\* The markers that have been read are well-placed if all are.
LEMMA ProperMarkersBefore ==
  ASSUME NEW line, Reading(line), ProperMarkers'
  PROVE  /\ ProperMarkers
         /\ line \in SQL /\ ~Inside(Len(lines) + 1)
              => /\ MarkerBefore(Len(lines) + 1) # 0
                 /\ lines[MarkerBefore(Len(lines) + 1)] \in Starts
         /\ line \in Ends => \E t \in TextLines : MarkerBefore(t) = MarkerBefore(Len(lines) + 1)
<1>1. PICK n \in Nat : /\ n = Len(lines) /\ Len(lines') = n + 1 /\ lines'[n + 1] = line
                       /\ \A i \in 1 .. n : lines'[i] = lines[i]
                       /\ Numbers = 1 .. n /\ Numbers' = 1 .. n + 1
  BY ReadFacts
<1>2. \A i \in 1 .. n + 1 : MarkerBefore(i)' = MarkerBefore(i)
  BY <1>1, MarkerNext
<1>3. /\ TextLines \subseteq TextLines' /\ TextLines' \subseteq TextLines \cup {n + 1}
      /\ line \in SQL /\ ~Inside(n + 1) => n + 1 \in TextLines'
  BY <1>1, TextNext
<1>4. /\ TextLines \subseteq 1 .. n
      /\ \A t \in TextLines : MarkerBefore(t) \in 0 .. n
  BY <1>1, TextFacts DEF Reading
<1>5. /\ \A i \in TextLines' : MarkerBefore(i)' # 0 /\ lines'[MarkerBefore(i)'] \in Starts
      /\ \A i \in Numbers' : lines'[i] \in Ends => \E t \in TextLines' :
           t < i /\ MarkerBefore(t)' = MarkerBefore(i)'
  BY DEF ProperMarkers
<1>6. MarkerBefore(n + 1) \in 0 .. n
  <2>1. n + 1 \in Nat \ {0} /\ (n + 1) - 1 = n
    BY <1>1
  <2> QED
    BY <2>1, MarkerFacts
<1>7. ASSUME NEW i \in TextLines PROVE MarkerBefore(i) # 0 /\ lines[MarkerBefore(i)] \in Starts
  <2>1. i \in TextLines' /\ i \in 1 .. n + 1 /\ MarkerBefore(i) \in 0 .. n
    BY <1>3, <1>4
  <2>2. MarkerBefore(i) # 0 /\ lines'[MarkerBefore(i)] \in Starts
    BY <1>2, <1>5, <2>1
  <2> QED
    BY <1>1, <2>1, <2>2
<1>8. ASSUME NEW i \in 1 .. n + 1, lines'[i] \in Ends
      PROVE  \E t \in TextLines : t < i /\ MarkerBefore(t) = MarkerBefore(i)
  <2>1. PICK t \in TextLines' : t < i /\ MarkerBefore(t)' = MarkerBefore(i)'
    BY <1>1, <1>5, <1>8
  <2>2. t \in TextLines
    <3>1. t # n + 1
      BY <1>1, <2>1
    <3> QED
      BY <1>3, <3>1
  <2>3. t \in 1 .. n + 1
    BY <1>4, <2>2
  <2> QED
    BY <1>2, <2>1, <2>2, <2>3
<1>9. ProperMarkers
  <2>1. ASSUME NEW i \in Numbers, lines[i] \in Ends
        PROVE  \E t \in TextLines : t < i /\ MarkerBefore(t) = MarkerBefore(i)
    <3>1. i \in 1 .. n + 1 /\ lines'[i] \in Ends
      BY <1>1, <2>1
    <3> QED
      BY <1>8, <3>1
  <2> QED
    BY <1>7, <2>1 DEF ProperMarkers
<1>10. ASSUME line \in SQL, ~Inside(n + 1)
       PROVE  MarkerBefore(n + 1) # 0 /\ lines[MarkerBefore(n + 1)] \in Starts
  <2>1. n + 1 \in TextLines' /\ n + 1 \in 1 .. n + 1
    BY <1>3, <1>10
  <2>2. MarkerBefore(n + 1) # 0 /\ lines'[MarkerBefore(n + 1)] \in Starts
    BY <1>2, <1>5, <2>1
  <2> QED
    BY <1>1, <1>6, <2>2
<1>11. ASSUME line \in Ends PROVE \E t \in TextLines : MarkerBefore(t) = MarkerBefore(n + 1)
  <2>1. n + 1 \in 1 .. n + 1 /\ lines'[n + 1] \in Ends
    BY <1>1, <1>11
  <2> QED
    BY <1>8, <2>1
<1> QED
  BY <1>1, <1>9, <1>10, <1>11

-----------------------------------------------------------------------------
(* Blocks                                                                  *)

\* The marker of the statement that is being built.  The end marker in capitals
\* is a comment to the code, which leaves the statement as it is.
Current ==
  LET m == MarkerBefore(Len(lines) + 1)
  IN  IF m # 0 /\ lines[m] = "--+END" THEN MarkerBefore(m) ELSE m

\* The markers that begin a block are those with lines of SQL in it.
LEMMA BegunFacts ==
  ASSUME lines \in Seq(Kinds)
  PROVE  /\ Begun \subseteq 0 .. Len(lines) /\ IsFiniteSet(Begun)
         /\ \A b : Block(b) \subseteq 1 .. Len(lines)
         /\ \A b : Block(b) # {} <=> b \in Begun
<1>1. Begun \subseteq 0 .. Len(lines) /\ \A b : Block(b) \subseteq 1 .. Len(lines)
  BY TextFacts DEF Begun, Block
<1>2. IsFiniteSet(0 .. Len(lines))
  <2>1. 0 \in Int /\ Len(lines) \in Int
    OBVIOUS
  <2> QED
    BY <2>1, FS_Interval
<1>3. \A b : Block(b) # {} <=> b \in Begun
  BY DEF Begun, Block
<1> QED
  BY <1>1, <1>2, <1>3, FS_Subset

\* The lines of SQL stay in their blocks.
LEMMA BlocksNext ==
  ASSUME NEW line, Reading(line)
  PROVE  LET n == Len(lines) + 1
         IN  IF line \in SQL /\ ~Inside(n)
             THEN /\ Begun' = Begun \cup {MarkerBefore(n)}
                  /\ \A b : Block(b)' = IF b = MarkerBefore(n) THEN Block(b) \cup {n} ELSE Block(b)
             ELSE Begun' = Begun /\ \A b : Block(b)' = Block(b)
<1>1. PICK n \in Nat : n = Len(lines) + 1 /\ n \in 1 .. Len(lines) + 1
  BY ReadFacts
<1>2. \A i \in 1 .. Len(lines) + 1 : MarkerBefore(i)' = MarkerBefore(i)
  BY MarkerNext
<1>3. TextLines \subseteq 1 .. Len(lines) + 1
  BY TextFacts, <1>1 DEF Reading
<1>4. /\ Begun' = {MarkerBefore(i)' : i \in TextLines'}
      /\ \A b : Block(b)' = {i \in TextLines' : MarkerBefore(i)' = b}
  BY DEF Begun, Block
<1>5. CASE line \in SQL /\ ~Inside(n)
  <2>1. TextLines' = TextLines \cup {n}
    BY <1>1, <1>5, TextNext
  <2>2. \A i \in TextLines' : MarkerBefore(i)' = MarkerBefore(i)
    BY <1>1, <1>2, <1>3, <2>1
  <2>3. Begun' = Begun \cup {MarkerBefore(n)}
    BY <1>4, <2>1, <2>2 DEF Begun
  <2>4. \A b : Block(b)' = IF b = MarkerBefore(n) THEN Block(b) \cup {n} ELSE Block(b)
    BY <1>4, <2>1, <2>2 DEF Block
  <2> QED
    BY <1>1, <1>5, <2>3, <2>4
<1>6. CASE ~ (line \in SQL /\ ~Inside(n))
  <2>1. TextLines' = TextLines
    BY <1>1, <1>6, TextNext
  <2>2. \A i \in TextLines : MarkerBefore(i)' = MarkerBefore(i)
    BY <1>2, <1>3
  <2>3. Begun' = Begun /\ \A b : Block(b)' = Block(b)
    BY <1>4, <2>1, <2>2 DEF Begun, Block
  <2> QED
    BY <1>1, <1>6, <2>3
<1> QED
  BY <1>5, <1>6

\* A marker, unless it is the end marker in capitals, ends the current block; the
\* end markers and the lines of SQL belong to it.
LEMMA CurrentNext ==
  ASSUME NEW line, Reading(line), ProperMarkers'
  PROVE  /\ Current' = IF line \in Starts \cup {"--+end"} THEN Len(lines) + 1 ELSE Current
         /\ line = "--+end" => Current \in Begun
         /\ line \in SQL /\ ~Inside(Len(lines) + 1) => MarkerBefore(Len(lines) + 1) = Current
<1>1. PICK n \in Nat : /\ n = Len(lines) /\ Len(lines') = n + 1 /\ lines'[n + 1] = line
                       /\ \A i \in 1 .. n : lines'[i] = lines[i]
  BY ReadFacts
<1>2. PICK m : m = MarkerBefore(n + 1)
  OBVIOUS
<1>3. /\ m \in 0 .. n
      /\ \A i \in 1 .. n + 1 : MarkerBefore(i)' = MarkerBefore(i)
      /\ MarkerBefore(Len(lines) + 1)' = IF line \in Markers THEN n + 1 ELSE m
  <2>1. n + 1 \in Nat \ {0} /\ (n + 1) - 1 = n
    BY <1>1
  <2> QED
    BY <1>1, <1>2, <2>1, MarkerFacts, MarkerNext
<1>4. Current = IF m # 0 /\ lines[m] = "--+END" THEN MarkerBefore(m) ELSE m
  BY <1>1, <1>2 DEF Current
<1>5. PICK k : k = MarkerBefore(Len(lines) + 1)'
  OBVIOUS
<1>6. /\ k = IF line \in Markers THEN n + 1 ELSE m
      /\ k \in 0 .. n + 1
  BY <1>1, <1>3, <1>5
<1>7. Current' = IF k # 0 /\ lines'[k] = "--+END" THEN MarkerBefore(k)' ELSE k
  <2>1. k \in 1 .. n + 1 => MarkerBefore(k)' = MarkerBefore(MarkerBefore(Len(lines) + 1))'
    BY <1>5 DEF MarkerBefore
  <2>2. Current' = IF k # 0 /\ lines'[k] = "--+END"
                   THEN MarkerBefore(MarkerBefore(Len(lines) + 1))' ELSE k
    BY <1>5 DEF Current
  <2>3. k # 0 => k \in 1 .. n + 1
    <3>1. k \in 0 .. n + 1
      BY <1>6
    <3> QED
      BY <3>1
  <2> QED
    BY <2>1, <2>2, <2>3
<1>8. k \in 1 .. n + 1 => MarkerBefore(k)' = MarkerBefore(k)
  BY <1>3
<1>9. /\ ProperMarkers
      /\ line \in SQL /\ ~Inside(n + 1) => m # 0 /\ lines[m] \in Starts
      /\ line \in Ends => \E t \in TextLines : MarkerBefore(t) = m
  BY <1>1, <1>2, ProperMarkersBefore
<1>10. ASSUME line \in Ends PROVE m \in Begun /\ Current = m
  <2>1. PICK t \in TextLines : MarkerBefore(t) = m
    BY <1>9, <1>10
  <2>2. m \in Begun /\ lines[m] \in Starts
    BY <1>9, <2>1 DEF Begun, ProperMarkers
  <2> QED
    BY <1>4, <2>2 DEF Starts
<1>11. CASE line \in Starts \cup {"--+end"}
  <2>1. k = n + 1 /\ lines'[k] # "--+END"
    BY <1>1, <1>6, <1>11 DEF Markers, Starts, Ends
  <2>2. Current' = n + 1
    BY <1>1, <1>7, <2>1
  <2>3. line = "--+end" => Current \in Begun
    BY <1>10 DEF Ends
  <2>4. line \notin SQL
    BY <1>11 DEF Starts, SQL
  <2> QED
    BY <1>1, <1>11, <2>2, <2>3, <2>4
<1>12. CASE line = "--+END"
  <2>1. k = n + 1 /\ lines'[k] = "--+END" /\ k # 0 /\ k \in 1 .. n + 1
    BY <1>1, <1>6, <1>12 DEF Markers, Ends
  <2>2. Current' = m
    BY <1>1, <1>2, <1>7, <1>8, <2>1
  <2>3. Current = m
    BY <1>10, <1>12 DEF Ends
  <2> QED
    BY <1>12, <2>2, <2>3 DEF Starts, SQL
<1>13. CASE line \notin Markers
  <2>1. k = m /\ (m # 0 => m \in 1 .. n /\ m \in 1 .. n + 1)
    BY <1>1, <1>3, <1>6, <1>13
  <2>2. Current' = Current
    BY <1>1, <1>4, <1>7, <1>8, <2>1
  <2>3. line \in SQL /\ ~Inside(n + 1) => m = Current
    BY <1>4, <1>9 DEF Starts
  <2> QED
    BY <1>1, <1>2, <1>13, <2>2, <2>3 DEF Markers, Ends
<1> QED
  BY <1>11, <1>12, <1>13 DEF Markers, Ends

-----------------------------------------------------------------------------
(* Sequences in order                                                      *)

\* Only the empty sequence is one of no numbers.
LEMMA InOrderEmpty == InOrder(<<>>, {})
BY DEF InOrder, Range

LEMMA InOrderNonempty ==
  ASSUME NEW s \in Seq(Nat), NEW N, InOrder(s, N)
  PROVE  s = <<>> <=> N = {}
<1>1. N = {s[i] : i \in 1 .. Len(s)}
  BY DEF InOrder, Range
<1>2. CASE Len(s) = 0
  BY <1>1, <1>2
<1>3. CASE Len(s) # 0
  <2>1. 1 \in 1 .. Len(s) /\ s # <<>>
    BY <1>3
  <2> QED
    BY <1>1, <2>1
<1> QED
  BY <1>2, <1>3

\* A greater number is added to the end.
LEMMA InOrderAppend ==
  ASSUME NEW s \in Seq(Nat), NEW N, InOrder(s, N), NEW k \in Nat, \A i \in N : i < k
  PROVE  InOrder(Append(s, k), N \cup {k})
<1> DEFINE t == Append(s, k)
           n == Len(s)
<1>1. n \in Nat /\ Len(t) = n + 1 /\ DOMAIN t = 1 .. n + 1 /\ DOMAIN s = 1 .. n
      /\ t[n + 1] = k /\ \A i \in 1 .. n : t[i] = s[i] /\ s[i] \in Nat
  OBVIOUS
<1> HIDE DEF t, n
<1>2. N = {s[i] : i \in 1 .. n} /\ \A i, j \in 1 .. n : i < j => s[i] < s[j]
  BY <1>1 DEF InOrder, Range
<1>3. 1 .. n + 1 = (1 .. n) \cup {n + 1}
  BY <1>1
<1>4. Range(t) = N \cup {k}
  <2>1. Range(t) = {t[i] : i \in (1 .. n) \cup {n + 1}}
    BY <1>1, <1>3 DEF Range
  <2> QED
    BY <1>1, <1>2, <2>1
<1>5. ASSUME NEW i \in DOMAIN t, NEW j \in DOMAIN t, i < j PROVE t[i] < t[j]
  <2>1. i \in 1 .. n /\ (j \in 1 .. n \/ j = n + 1)
    BY <1>1, <1>5
  <2>2. t[i] = s[i] /\ s[i] \in N
    BY <1>1, <1>2, <2>1
  <2>3. CASE j = n + 1
    BY <1>1, <2>2, <2>3
  <2>4. CASE j \in 1 .. n
    BY <1>1, <1>2, <1>5, <2>1, <2>4
  <2> QED
    BY <2>1, <2>3, <2>4
<1> QED
  BY <1>4, <1>5 DEF InOrder, t

\* The statements are the blocks of the given markers.
Listed(ss, D) ==
  /\ Len(ss) = Cardinality(D)
  /\ \A m \in D : InOrder(ss[Cardinality({b \in D : b <= m})], Block(m))

\* The block of a later marker is added to the end.
LEMMA ListedAppend ==
  ASSUME NEW n \in Nat, NEW D, D \subseteq 0 .. n, NEW c \in Nat, \A b \in D : b < c,
         NEW ss \in Seq(Seq(Nat)), Listed(ss, D), NEW t \in Seq(Nat), InOrder(t, Block(c))
  PROVE  Listed(Append(ss, t), D \cup {c})
<1> DEFINE E == D \cup {c}
           tt == Append(ss, t)
           Upto(S, m) == {b \in S : b <= m}
<1>1. IsFiniteSet(D) /\ Cardinality(D) \in Nat /\ c \notin D
  <2>1. IsFiniteSet(0 .. n)
    <3>1. 0 \in Int /\ n \in Int
      OBVIOUS
    <3> QED
      BY <3>1, FS_Interval
  <2>2. c \notin D
    <3>1. ~ (c < c)
      OBVIOUS
    <3> QED
      BY <3>1
  <2>3. IsFiniteSet(D)
    BY <2>1, FS_Subset
  <2> QED
    BY <2>2, <2>3, FS_CardinalityType
<1>2. Cardinality(E) = Cardinality(D) + 1
  BY <1>1, FS_AddElement
<1>3. /\ Len(tt) = Len(ss) + 1 /\ tt[Len(ss) + 1] = t
      /\ \A i \in 1 .. Len(ss) : tt[i] = ss[i]
  OBVIOUS
<1>4. Len(ss) = Cardinality(D)
  BY DEF Listed
<1> HIDE DEF tt, E
<1>5. ASSUME NEW m \in D PROVE InOrder(tt[Cardinality(Upto(E, m))], Block(m))
  <2>1. Upto(E, m) = Upto(D, m)
    <3>1. m \in Nat /\ m < c
      OBVIOUS
    <3> QED
      BY <3>1 DEF E
  <2>2. Cardinality(Upto(D, m)) \in 1 .. Cardinality(D)
    <3>1. Upto(D, m) \subseteq D /\ m \in Upto(D, m)
      OBVIOUS
    <3> HIDE DEF Upto
    <3>2. /\ IsFiniteSet(Upto(D, m)) /\ Cardinality(Upto(D, m)) <= Cardinality(D)
          /\ Cardinality(Upto(D, m)) \in Nat
      BY <1>1, <3>1, FS_Subset, FS_CardinalityType
    <3>3. Cardinality(Upto(D, m)) # 0
      BY <3>1, <3>2, FS_EmptySet
    <3> QED
      BY <1>1, <3>2, <3>3
  <2>3. InOrder(ss[Cardinality(Upto(D, m))], Block(m))
    BY DEF Listed
  <2> HIDE DEF Upto
  <2> QED
    BY <1>3, <1>4, <2>1, <2>2, <2>3
<1>6. InOrder(tt[Cardinality(Upto(E, c))], Block(c))
  <2>1. Upto(E, c) = E
    <3>1. \A b \in E : b <= c
      BY DEF E
    <3> QED
      BY <3>1
  <2> HIDE DEF Upto
  <2> QED
    BY <1>2, <1>3, <1>4, <2>1
<1>7. \A m \in E : InOrder(tt[Cardinality(Upto(E, m))], Block(m))
  BY <1>5, <1>6 DEF E
<1>8. Listed(tt, E)
  BY <1>2, <1>3, <1>4, <1>7 DEF Listed
<1> QED
  BY <1>8 DEF tt, E

-----------------------------------------------------------------------------
(* The inductive invariant of the parser                                   *)

\* The scan knows whether the next line is in a comment.
CommentKnown ==
  ~eof /\ ProperComments => (multiLineComment <=> Inside(Len(lines) + 1))

\* A comment that goes on has been opened.
CommentOpened ==
  ~eof /\ multiLineComment => \E o \in 1 .. Len(lines) : Opens(lines[o]) /\ ~Closes(lines[o])

\* Up to now, the statements are the blocks but the current one, of which the
\* lines have been collected; no other begins after it.
BlocksListed ==
  ProperComments /\ ProperMarkers =>
    /\ ~eof => /\ Listed(statements, Begun \ {Current})
               /\ InOrder(statementBuilder, Block(Current))
               /\ \A b \in Begun : b <= Current
    /\ eof => Listed(statements, Begun)

ParserInv == ParserTypeOK /\ CommentKnown /\ CommentOpened /\ EveryTextLineOnce /\ BlocksListed

\* A sequence over a set is one over a greater set.
LEMMA SeqWiden ==
  ASSUME NEW S, NEW T, S \subseteq T
  PROVE  \A s \in Seq(S) : s \in Seq(T)
OBVIOUS

\* What the scan does with a line.
LineAction(line) ==
  EmptyLine(line) \/ StatementStart(line) \/ StatementEnd(line) \/ Comment(line) \/ TextLine(line)

LEMMA LineReads ==
  ASSUME NEW line \in Kinds, ParserTypeOK, LineAction(line)
  PROVE  Reading(line) /\ ~eof /\ ~eof'
<1>1. lines \in Seq(Kinds)
  BY DEF ParserTypeOK
<1>2. Scan(line)
  BY Zenon DEF LineAction, EmptyLine, StatementStart, StatementEnd, Comment, TextLine
<1> QED
  BY <1>1, <1>2 DEF Reading, Scan

\* The variables have their types.
LEMMA LineTypes ==
  ASSUME NEW line \in Kinds, ParserTypeOK, LineAction(line)
  PROVE  ParserTypeOK'
<1> USE DEF ParserTypeOK
<1>1. Reading(line) /\ ~eof /\ ~eof'
  BY LineReads
<1>2. /\ lines' \in Seq(Kinds) /\ Len(lines') \in Numbers'
      /\ Numbers \subseteq Numbers'
  <2>1. Len(lines) \in Nat /\ Numbers = 1 .. Len(lines) /\ Numbers' = 1 .. Len(lines) + 1
    BY <1>1, ReadFacts
  <2>2. Len(lines') = Len(lines) + 1 /\ lines' \in Seq(Kinds)
    BY <1>1, ReadFacts
  <2> QED
    BY <2>1, <2>2
<1>3. statements \in Seq(Seq(Numbers')) /\ statementBuilder \in Seq(Numbers')
  <2>1. Seq(Numbers) \subseteq Seq(Numbers')
    BY <1>2, SeqWiden
  <2> QED
    BY <2>1, SeqWiden
<1>4. /\ statements' \in Seq(Seq(Numbers')) /\ statementBuilder' \in Seq(Numbers')
      /\ multiLineComment' \in BOOLEAN
  <2>1. ASSUME addAndReset
        PROVE  /\ statements' \in Seq(Seq(Numbers')) /\ statementBuilder' \in Seq(Numbers')
               /\ multiLineComment' \in BOOLEAN
    <3>1. Append(statements, statementBuilder) \in Seq(Seq(Numbers')) /\ <<>> \in Seq(Numbers')
      BY <1>3, AppendProperties, EmptySeq
    <3> QED
      BY <2>1, <3>1 DEF addAndReset
  <2>2. CASE EmptyLine(line)
    BY <1>3, <2>2 DEF EmptyLine
  <2>3. CASE StatementStart(line)
    <3>1. CASE statementBuilder # <<>>
      BY <2>3, <2>1, <3>1 DEF StatementStart
    <3>2. CASE statementBuilder = <<>>
      BY <1>3, <2>3, <3>2 DEF StatementStart
    <3> QED
      BY <3>1, <3>2
  <2>4. CASE StatementEnd(line)
    BY <2>4, <2>1 DEF StatementEnd
  <2>5. CASE Comment(line)
    BY <1>3, <2>5 DEF Comment, checkComment, Opens, Closes
  <2>6. CASE TextLine(line)
    <3>1. statementBuilder' = Append(statementBuilder, Len(lines'))
      BY <2>6 DEF TextLine
    <3>2. Append(statementBuilder, Len(lines')) \in Seq(Numbers')
      BY <1>2, <1>3
    <3> QED
      BY <1>3, <2>6, <3>1, <3>2 DEF TextLine
  <2> QED
    BY <2>2, <2>3, <2>4, <2>5, <2>6 DEF LineAction
<1>5. eof' \in BOOLEAN
  <2>1. Scan(line)
    BY Zenon DEF LineAction, EmptyLine, StatementStart, StatementEnd, Comment, TextLine
  <2> QED
    BY <2>1 DEF Scan
<1> QED
  BY <1>1, <1>2, <1>4, <1>5

\* A line of SQL is collected; a marker ends what is collected; any other line is
\* passed over.  The comment goes on when it should.
LEMMA LineEffect ==
  ASSUME NEW line \in Kinds, ParserTypeOK, CommentKnown, LineAction(line), ProperComments'
  PROVE  /\ LET text == line \in SQL /\ ~Inside(Len(lines) + 1)
            IN  \/ /\ text
                   /\ statementBuilder' = Append(statementBuilder, Len(lines) + 1)
                   /\ UNCHANGED statements
                \/ /\ line \in Starts \cup {"--+end"}
                   /\ line \in Starts => statementBuilder # <<>>
                   /\ statements' = Append(statements, statementBuilder)
                   /\ statementBuilder' = <<>>
                \/ /\ ~text /\ line # "--+end"
                   /\ line \in Starts => statementBuilder = <<>>
                   /\ UNCHANGED <<statements, statementBuilder>>
         /\ multiLineComment' <=> Inside(Len(lines) + 1)'
<1> DEFINE in == Inside(Len(lines) + 1)
           in2 == Inside(Len(lines) + 1)'
<1>1. Reading(line) /\ ~eof /\ ~eof' /\ Len(lines') = Len(lines) + 1
  BY LineReads, ReadFacts
<1>2. /\ ProperComments
      /\ in => line \in InComment
      /\ line = "x*/" => in
      /\ line \notin {"x/*x", "--/*x"}
  BY <1>1, ProperCommentsBefore
<1>3. multiLineComment <=> in
  BY <1>1, <1>2 DEF CommentKnown
<1>4. in2 <=> line = "/*x" \/ (in /\ ~Closes(line))
  BY <1>1, InsideNext
<1> HIDE DEF in, in2
<1>5. CASE EmptyLine(line)
  <2>1. line = "blank" /\ UNCHANGED <<statements, statementBuilder, multiLineComment>>
    BY <1>5 DEF EmptyLine
  <2>2. multiLineComment' <=> in2
    BY <1>3, <1>4, <2>1 DEF Closes
  <2> QED
    BY <2>1, <2>2 DEF Starts, SQL, in, in2
<1>6. CASE StatementStart(line)
  <2>1. line \in Starts /\ line \notin SQL
    BY <1>6 DEF StatementStart, isStatementStart, Starts, SQL
  <2>2. ~in /\ ~multiLineComment /\ ~in2
    BY <1>2, <1>3, <1>4, <2>1 DEF Starts, InComment
  <2>3. CASE statementBuilder # <<>>
    <3>1. /\ statements' = Append(statements, statementBuilder)
          /\ statementBuilder' = <<>> /\ ~multiLineComment'
      BY <1>6, <2>3 DEF StatementStart, addAndReset
    <3> QED
      BY <2>1, <2>2, <2>3, <3>1 DEF in2
  <2>4. CASE statementBuilder = <<>>
    <3>1. UNCHANGED <<statements, statementBuilder, multiLineComment>>
      BY <1>6, <2>4 DEF StatementStart
    <3> QED
      BY <2>1, <2>2, <2>4, <3>1 DEF in2, Starts
  <2> QED
    BY <2>3, <2>4
<1>7. CASE StatementEnd(line)
  <2>1. /\ line = "--+end" /\ statements' = Append(statements, statementBuilder)
        /\ statementBuilder' = <<>> /\ ~multiLineComment'
    BY <1>7 DEF StatementEnd, isStatementEnd, addAndReset
  <2>2. ~in2
    BY <1>2, <1>4, <2>1 DEF InComment
  <2>3. line \notin Starts
    BY <2>1 DEF Starts
  <2> QED
    BY <2>1, <2>2, <2>3 DEF in2
<1>8. CASE Comment(line)
  <2>1. /\ line # "blank" /\ line \notin Starts /\ line # "--+end"
        /\ checkComment(line, multiLineComment)[1]
        /\ multiLineComment' = checkComment(line, multiLineComment)[2]
        /\ UNCHANGED <<statements, statementBuilder>>
    BY <1>8 DEF Comment, isStatementStart, isStatementEnd
  <2>2. CASE in
    <3>1. multiLineComment' <=> ~Opens(line) /\ ~Closes(line)
      BY <1>3, <2>1, <2>2 DEF checkComment, Opens
    <3>2. multiLineComment' <=> in2
      BY <1>2, <1>4, <2>2, <3>1 DEF Opens, Closes, InComment
    <3> QED
      BY <2>1, <2>2, <3>2 DEF in, in2
  <2>3. CASE ~in
    <3>1. /\ multiLineComment' <=> Opens(line) /\ ~Closes(line)
          /\ (Opens(line) /\ ~Closes(line)) \/ Begins(line)
      BY <1>3, <2>1, <2>3 DEF checkComment
    <3>2. multiLineComment' <=> in2
      BY <1>2, <1>4, <2>3, <3>1 DEF Opens, Closes
    <3>3. line \notin SQL
      BY <3>1 DEF Begins, Opens, Closes, SQL, Markers, Starts, Ends
    <3> QED
      BY <2>1, <3>2, <3>3 DEF in2
  <2> QED
    BY <2>2, <2>3
<1>9. CASE TextLine(line)
  <2>1. /\ line # "blank" /\ line \notin Starts /\ line # "--+end"
        /\ ~checkComment(line, multiLineComment)[1]
        /\ statementBuilder' = Append(statementBuilder, Len(lines'))
        /\ ~multiLineComment' /\ UNCHANGED statements
    BY <1>9 DEF TextLine, isStatementStart, isStatementEnd
  <2>2. ~in
    BY <1>2, <1>3, <2>1 DEF checkComment, Opens, Closes, InComment
  <2>3. line \in SQL
    BY <1>2, <1>3, <2>1, <2>2 DEF checkComment, Begins, Opens, Closes, Kinds, SQL
  <2>4. ~in2
    BY <1>4, <2>2, <2>3 DEF SQL
  <2> QED
    BY <1>1, <2>1, <2>2, <2>3, <2>4 DEF in, in2
<1> QED
  BY <1>5, <1>6, <1>7, <1>8, <1>9 DEF LineAction

\* The statements are made of numbers.
LEMMA ParserNumbers ==
  ASSUME ParserTypeOK
  PROVE  /\ statements \in Seq(Seq(Nat)) /\ statementBuilder \in Seq(Nat)
         /\ FlattenSeq(statements) \in Seq(Nat)
<1>1. Numbers \subseteq Nat
  BY DEF ParserTypeOK, Numbers
<1>2. Seq(Numbers) \subseteq Seq(Nat)
  BY <1>1, SeqWiden
<1>3. statements \in Seq(Seq(Nat)) /\ statementBuilder \in Seq(Nat)
  BY <1>2, SeqWiden DEF ParserTypeOK
<1> QED
  BY <1>3, FlattenType

\* To end a statement moves no line.
LEMMA FlattenAddAndReset ==
  ASSUME ParserTypeOK, statements' = Append(statements, statementBuilder), statementBuilder' = <<>>
  PROVE  FlattenSeq(statements') \o statementBuilder' = FlattenSeq(statements) \o statementBuilder
<1>1. FlattenSeq(statements') = FlattenSeq(statements) \o statementBuilder
  BY ParserNumbers, FlattenAppend
<1>2. FlattenSeq(statements) \o statementBuilder \in Seq(Nat)
  BY ParserNumbers, ConcatProperties
<1>3. (FlattenSeq(statements) \o statementBuilder) \o <<>> = FlattenSeq(statements) \o statementBuilder
  BY <1>2, ConcatEmptySeq
<1> QED
  BY <1>1, <1>3

\* The lines that have got into a statement.
Taken == FlattenSeq(statements) \o statementBuilder

LEMMA TakenType ==
  ASSUME ParserTypeOK
  PROVE  Taken \in Seq(Nat) /\ \A i \in Range(Taken) : i \in 1 .. Len(lines)
<1>1. FlattenSeq(statements) \in Seq(Numbers) /\ statementBuilder \in Seq(Numbers)
  BY FlattenType DEF ParserTypeOK
<1>2. Taken \in Seq(Numbers)
  BY <1>1, ConcatProperties DEF Taken
<1>3. \A i \in Range(Taken) : i \in Numbers
  BY <1>2 DEF Range
<1>4. Numbers = 1 .. Len(lines) /\ Numbers \subseteq Nat
  BY DEF ParserTypeOK, Numbers
<1> QED
  BY <1>2, <1>3, <1>4, SeqWiden

\* In any file, a line is added that does not begin as a comment, or none; SQL is
\* left out only in a comment, which an opening line began.
LEMMA TakenNext ==
  ASSUME NEW line \in Kinds, ParserTypeOK, LineAction(line)
  PROVE  /\ \/ /\ Taken' = Append(Taken, Len(lines) + 1)
               /\ line # "blank" /\ ~Begins(line)
            \/ /\ Taken' = Taken
               /\ line \in SQL => multiLineComment
         /\ multiLineComment' => multiLineComment \/ (Opens(line) /\ ~Closes(line))
<1>1. Len(lines') = Len(lines) + 1 /\ multiLineComment \in BOOLEAN
  BY LineReads, ReadFacts DEF ParserTypeOK
<1>2. addAndReset => Taken' = Taken
  BY FlattenAddAndReset DEF addAndReset, Taken
<1>3. UNCHANGED <<statements, statementBuilder>> => Taken' = Taken
  BY DEF Taken
<1>4. CASE EmptyLine(line)
  BY <1>3, <1>4 DEF EmptyLine, SQL
<1>5. CASE StatementStart(line)
  <2>1. line \notin SQL
    BY <1>5 DEF StatementStart, isStatementStart, Starts, SQL
  <2>2. addAndReset \/ UNCHANGED <<statements, statementBuilder, multiLineComment>>
    BY <1>5 DEF StatementStart
  <2>3. addAndReset => ~multiLineComment'
    BY DEF addAndReset
  <2> QED
    BY <1>2, <1>3, <2>1, <2>2, <2>3
<1>6. CASE StatementEnd(line)
  <2>1. line \notin SQL
    BY <1>6 DEF StatementEnd, isStatementEnd, SQL
  <2>2. addAndReset /\ ~multiLineComment'
    BY <1>6 DEF StatementEnd, addAndReset
  <2> QED
    BY <1>2, <2>1, <2>2
<1>7. CASE Comment(line)
  <2>1. /\ checkComment(line, multiLineComment)[1]
        /\ multiLineComment' = checkComment(line, multiLineComment)[2]
        /\ UNCHANGED <<statements, statementBuilder>>
    BY <1>7 DEF Comment
  <2>2. line \in SQL => multiLineComment
    BY <1>1, <2>1 DEF checkComment, Begins, Opens, Closes, SQL, Markers, Starts, Ends
  <2>3. multiLineComment' => multiLineComment \/ (Opens(line) /\ ~Closes(line))
    BY <1>1, <2>1 DEF checkComment, Opens
  <2> QED
    BY <1>3, <2>1, <2>2, <2>3
<1>8. CASE TextLine(line)
  <2>1. /\ line # "blank" /\ ~checkComment(line, multiLineComment)[1]
        /\ statementBuilder' = Append(statementBuilder, Len(lines) + 1)
        /\ ~multiLineComment' /\ statements' = statements
    BY <1>1, <1>8 DEF TextLine
  <2>2. ~Begins(line)
    BY <2>1 DEF checkComment
  <2>3. Taken' = Append(Taken, Len(lines) + 1)
    <3>1. PICK n \in Nat : n = Len(lines) + 1
      BY DEF ParserTypeOK
    <3>2. \A s, t \in Seq(Nat) : s \o Append(t, n) = Append(s \o t, n)
      OBVIOUS
    <3> QED
      BY <2>1, <3>1, <3>2, ParserNumbers DEF Taken
  <2> QED
    BY <2>1, <2>2, <2>3
<1> QED
  BY <1>4, <1>5, <1>6, <1>7, <1>8 DEF LineAction

LEMMA CommentOpenedNext ==
  ASSUME NEW line \in Kinds, ParserTypeOK, CommentOpened, LineAction(line)
  PROVE  CommentOpened'
<1>1. PICK n \in Nat : /\ n = Len(lines) /\ Len(lines') = n + 1 /\ lines'[n + 1] = line
                       /\ \A i \in 1 .. n : lines'[i] = lines[i]
  BY LineReads, ReadFacts
<1> SUFFICES ASSUME multiLineComment'
             PROVE  \E o \in 1 .. n + 1 : Opens(lines'[o]) /\ ~Closes(lines'[o])
  BY <1>1 DEF CommentOpened, Opens, Closes
<1>2. CASE multiLineComment
  BY <1>1, <1>2, LineReads DEF CommentOpened
<1>3. CASE Opens(line) /\ ~Closes(line)
  BY <1>1, <1>3
<1> QED
  BY <1>2, <1>3, TakenNext

\* A line of SQL that is read is collected once, and behind those before it.
LEMMA LineOnce ==
  ASSUME NEW line \in Kinds, ParserTypeOK, CommentKnown, CommentOpened, EveryTextLineOnce,
         LineAction(line)
  PROVE  EveryTextLineOnce'
<1>1. PICK n \in Nat : /\ n = Len(lines) + 1 /\ lines'[n] = line
                       /\ Numbers = 1 .. n - 1 /\ Numbers' = 1 .. n
                       /\ \A i \in 1 .. n - 1 : lines'[i] = lines[i]
  <2>1. Len(lines) + 1 \in Nat /\ (Len(lines) + 1) - 1 = Len(lines)
    BY DEF ParserTypeOK
  <2> QED
    BY <2>1, LineReads, ReadFacts
<1> DEFINE Opened(ls, i) == \E o \in 1 .. i - 1 : Opens(ls[o]) /\ ~Closes(ls[o])
<1>2. /\ InOrder(Taken, Range(Taken))
      /\ \A i \in Range(Taken) : lines[i] # "blank" /\ ~Begins(lines[i])
      /\ \A i \in Numbers \ Range(Taken) : lines[i] \in SQL => Opened(lines, i)
      /\ ProperComments => Range(Taken) = TextLines
  BY Zenon DEF EveryTextLineOnce, Taken
<1>3. Taken \in Seq(Nat) /\ Range(Taken) \subseteq 1 .. n - 1
  <2>1. Len(lines) = n - 1
    BY <1>1 DEF ParserTypeOK
  <2> QED
    BY <2>1, TakenType
<1>4. /\ \/ /\ Taken' = Append(Taken, n) /\ line # "blank" /\ ~Begins(line)
            /\ Range(Taken') = Range(Taken) \cup {n}
         \/ /\ Taken' = Taken /\ (line \in SQL => multiLineComment)
      /\ InOrder(Taken', Range(Taken'))
  <2>1. ASSUME Taken' = Append(Taken, n)
        PROVE  InOrder(Taken', Range(Taken')) /\ Range(Taken') = Range(Taken) \cup {n}
    <3>1. InOrder(Taken', Range(Taken) \cup {n})
      BY <1>2, <1>3, <2>1, InOrderAppend
    <3> QED
      BY <3>1 DEF InOrder
  <2> QED
    BY <1>1, <1>2, <2>1, TakenNext
<1>5. ASSUME NEW i \in Range(Taken') PROVE lines'[i] # "blank" /\ ~Begins(lines'[i])
  BY <1>1, <1>2, <1>3, <1>4
<1>6. ASSUME NEW i \in Numbers' \ Range(Taken'), lines'[i] \in SQL PROVE Opened(lines', i)
  <2>1. Opened(lines, i)
    <3>1. CASE i = n
      <4>1. multiLineComment /\ n - 1 = Len(lines)
        BY <1>1, <1>4, <1>6, <3>1 DEF ParserTypeOK
      <4> QED
        BY <3>1, <4>1, LineReads DEF CommentOpened
    <3>2. CASE i # n
      <4>1. i \in Numbers \ Range(Taken) /\ lines[i] \in SQL
        BY <1>1, <1>4, <1>6, <3>2
      <4> QED
        BY <1>2, <4>1
    <3> QED
      BY <3>1, <3>2
  <2>2. \A o \in 1 .. i - 1 : lines'[o] = lines[o]
    BY <1>1, <1>6
  <2> QED
    BY <2>1, <2>2
<1>7. ASSUME ProperComments' PROVE Range(Taken') = TextLines'
  <2> DEFINE text == line \in SQL /\ ~Inside(n)
  <2>1. Reading(line) /\ ProperComments
    BY <1>7, LineReads, ProperCommentsBefore
  <2>2. TextLines' = IF text THEN TextLines \cup {n} ELSE TextLines
    BY <1>1, <2>1, TextNext
  <2>3. \/ text /\ Taken' = Append(Taken, n)
        \/ ~text /\ Taken' = Taken
    <3>1. \/ /\ text /\ statementBuilder' = Append(statementBuilder, n)
             /\ UNCHANGED statements
          \/ /\ ~text /\ statements' = Append(statements, statementBuilder)
             /\ statementBuilder' = <<>>
          \/ /\ ~text /\ UNCHANGED <<statements, statementBuilder>>
      BY <1>1, <1>7, LineEffect DEF Starts, SQL
    <3>2. \A s, t \in Seq(Nat) : s \o Append(t, n) = Append(s \o t, n)
      OBVIOUS
    <3> HIDE DEF text
    <3> QED
      BY <3>1, <3>2, ParserNumbers, FlattenAddAndReset DEF Taken
  <2>4. Taken # Append(Taken, n)
    BY <1>3
  <2> QED
    BY <1>2, <1>4, <2>1, <2>2, <2>3, <2>4
<1> QED
  BY <1>4, <1>5, <1>6, <1>7, Zenon DEF EveryTextLineOnce, Taken

\* The statement that is being built is the block of the current marker, which is
\* the last of those that begin one.
LEMMA CurrentBlock ==
  ASSUME ParserTypeOK, BlocksListed, ~eof, ProperComments, ProperMarkers
  PROVE  /\ statementBuilder # <<>> <=> Current \in Begun
         /\ Current \in Begun => Listed(Append(statements, statementBuilder), Begun)
         /\ Current \notin Begun => Listed(statements, Begun)
<1>1. /\ Listed(statements, Begun \ {Current})
      /\ InOrder(statementBuilder, Block(Current))
      /\ \A b \in Begun : b <= Current
  BY DEF BlocksListed
<1>2. /\ statements \in Seq(Seq(Nat)) /\ statementBuilder \in Seq(Nat)
      /\ Begun \subseteq 0 .. Len(lines) /\ Len(lines) \in Nat
      /\ Block(Current) # {} <=> Current \in Begun
  BY ParserNumbers, BegunFacts DEF ParserTypeOK
<1>3. statementBuilder # <<>> <=> Current \in Begun
  BY <1>1, <1>2, InOrderNonempty
<1>4. ASSUME Current \in Begun PROVE Listed(Append(statements, statementBuilder), Begun)
  <2>1. PICK c : c = Current
    OBVIOUS
  <2> DEFINE D == Begun \ {c}
  <2>2. D \subseteq 0 .. Len(lines) /\ c \in Nat /\ Begun = D \cup {c}
    BY <1>2, <1>4, <2>1
  <2>3. \A b \in D : b < c
    BY <1>1, <1>2, <2>1, <2>2
  <2>4. Listed(statements, D) /\ InOrder(statementBuilder, Block(c))
    BY <1>1, <2>1
  <2> HIDE DEF D
  <2>5. Listed(Append(statements, statementBuilder), D \cup {c})
    BY <1>2, <2>2, <2>3, <2>4, ListedAppend
  <2> QED
    BY <2>2, <2>5
<1>5. ASSUME Current \notin Begun PROVE Listed(statements, Begun)
  <2>1. Begun \ {Current} = Begun
    BY <1>5
  <2> QED
    BY <1>1, <2>1
<1> QED
  BY <1>3, <1>4, <1>5

\* A line keeps the blocks before the current one, and the current one.
LEMMA LineBlocks ==
  ASSUME NEW line \in Kinds, ParserInv, LineAction(line)
  PROVE  BlocksListed'
<1> SUFFICES ASSUME ProperComments', ProperMarkers'
             PROVE  /\ Listed(statements, Begun \ {Current})'
                    /\ InOrder(statementBuilder, Block(Current))'
                    /\ \A b \in Begun' : b <= Current'
  BY LineReads DEF BlocksListed, ParserInv
<1> USE DEF ParserInv
<1>1. PICK n \in Nat : n = Len(lines) + 1
  BY DEF ParserTypeOK
<1> DEFINE text == line \in SQL /\ ~Inside(n)
<1>2. Reading(line) /\ ~eof /\ ProperComments /\ ProperMarkers
  BY LineReads, ProperCommentsBefore, ProperMarkersBefore
<1>3. PICK c : c = Current'
  OBVIOUS
<1>4. /\ c = IF line \in Starts \cup {"--+end"} THEN n ELSE Current
      /\ line = "--+end" => Current \in Begun
      /\ text => MarkerBefore(n) = Current
  BY <1>1, <1>2, <1>3, CurrentNext
<1>5. IF text
      THEN /\ Begun' = Begun \cup {Current}
           /\ \A b : Block(b)' = IF b = Current THEN Block(b) \cup {n} ELSE Block(b)
      ELSE Begun' = Begun /\ \A b : Block(b)' = Block(b)
  BY <1>1, <1>2, <1>4, BlocksNext
<1>6. /\ Listed(statements, Begun \ {Current})
      /\ InOrder(statementBuilder, Block(Current))
      /\ \A b \in Begun : b <= Current
  BY <1>2 DEF BlocksListed
<1>7. /\ statementBuilder # <<>> <=> Current \in Begun
      /\ Current \in Begun => Listed(Append(statements, statementBuilder), Begun)
      /\ Current \notin Begun => Listed(statements, Begun)
  BY <1>2, CurrentBlock
<1>8. /\ Begun \subseteq 0 .. n - 1 /\ \A b : Block(b) \subseteq 1 .. n - 1
      /\ \A b : Block(b) # {} <=> b \in Begun
  <2>1. n - 1 = Len(lines)
    BY <1>1 DEF ParserTypeOK
  <2> QED
    BY <1>2, <2>1, BegunFacts DEF Reading
<1>9. \/ /\ text /\ statementBuilder' = Append(statementBuilder, n)
         /\ UNCHANGED statements
      \/ /\ line \in Starts \cup {"--+end"}
         /\ line \in Starts => statementBuilder # <<>>
         /\ statements' = Append(statements, statementBuilder)
         /\ statementBuilder' = <<>>
      \/ /\ ~text /\ line # "--+end"
         /\ line \in Starts => statementBuilder = <<>>
         /\ UNCHANGED <<statements, statementBuilder>>
  BY <1>1, LineEffect
\* It suffices that the blocks are those of before.
<1>10. ASSUME NEW D, D = Begun' \ {c}, Listed(statements', D),
              \A b \in D : Block(b)' = Block(b),
              InOrder(statementBuilder', Block(c)'), \A b \in Begun' : b <= c
       PROVE  /\ Listed(statements, Begun \ {Current})'
              /\ InOrder(statementBuilder, Block(Current))'
              /\ \A b \in Begun' : b <= Current'
  <2>1. (Begun \ {Current})' = D /\ Block(Current)' = Block(c)'
    BY <1>3, <1>10 DEF Block
  <2>2. Listed(statements, Begun \ {Current})'
    BY <1>10, <2>1 DEF Listed
  <2> QED
    BY <1>3, <1>10, <2>1, <2>2
<1>11. CASE text /\ statementBuilder' = Append(statementBuilder, n) /\ UNCHANGED statements
  <2>1. c = Current
    BY <1>4, <1>11 DEF Starts, SQL
  <2>2. Begun' = Begun \cup {c} /\ Block(c)' = Block(c) \cup {n}
    BY <1>5, <1>11, <2>1
  <2>3. Begun' \ {c} = Begun \ {c} /\ Listed(statements', Begun' \ {c})
    BY <1>6, <1>11, <2>1, <2>2
  <2>4. InOrder(statementBuilder', Block(c)')
    <3>1. \A i \in Block(c) : i < n
      BY <1>8
    <3>2. InOrder(statementBuilder, Block(c)) /\ statementBuilder \in Seq(Nat)
      BY <1>6, <2>1, ParserNumbers
    <3> QED
      BY <1>11, <2>2, <3>1, <3>2, InOrderAppend
  <2>5. \A b \in Begun' : b <= c
    <3>1. Current \in Nat
      BY <1>2, <1>4, <1>11, <1>1, MarkerFacts
    <3> QED
      BY <1>6, <2>1, <2>2, <3>1
  <2>6. \A b \in Begun' \ {c} : Block(b)' = Block(b)
    BY <1>5, <1>11, <2>1
  <2> QED
    BY <1>10, <2>3, <2>4, <2>5, <2>6
<1>12. CASE line \in Starts \cup {"--+end"}
  <2>1. ~text /\ c = n
    BY <1>4, <1>12 DEF Starts, SQL
  <2>2. Begun' = Begun /\ \A b : Block(b)' = Block(b)
    BY <1>5, <2>1
  <2>3. c \notin Begun /\ Begun' \ {c} = Begun /\ Block(c) = {} /\ \A b \in Begun : b <= c
    BY <1>8, <2>1, <2>2
  <2>4. Listed(statements', Begun) /\ statementBuilder' = <<>>
    BY <1>4, <1>7, <1>9, <1>12, <2>1
  <2>5. InOrder(statementBuilder', Block(c)')
    BY <2>2, <2>3, <2>4, InOrderEmpty
  <2> QED
    BY <1>10, <2>2, <2>3, <2>4, <2>5
<1>13. CASE /\ ~text /\ line \notin Starts \cup {"--+end"}
            /\ UNCHANGED <<statements, statementBuilder>>
  <2>1. c = Current /\ Begun' = Begun /\ \A b : Block(b)' = Block(b)
    BY <1>4, <1>5, <1>13
  <2>2. /\ Listed(statements', Begun' \ {c}) /\ InOrder(statementBuilder', Block(c)')
        /\ \A b \in Begun' : b <= c
    BY <1>6, <1>13, <2>1
  <2> QED
    BY <1>10, <2>1, <2>2
<1> QED
  BY <1>9, <1>11, <1>12, <1>13

\* Without a line more, all is where it was.
LEMMA SameLines ==
  ASSUME lines' = lines
  PROVE  /\ ProperComments' <=> ProperComments
         /\ ProperMarkers' <=> ProperMarkers
         /\ TextLines' = TextLines /\ Begun' = Begun /\ \A b : Block(b)' = Block(b)
         /\ Current' = Current /\ (Inside(Len(lines) + 1)' <=> Inside(Len(lines) + 1))
<1>1. \A i : (Inside(i)' <=> Inside(i)) /\ MarkerBefore(i)' = MarkerBefore(i)
  BY DEF Inside, MarkerBefore
<1>2. TextLines' = TextLines /\ (ProperComments' <=> ProperComments) /\ Numbers' = Numbers
  BY <1>1 DEF TextLines, Numbers, ProperComments
<1>3. Current' = Current /\ (Inside(Len(lines) + 1)' <=> Inside(Len(lines) + 1))
  BY DEF Current, Inside, MarkerBefore
<1> QED
  BY <1>1, <1>2, <1>3 DEF ProperMarkers, Begun, Block

\* The end of the file ends the last statement.
LEMMA EndStep ==
  ASSUME ParserInv, EndOfFile
  PROVE  ParserInv'
<1> USE DEF ParserInv
<1>1. ~eof /\ eof' = TRUE /\ lines' = lines
  BY DEF EndOfFile
<1>2. \/ /\ statementBuilder # <<>> /\ statements' = Append(statements, statementBuilder)
         /\ statementBuilder' = <<>> /\ multiLineComment' = FALSE
      \/ /\ statementBuilder = <<>>
         /\ UNCHANGED <<statements, statementBuilder, multiLineComment>>
  BY DEF EndOfFile, addAndReset
<1>3. ParserTypeOK'
  <2>1. Append(statements, statementBuilder) \in Seq(Seq(Numbers))
    BY AppendProperties DEF ParserTypeOK
  <2>2. statements' \in Seq(Seq(Numbers)) /\ statementBuilder' = <<>> /\ multiLineComment' \in BOOLEAN
    BY <1>2, <2>1 DEF ParserTypeOK
  <2>3. Numbers' = Numbers
    BY <1>1 DEF Numbers
  <2> QED
    BY <1>1, <2>2, <2>3, EmptySeq DEF ParserTypeOK
<1>4. CommentKnown' /\ CommentOpened'
  BY <1>1 DEF CommentKnown, CommentOpened
<1>5. /\ ProperComments' <=> ProperComments
      /\ ProperMarkers' <=> ProperMarkers
      /\ TextLines' = TextLines /\ Begun' = Begun /\ \A b : Block(b)' = Block(b)
  BY <1>1, SameLines
<1>6. EveryTextLineOnce'
  <2>1. FlattenSeq(statements') \o statementBuilder' = FlattenSeq(statements) \o statementBuilder
    BY <1>2, FlattenAddAndReset
  <2> QED
    BY <1>1, <1>5, <2>1 DEF EveryTextLineOnce, Numbers, Opens, Closes, Begins
<1>7. BlocksListed'
  <2> SUFFICES ASSUME ProperComments, ProperMarkers
               PROVE  Listed(statements, Begun)'
    BY <1>1, <1>5 DEF BlocksListed
  <2>1. Listed(statements', Begun)
    BY <1>1, <1>2, CurrentBlock
  <2> QED
    BY <1>5, <2>1 DEF Listed
<1> QED
  BY <1>3, <1>4, <1>6, <1>7

\* The parser starts with nothing.
LEMMA ParserStart ==
  ASSUME ParserInit
  PROVE  ParserInv
<1>1. /\ lines = <<>> /\ statements = <<>> /\ statementBuilder = <<>>
      /\ multiLineComment = FALSE /\ eof = FALSE
  BY DEF ParserInit
<1>2. ParserTypeOK
  BY <1>1, EmptySeq DEF ParserTypeOK
<1>3. TextLines = {} /\ Begun = {} /\ \A b : Block(b) = {}
  BY <1>1 DEF TextLines, Numbers, Begun, Block
<1>4. CommentKnown /\ CommentOpened
  BY <1>1 DEF CommentKnown, CommentOpened, Inside
<1>5. EveryTextLineOnce
  <2>1. FlattenSeq(statements) \o statementBuilder = <<>>
    BY <1>1, FlattenEmpty, ConcatEmptySeq, EmptySeq
  <2> QED
    <3>1. Range(<<>>) = {} /\ Numbers = {}
      BY <1>1 DEF Range, Numbers
    <3> QED
      BY <1>3, <2>1, <3>1, InOrderEmpty DEF EveryTextLineOnce
<1>6. BlocksListed
  <2>1. Len(<<>>) = Cardinality({})
    BY FS_EmptySet
  <2>2. Listed(statements, Begun \ {Current})
    BY <1>1, <1>3, <2>1 DEF Listed
  <2> QED
    BY <1>1, <1>3, <2>2, InOrderEmpty DEF BlocksListed
<1> QED
  BY <1>2, <1>4, <1>5, <1>6 DEF ParserInv

\* Every step keeps the invariant.
LEMMA ParserStep ==
  ASSUME ParserInv, [ParserNext]_parserVars
  PROVE  ParserInv'
<1>1. CASE EndOfFile
  BY <1>1, EndStep
<1>2. ASSUME NEW line \in Kinds, LineAction(line) PROVE ParserInv'
  <2>1. ParserTypeOK' /\ EveryTextLineOnce' /\ BlocksListed' /\ CommentOpened'
    BY <1>2, LineTypes, LineOnce, LineBlocks, CommentOpenedNext DEF ParserInv
  <2>2. CommentKnown'
    <3> SUFFICES ASSUME ProperComments' PROVE multiLineComment' <=> Inside(Len(lines) + 1)'
      BY DEF CommentKnown
    <3> QED
      BY <1>2, LineEffect DEF ParserInv
  <2> QED
    BY <2>1, <2>2 DEF ParserInv
<1>3. CASE UNCHANGED parserVars
  <2>1. /\ lines' = lines /\ statements' = statements /\ statementBuilder' = statementBuilder
        /\ multiLineComment' = multiLineComment /\ eof' = eof
    BY <1>3 DEF parserVars
  <2>2. ParserTypeOK'
    BY <2>1 DEF ParserInv, ParserTypeOK, Numbers
  <2>3. CommentKnown' /\ CommentOpened' /\ EveryTextLineOnce'
    BY <2>1, SameLines DEF ParserInv, CommentKnown, CommentOpened, EveryTextLineOnce, Numbers
  <2>4. BlocksListed'
    <3>1. /\ (Begun \ {Current})' = Begun \ {Current}
          /\ Block(Current)' = Block(Current)
      BY <2>1, SameLines DEF Block, Current, MarkerBefore
    <3>2. /\ Listed(statements, Begun)' <=> Listed(statements, Begun)
          /\ Listed(statements, Begun \ {Current})' <=> Listed(statements, Begun \ {Current})
      BY <2>1, <3>1, SameLines DEF Listed
    <3> QED
      BY <2>1, <3>1, <3>2, SameLines DEF ParserInv, BlocksListed
  <2> QED
    BY <2>2, <2>3, <2>4 DEF ParserInv
<1> QED
  BY <1>1, <1>2, <1>3 DEF ParserNext, LineAction

\* The variables of the parser have their types.
THEOREM ParserTypes == ParserSpec => []ParserTypeOK
<1>1. ParserInv => ParserTypeOK
  BY DEF ParserInv
<1> QED
  BY <1>1, ParserStart, ParserStep, PTL DEF ParserSpec

\* In any file, ParseMigrationFile puts a line into a statement once at most and in
\* order, never one that begins as a comment, and leaves SQL out only after a line
\* with "/*"; where the code and SQL agree about comments, what gets in is the SQL.
THEOREM EveryTextLineOnceTheorem == ParserSpec => []EveryTextLineOnce
<1>1. ParserInv => EveryTextLineOnce
  BY DEF ParserInv
<1> QED
  BY <1>1, ParserStart, ParserStep, PTL DEF ParserSpec

\* The statements that ParseMigrationFile finds in a file that is written as it
\* should be are the blocks between its markers, in their order.
THEOREM StatementsAsWrittenTheorem == ParserSpec => []StatementsAsWritten
<1>1. ParserInv => StatementsAsWritten
  <2> SUFFICES ASSUME ParserInv, eof, ProperComments, ProperMarkers
               PROVE  /\ Len(statements) = Cardinality(Begun)
                      /\ \A m \in Begun : InOrder(statements[Place(m)], Block(m))
    BY DEF StatementsAsWritten
  <2>1. Listed(statements, Begun)
    BY DEF ParserInv, BlocksListed
  <2> QED
    BY <2>1 DEF Listed, Place
<1> QED
  BY <1>1, ParserStart, ParserStep, PTL DEF ParserSpec
=============================================================================
