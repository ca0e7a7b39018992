---------------------------- MODULE Cache_proofs ----------------------------
(***************************************************************************)
(* Proofs about Cache, for every set of callers and every bound: the types *)
(* and the accounting of records, whatever the callers do, and for patient *)
(* callers that the status and the cancel function tell the truth.  Then   *)
(* about the lag that is collected beside it.                              *)
(***************************************************************************)
EXTENDS ConsumerLag, TLAPS, FiniteSetTheorems

-----------------------------------------------------------------------------
(* The invariant on calls and records                                      *)

Starting == {t \in Callers : caller[t] = "starting"}

\* Calls of Start that have passed the checks stay within the bound.
StartsBounded == starts + Cardinality(Starting) <= MaxStarts

\* The client hands out the records of the topic in order.
PolledInOrder == \E k \in 0 .. MaxRecords : polled = 1 .. k

\* Only a goroutine on its way from the poll to the end of processFunc has records.
OnTheWay == \A i \in Loops : inflight[i] # {} => loop[i] \in {"lock", "process"}

\* The goroutines are numbered without gaps, and cancelFunc is the newest's.
Numbered == /\ cancelFunc = starts
            /\ \A i \in Loops : loop[i] = "none" <=> i > starts

RecordInv ==
  /\ TypeOK /\ StartsBounded /\ Numbered /\ PolledInOrder /\ EveryRecordAccounted /\ OnTheWay

-----------------------------------------------------------------------------
(* Lemmas                                                                  *)

\* The records polled so far are counted by the last of them.
LEMMA CountPolled ==
  ASSUME NEW k \in Nat PROVE IsFiniteSet(1 .. k) /\ Cardinality(1 .. k) = k
BY FS_Interval

\* Some of the callers, counted.
LEMMA CountStarting ==
  ASSUME NEW S \in SUBSET Callers
  PROVE  IsFiniteSet(S) /\ Cardinality(S) \in Nat
BY CacheAssumption, FS_Subset, FS_CardinalityType

\* Nothing has happened.
LEMMA InitRecords == Init => RecordInv
<1> SUFFICES ASSUME Init PROVE RecordInv
  OBVIOUS
<1> USE CacheAssumption DEF Init
<1>1. polled = 1 .. 0 /\ Cardinality(polled) = 0
  BY CountPolled
<1>2. TypeOK
  <2>1. caller \in [Callers -> {"ready", "starting"}]
    OBVIOUS
  <2>2. /\ loop \in [Loops -> {"none", "spawned", "select", "poll", "lock", "process", "gone"}]
        /\ inflight \in [Loops -> SUBSET (1 .. MaxRecords)]
    OBVIOUS
  <2>3. starts \in 0 .. MaxStarts /\ cancelFunc \in 0 .. starts /\ committed \in 0 .. Cardinality(polled)
    BY <1>1
  <2> QED
    BY <1>1, <2>1, <2>2, <2>3 DEF TypeOK
<1>3. StartsBounded
  <2>1. Cardinality(Starting) = 0
    BY FS_EmptySet DEF Starting
  <2> QED
    BY <2>1 DEF StartsBounded
<1>4. PolledInOrder /\ OnTheWay /\ Numbered
  BY <1>1 DEF PolledInOrder, OnTheWay, Numbered, Loops
<1>5. EveryRecordAccounted
  BY DEF EveryRecordAccounted
<1> QED
  BY <1>2, <1>3, <1>4, <1>5 DEF RecordInv

\* The accounting does not look at anything else than the goroutines' records.
LEMMA RecordsUntouched ==
  ASSUME RecordInv,
         UNCHANGED <<inflight, polled, processed, failed>>,
         \A i \in Loops : inflight[i] # {} => loop'[i] \in {"lock", "process"}
  PROVE  PolledInOrder' /\ EveryRecordAccounted' /\ OnTheWay'
<1>1. PolledInOrder' /\ OnTheWay'
  BY DEF RecordInv, PolledInOrder, OnTheWay
<1>2. \A i \in Loops : ~Alive(i)' => inflight'[i] = {}
  BY DEF Alive
<1> QED
  BY <1>1, <1>2 DEF RecordInv, EveryRecordAccounted

\* The calls of Start do not look at the goroutines.
LEMMA StartsUntouched ==
  ASSUME StartsBounded, UNCHANGED <<starts, caller>>
  PROVE  StartsBounded'
BY DEF StartsBounded, Starting

\* A goroutine's step neither starts one nor makes one that was not.
LEMMA NumbersUntouched ==
  ASSUME Numbered, UNCHANGED <<starts, cancelFunc>>,
         \A i \in Loops : loop'[i] = "none" <=> loop[i] = "none"
  PROVE  Numbered'
BY DEF Numbered

-----------------------------------------------------------------------------
(* The steps of the callers                                                *)

\* Init, Stop and the end of the parent context leave calls and records alone.
LEMMA QuietCalls ==
  ASSUME RecordInv,
         \/ \E t \in Callers : InitCache(t) \/ Stop(t)
         \/ ParentDone
  PROVE  RecordInv'
<1>1. TypeOK'
  <2>1. CASE \E t \in Callers : InitCache(t)
    BY <2>1 DEF RecordInv, TypeOK, InitCache, lifecycle, data
  <2>2. ASSUME NEW t \in Callers, Stop(t) PROVE TypeOK'
    <3>1. cancelFunc \in 1 .. starts
      BY <2>2 DEF RecordInv, TypeOK, Stop
    <3> QED
      BY <2>2, <3>1 DEF RecordInv, TypeOK, Stop, data
  <2>3. CASE ParentDone
    BY <2>3 DEF RecordInv, TypeOK, ParentDone, data
  <2> QED
    BY <2>1, <2>2, <2>3
<1>2. UNCHANGED <<inflight, polled, processed, failed, loop, starts, caller>>
  BY DEF InitCache, Stop, ParentDone, lifecycle, data
<1>3. PolledInOrder' /\ EveryRecordAccounted' /\ OnTheWay'
  BY <1>2, RecordsUntouched DEF RecordInv, OnTheWay
<1>4. StartsBounded' /\ Numbered'
  BY <1>2, StartsUntouched DEF RecordInv, Numbered, InitCache, Stop, ParentDone, lifecycle
<1> QED
  BY <1>1, <1>3, <1>4 DEF RecordInv

\* Start: the checks reserve a goroutine within the bound.
LEMMA ChecksStep ==
  ASSUME RecordInv, NEW t \in Callers, StartChecks(t)
  PROVE  RecordInv'
<1>1. TypeOK'
  BY DEF RecordInv, TypeOK, StartChecks, data
<1>2. PolledInOrder' /\ EveryRecordAccounted' /\ OnTheWay'
  BY RecordsUntouched DEF RecordInv, OnTheWay, StartChecks, data
<1>3. StartsBounded'
  <2>1. Starting' = Starting \cup {t} /\ t \notin Starting
    BY DEF RecordInv, TypeOK, StartChecks, Starting
  <2>2. IsFiniteSet(Starting) /\ Cardinality(Starting) \in Nat
    BY CountStarting DEF Starting
  <2>3. Cardinality(Starting') = Cardinality(Starting) + 1
    BY <2>1, <2>2, FS_AddElement
  <2>4. starts + Cardinality(Starting) < MaxStarts /\ starts' = starts
    BY DEF StartChecks, Starting
  <2>5. starts \in Nat /\ MaxStarts \in Nat
    BY CacheAssumption DEF RecordInv, TypeOK
  <2> QED
    BY <2>2, <2>3, <2>4, <2>5 DEF StartsBounded
<1>4. Numbered'
  BY DEF RecordInv, Numbered, StartChecks
<1> QED
  BY <1>1, <1>2, <1>3, <1>4 DEF RecordInv

\* The next goroutine exists and is new: the bound has room for it.
LEMMA SpawnStep ==
  ASSUME RecordInv, NEW t \in Callers, StartSpawns(t)
  PROVE  RecordInv' /\ starts' = starts + 1 /\ starts' \in Loops
<1>1. Starting' = Starting \ {t} /\ t \in Starting
  BY DEF RecordInv, TypeOK, StartSpawns, Starting
<1>2. IsFiniteSet(Starting) /\ Cardinality(Starting) \in Nat /\ Cardinality(Starting') \in Nat
  BY CountStarting, <1>1 DEF Starting
<1>3. Cardinality(Starting') = Cardinality(Starting) - 1
  BY <1>1, <1>2, FS_RemoveElement
<1>4. starts \in Nat /\ MaxStarts \in Nat /\ starts' = starts + 1
  BY CacheAssumption DEF RecordInv, TypeOK, StartSpawns
<1>5. StartsBounded'
  BY <1>2, <1>3, <1>4 DEF RecordInv, StartsBounded
<1>6. starts' \in Loops
  BY <1>2, <1>4, <1>5 DEF StartsBounded, Loops
<1>7. TypeOK'
  BY <1>4, <1>6, CacheAssumption DEF RecordInv, TypeOK, StartSpawns, data, Loops
<1>8. PolledInOrder' /\ EveryRecordAccounted' /\ OnTheWay'
  <2>1. inflight[starts'] = {}
    BY <1>4, <1>6 DEF RecordInv, Numbered, OnTheWay
  <2> QED
    BY <2>1, RecordsUntouched DEF RecordInv, OnTheWay, StartSpawns, data, TypeOK
<1>9. Numbered'
  BY <1>4, <1>6 DEF RecordInv, TypeOK, Numbered, StartSpawns, Loops
<1> QED
  BY <1>4, <1>5, <1>6, <1>7, <1>8, <1>9 DEF RecordInv

-----------------------------------------------------------------------------
(* The steps of the goroutines                                             *)

\* Taking and leaving the loop's places where no records are touched.
LEMMA PlaceSteps ==
  ASSUME RecordInv, NEW i \in Loops, SetRunning(i) \/ GoOn(i) \/ Lock(i) \/ Leave(i)
  PROVE  RecordInv'
<1> USE DEF Goto, lifecycle, data
<1>1. TypeOK'
  BY DEF RecordInv, TypeOK, SetRunning, GoOn, Lock, Leave, Nobody
<1>2. UNCHANGED <<inflight, polled, processed, failed, starts, caller, cancelFunc>>
  BY DEF SetRunning, GoOn, Lock, Leave
<1>3. \A j \in Loops : inflight[j] # {} => loop'[j] \in {"lock", "process"}
  BY DEF RecordInv, TypeOK, OnTheWay, SetRunning, GoOn, Lock, Leave
<1>4. \A j \in Loops : loop'[j] = "none" <=> loop[j] = "none"
  BY DEF RecordInv, TypeOK, SetRunning, GoOn, Lock, Leave
<1>5. PolledInOrder' /\ EveryRecordAccounted' /\ OnTheWay'
  BY <1>2, <1>3, RecordsUntouched
<1>6. StartsBounded' /\ Numbered'
  BY <1>2, <1>4, StartsUntouched, NumbersUntouched DEF RecordInv
<1> QED
  BY <1>1, <1>5, <1>6 DEF RecordInv

\* The records of a poll are new ones, and the next in the topic.
LEMMA PollStep ==
  ASSUME RecordInv, NEW i \in Loops, Poll(i)
  PROVE  RecordInv'
<1>1. PICK n \in 0 .. (IF closed THEN 0 ELSE MaxPoll) :
        LET first == Cardinality(polled) + 1
            got == first .. first + n - 1
        IN  /\ got \subseteq 1 .. MaxRecords
            /\ inflight' = [inflight EXCEPT ![i] = got]
            /\ polled' = polled \cup got
  BY DEF Poll
<1>2. PICK k \in 0 .. MaxRecords : polled = 1 .. k
  BY DEF RecordInv, PolledInOrder
<1>3. k \in Nat /\ n \in Nat /\ Cardinality(polled) = k
  BY <1>2, CountPolled, CacheAssumption
<1> DEFINE got == k + 1 .. k + n
<1>4. /\ got \subseteq 1 .. MaxRecords /\ got \cap polled = {}
      /\ inflight' = [inflight EXCEPT ![i] = got] /\ polled' = polled \cup got
      /\ inflight[i] = {} /\ inflight'[i] = got
      /\ \A j \in Loops \ {i} : inflight'[j] = inflight[j]
  <2>1. inflight[i] = {}
    BY DEF Poll, RecordInv, OnTheWay
  <2>2. k + 1 + n - 1 = k + n
    BY <1>3
  <2>3. /\ got \subseteq 1 .. MaxRecords
        /\ inflight' = [inflight EXCEPT ![i] = got] /\ polled' = polled \cup got
    BY <1>1, <1>3, <2>2
  <2>4. got \cap polled = {}
    BY <1>2, <1>3
  <2> QED
    BY <2>1, <2>3, <2>4 DEF RecordInv, TypeOK
<1>5. k + n \in 0 .. MaxRecords /\ polled' = 1 .. k + n /\ Cardinality(polled') = k + n
  <2>1. k + n \in 0 .. MaxRecords
    <3>1. CASE n = 0
      BY <1>2, <1>3, <3>1
    <3>2. CASE n # 0
      <4>1. k + n \in got
        BY <1>3, <3>2
      <4> QED
        BY <1>3, <1>4, <4>1
    <3> QED
      BY <3>1, <3>2
  <2>2. polled' = 1 .. k + n
    BY <1>2, <1>3, <1>4
  <2> QED
    BY <1>3, <2>1, <2>2, CountPolled
<1> HIDE DEF got
<1>6. TypeOK'
  <2>1. committed' \in 0 .. Cardinality(polled')
    BY <1>3, <1>5 DEF RecordInv, TypeOK, Poll
  <2> QED
    BY <2>1, <1>4 DEF RecordInv, TypeOK, Poll, Goto, lifecycle
<1>7. PolledInOrder'
  BY <1>5 DEF PolledInOrder
<1>8. OnTheWay'
  BY <1>4 DEF RecordInv, TypeOK, OnTheWay, Poll, Goto
<1>9. EveryRecordAccounted'
  <2>1. processed' = processed /\ failed' = failed
    BY DEF Poll
  <2>2. \A j \in Loops : inflight[j] \subseteq polled
    BY DEF RecordInv, EveryRecordAccounted
  <2>3. polled' = processed' \cup failed' \cup UNION {inflight'[j] : j \in Loops}
    <3>1. UNION {inflight'[j] : j \in Loops} = got \cup UNION {inflight[j] : j \in Loops}
      BY <1>4
    <3> QED
      BY <1>4, <2>1, <3>1 DEF RecordInv, EveryRecordAccounted
  <2>4. \A j \in Loops : inflight'[j] \cap (processed' \cup failed') = {}
    BY <1>4, <2>1 DEF RecordInv, EveryRecordAccounted, TypeOK
  <2>5. \A j \in Loops : \A l \in Loops \ {j} : inflight'[j] \cap inflight'[l] = {}
    BY <1>4, <2>2 DEF RecordInv, EveryRecordAccounted
  <2>6. \A j \in Loops : ~Alive(j)' => inflight'[j] = {}
    BY <1>8 DEF OnTheWay, Alive
  <2> QED
    BY <2>1, <2>3, <2>4, <2>5, <2>6 DEF RecordInv, EveryRecordAccounted
<1>10. StartsBounded' /\ Numbered'
  <2>1. \A j \in Loops : loop'[j] = "none" <=> loop[j] = "none"
    BY DEF RecordInv, TypeOK, Poll, Goto
  <2> QED
    BY <2>1, StartsUntouched, NumbersUntouched DEF RecordInv, Poll, lifecycle
<1> QED
  BY <1>6, <1>7, <1>8, <1>9, <1>10 DEF RecordInv

\* processFunc takes all the records of its goroutine, and no others.
LEMMA ProcessStep ==
  ASSUME RecordInv, NEW i \in Loops, Process(i)
  PROVE  RecordInv'
<1> USE DEF Goto, lifecycle
<1>1. /\ inflight' = [inflight EXCEPT ![i] = {}] /\ polled' = polled
      /\ loop' = [loop EXCEPT ![i] = "select"] /\ loop[i] = "process"
      /\ \/ processed' = processed \cup inflight[i] /\ failed' = failed
         \/ failed' = failed \cup inflight[i] /\ processed' = processed
  BY DEF Process
<1>2. inflight \in [Loops -> SUBSET (1 .. MaxRecords)] /\ loop[i] # "none"
  BY DEF RecordInv, TypeOK, Process
<1>3. inflight[i] \subseteq polled
  BY DEF RecordInv, EveryRecordAccounted
<1>4. TypeOK'
  <2>1. committed' \in 0 .. Cardinality(polled')
    <3>1. PICK k \in 0 .. MaxRecords : polled = 1 .. k
      BY DEF RecordInv, PolledInOrder
    <3>2. k \in Nat /\ Cardinality(polled) = k
      BY <3>1, CountPolled, CacheAssumption
    <3> QED
      BY <1>1, <3>2 DEF RecordInv, TypeOK, Process
  <2>2. processed' \subseteq polled' /\ failed' \subseteq polled'
    BY <1>1, <1>3 DEF RecordInv, TypeOK
  <2> QED
    BY <1>1, <2>1, <2>2 DEF RecordInv, TypeOK, Process, Nobody
<1>5. PolledInOrder' /\ OnTheWay'
  BY <1>1, <1>2 DEF RecordInv, TypeOK, PolledInOrder, OnTheWay
<1>6. EveryRecordAccounted'
  <2>1. inflight'[i] = {} /\ \A j \in Loops \ {i} : inflight'[j] = inflight[j]
    BY <1>1, <1>2
  <2>2. processed' \cup failed' = processed \cup failed \cup inflight[i]
    BY <1>1
  <2>3. polled' = processed' \cup failed' \cup UNION {inflight'[j] : j \in Loops}
    <3>1. inflight[i] \cup UNION {inflight'[j] : j \in Loops} = UNION {inflight[j] : j \in Loops}
      BY <2>1
    <3> QED
      BY <1>1, <2>2, <3>1 DEF RecordInv, EveryRecordAccounted
  <2>4. processed' \cap failed' = {}
    BY <1>1 DEF RecordInv, EveryRecordAccounted
  <2>5. \A j \in Loops : inflight'[j] \cap (processed' \cup failed') = {}
    BY <2>1, <2>2 DEF RecordInv, EveryRecordAccounted
  <2>6. \A j \in Loops : \A l \in Loops \ {j} : inflight'[j] \cap inflight'[l] = {}
    BY <2>1 DEF RecordInv, EveryRecordAccounted
  <2>7. \A j \in Loops : ~Alive(j)' => inflight'[j] = {}
    BY <1>5 DEF OnTheWay, Alive
  <2> QED
    BY <2>3, <2>4, <2>5, <2>6, <2>7 DEF EveryRecordAccounted
<1>7. StartsBounded' /\ Numbered'
  <2>1. \A j \in Loops : loop'[j] = "none" <=> loop[j] = "none"
    BY <1>1 DEF RecordInv, TypeOK
  <2> QED
    BY <2>1, StartsUntouched, NumbersUntouched DEF RecordInv, Process
<1> QED
  BY <1>4, <1>5, <1>6, <1>7 DEF RecordInv

\* The client's own commits stay within what was polled.
LEMMA CommitStep ==
  ASSUME RecordInv, AutoCommit
  PROVE  RecordInv'
<1>1. TypeOK'
  <2>1. PICK k \in 0 .. MaxRecords : polled = 1 .. k
    BY DEF RecordInv, PolledInOrder
  <2>2. k \in Nat /\ Cardinality(polled) = k
    BY <2>1, CountPolled, CacheAssumption
  <2>3. committed' \in 0 .. k
    BY <2>2 DEF RecordInv, TypeOK, AutoCommit
  <2> QED
    BY <2>2, <2>3 DEF RecordInv, TypeOK, AutoCommit, lifecycle
<1>2. PolledInOrder' /\ EveryRecordAccounted' /\ OnTheWay'
  BY RecordsUntouched DEF RecordInv, OnTheWay, AutoCommit
<1>3. StartsBounded' /\ Numbered'
  BY StartsUntouched, NumbersUntouched DEF RecordInv, AutoCommit, lifecycle
<1> QED
  BY <1>1, <1>2, <1>3 DEF RecordInv

-----------------------------------------------------------------------------
\* Every step of the cache, and stuttering.
LEMMA NextRecords == RecordInv /\ [Next]_vars => RecordInv'
<1> SUFFICES ASSUME RecordInv, [Next]_vars PROVE RecordInv'
  OBVIOUS
<1>1. CASE UNCHANGED vars
  <2>1. TypeOK' /\ StartsBounded' /\ Numbered'
    BY <1>1 DEF RecordInv, vars, TypeOK, StartsBounded, Starting, Numbered
  <2>2. PolledInOrder' /\ EveryRecordAccounted' /\ OnTheWay'
    BY <1>1, RecordsUntouched DEF RecordInv, vars, OnTheWay
  <2> QED
    BY <2>1, <2>2 DEF RecordInv
<1>2. CASE Next
  BY <1>2, QuietCalls, ChecksStep, SpawnStep, PlaceSteps, PollStep, ProcessStep, CommitStep
  DEF Next, CallerStep, LoopStep
<1> QED
  BY <1>1, <1>2

\* The types, and the accounting of records: whatever callers do, and however
\* many goroutines poll, no record that the client hands out is dropped or
\* processed twice.
THEOREM RecordsAlwaysAccounted == Spec => [](TypeOK /\ EveryRecordAccounted)
<1>1. RecordInv => TypeOK /\ EveryRecordAccounted
  BY DEF RecordInv
<1> QED
  BY <1>1, InitRecords, NextRecords, PTL DEF Spec

\* However stops, starts and polling goroutines interleave (src/cache/cache.go:89-127),
\* each polled record is processed once, given up once, or with one goroutine.
THEOREM EveryRecordAlwaysAccounted == Spec => []EveryRecordAccounted
BY RecordsAlwaysAccounted, PTL

-----------------------------------------------------------------------------
(* Patient callers                                                         *)

\* Before the first Start, and until its goroutine has set the status.
Fresh == /\ status \in {"notready", "ready"} => \A i \in Loops : loop[i] \in {"none", "spawned"}
         /\ status = "notready" => starts = 0 /\ \A t \in Callers : caller[t] = "ready"
         /\ status = "ready" /\ Settled => starts = 0

\* At most one Start is on its way, and nothing else goes on with it.
OneAtATime ==
  /\ \A t \in Callers : caller[t] = "starting" =>
       /\ \A u \in Callers : caller[u] = "starting" => u = t
       /\ \A i \in Loops : loop[i] # "spawned"
       /\ starts = 0 \/ starts \in cancelled
       /\ status \in {"ready", "stopped"}
  /\ \A i \in Loops : loop[i] = "spawned" =>
       /\ i = starts /\ i \notin cancelled
       /\ \A t \in Callers : caller[t] = "ready"
       /\ status \in {"ready", "stopped"}

\* What the status says of the newest context.
StatusTells ==
  /\ status = "running" => Settled /\ starts # 0 /\ starts \notin cancelled
  /\ status = "stopped" /\ Settled => starts \in cancelled

\* A goroutine ends only when its context is done.
GoneMeansDone == \A i \in Loops : loop[i] = "gone" => Done(i)

PatientInv ==
  /\ RecordInv /\ Fresh /\ OneAtATime /\ StatusTells /\ GoneMeansDone
  /\ OneStoppableLoop

\* Nothing has happened.
LEMMA InitPatient == Init => PatientInv
<1> SUFFICES ASSUME Init PROVE PatientInv
  OBVIOUS
<1>1. RecordInv
  BY InitRecords
<1> QED
  BY <1>1 DEF Init, PatientInv, Fresh, OneAtATime, StatusTells, GoneMeansDone,
              OneStoppableLoop, Alive, Settled

\* Init of a cache that is not ready.
LEMMA PatientInitCache ==
  ASSUME Patient, PatientInv, NEW t \in Callers, InitCache(t)
  PROVE  PatientInv'
<1>1. RecordInv'
  BY QuietCalls DEF PatientInv
<1>2. /\ status = "notready" /\ status' = "ready"
      /\ UNCHANGED <<cancelFunc, starts, cancelled, parentDone, caller, loop>>
  BY DEF InitCache, lifecycle
<1>3. starts = 0 /\ \A i \in Loops : loop[i] # "spawned" /\ loop[i] = "none"
  BY <1>2 DEF PatientInv, Fresh, OneAtATime, RecordInv, Numbered, TypeOK, Loops
<1> QED
  BY <1>1, <1>2, <1>3 DEF PatientInv, Fresh, OneAtATime, StatusTells, GoneMeansDone,
                          OneStoppableLoop, Alive, Settled, Done

\* A patient Start finds nothing under way: no goroutine that is not cancelled.
LEMMA PatientChecks ==
  ASSUME Patient, PatientInv, NEW t \in Callers, StartChecks(t)
  PROVE  PatientInv'
<1>1. RecordInv'
  BY ChecksStep DEF PatientInv
<1>2. /\ Settled /\ status \in {"ready", "stopped"}
      /\ caller' = [caller EXCEPT ![t] = "starting"]
      /\ UNCHANGED <<status, cancelFunc, starts, cancelled, parentDone, loop>>
  BY DEF StartChecks, PatientInv, RecordInv, TypeOK
<1>3. starts = 0 \/ starts \in cancelled
  BY <1>2 DEF PatientInv, Fresh, StatusTells
<1>4. caller \in [Callers -> {"ready", "starting"}]
  BY DEF PatientInv, RecordInv, TypeOK
<1>5. ~Settled'
  BY <1>2, <1>4 DEF Settled
<1>6. Fresh' /\ StatusTells'
  BY <1>2, <1>5 DEF PatientInv, Fresh, StatusTells
<1>7. OneAtATime'
  BY <1>2, <1>3, <1>4 DEF Settled, OneAtATime
<1>8. GoneMeansDone' /\ OneStoppableLoop'
  BY <1>2 DEF PatientInv, GoneMeansDone, OneStoppableLoop, Alive, Done
<1> QED
  BY <1>1, <1>6, <1>7, <1>8 DEF PatientInv

\* The new goroutine is the only one that is not cancelled.
LEMMA PatientSpawns ==
  ASSUME Patient, PatientInv, NEW t \in Callers, StartSpawns(t)
  PROVE  PatientInv'
<1>1. RecordInv' /\ starts' = starts + 1 /\ starts' \in Loops
  BY SpawnStep DEF PatientInv
<1>2. /\ caller[t] = "starting" /\ caller' = [caller EXCEPT ![t] = "ready"]
      /\ cancelFunc' = starts' /\ loop' = [loop EXCEPT ![starts'] = "spawned"]
      /\ UNCHANGED <<status, cancelled, parentDone>>
  BY DEF StartSpawns
<1>3. /\ caller \in [Callers -> {"ready", "starting"}]
      /\ loop \in [Loops -> {"none", "spawned", "select", "poll", "lock", "process", "gone"}]
      /\ starts \in Nat /\ cancelled \subseteq 1 .. starts
  BY CacheAssumption DEF PatientInv, RecordInv, TypeOK
<1>4. /\ \A u \in Callers : caller'[u] = "ready"
      /\ \A i \in Loops : loop[i] # "spawned"
      /\ starts = 0 \/ starts \in cancelled
      /\ status \in {"ready", "stopped"}
  BY <1>2, <1>3 DEF PatientInv, OneAtATime
<1>5. starts' \notin cancelled
  BY <1>1, <1>3
<1>6. ~Settled'
  BY <1>1, <1>2, <1>3 DEF Settled
<1>7. Fresh' /\ StatusTells'
  BY <1>1, <1>2, <1>3, <1>4, <1>6 DEF PatientInv, Fresh, StatusTells
<1>8. OneAtATime'
  BY <1>1, <1>2, <1>3, <1>4, <1>5 DEF OneAtATime
<1>9. GoneMeansDone'
  BY <1>1, <1>2, <1>3 DEF PatientInv, GoneMeansDone, Done
<1>10. OneStoppableLoop'
  <2> SUFFICES ASSUME NEW i \in Loops, Alive(i)', i \notin cancelled' PROVE i = starts'
    BY <1>2 DEF OneStoppableLoop
  <2>1. CASE i # starts'
    <3>1. Alive(i) /\ i \notin cancelled
      BY <1>1, <1>2, <1>3, <2>1 DEF Alive
    <3>2. i = starts
      BY <3>1 DEF PatientInv, OneStoppableLoop, RecordInv, Numbered
    <3>3. i # 0
      BY DEF Loops
    <3> QED
      BY <1>4, <3>1, <3>2, <3>3
  <2> QED
    BY <2>1
<1> QED
  BY <1>1, <1>7, <1>8, <1>9, <1>10 DEF PatientInv

\* Stop cancels the only goroutine that is not cancelled.
LEMMA PatientStop ==
  ASSUME Patient, PatientInv, NEW t \in Callers, Stop(t)
  PROVE  PatientInv'
<1>1. RecordInv'
  BY QuietCalls DEF PatientInv
<1>2. /\ Settled /\ status = "running" /\ status' = "stopped"
      /\ cancelled' = cancelled \cup {cancelFunc}
      /\ UNCHANGED <<cancelFunc, starts, parentDone, caller, loop>>
  BY DEF Stop
<1>3. starts \in cancelled'
  BY <1>2 DEF PatientInv, RecordInv, Numbered
<1>4. Fresh' /\ StatusTells' /\ OneAtATime'
  BY <1>2, <1>3 DEF PatientInv, Fresh, StatusTells, OneAtATime, Settled
<1>5. GoneMeansDone' /\ OneStoppableLoop'
  BY <1>2 DEF PatientInv, GoneMeansDone, OneStoppableLoop, Alive, Done
<1> QED
  BY <1>1, <1>4, <1>5 DEF PatientInv

\* The goroutine of the newest Start sets the status.
LEMMA PatientRuns ==
  ASSUME PatientInv, NEW i \in Loops, SetRunning(i)
  PROVE  PatientInv'
<1>1. RecordInv'
  BY PlaceSteps DEF PatientInv
<1>2. /\ loop[i] = "spawned" /\ loop' = [loop EXCEPT ![i] = "select"] /\ status' = "running"
      /\ UNCHANGED <<cancelFunc, starts, cancelled, parentDone, caller>>
  BY DEF SetRunning, Goto, lifecycle
<1>3. loop \in [Loops -> {"none", "spawned", "select", "poll", "lock", "process", "gone"}]
  BY DEF PatientInv, RecordInv, TypeOK
<1>4. /\ i = starts /\ i \notin cancelled
      /\ \A t \in Callers : caller[t] = "ready"
  BY <1>2 DEF PatientInv, OneAtATime
<1>5. \A j \in Loops : loop[j] = "spawned" => j = i
  BY <1>4 DEF PatientInv, OneAtATime
<1>6. Settled' /\ starts # 0
  BY <1>2, <1>3, <1>4, <1>5 DEF Settled, Loops
<1>7. Fresh' /\ StatusTells' /\ OneAtATime'
  BY <1>2, <1>3, <1>4, <1>5, <1>6 DEF Fresh, StatusTells, OneAtATime
<1>8. GoneMeansDone' /\ OneStoppableLoop'
  BY <1>2, <1>3 DEF PatientInv, GoneMeansDone, OneStoppableLoop, Alive, Done
<1> QED
  BY <1>1, <1>7, <1>8 DEF PatientInv

\* The other steps of a goroutine, and the client's commits.
LEMMA PatientLoops ==
  ASSUME PatientInv, NEW i \in Loops,
         GoOn(i) \/ Poll(i) \/ Lock(i) \/ Process(i) \/ Leave(i)
  PROVE  PatientInv'
<1> USE DEF Goto, lifecycle
<1>1. RecordInv'
  BY PlaceSteps, PollStep, ProcessStep DEF PatientInv
<1>2. UNCHANGED <<status, cancelFunc, starts, cancelled, parentDone, caller>>
  BY DEF GoOn, Poll, Lock, Process, Leave
<1>3. loop \in [Loops -> {"none", "spawned", "select", "poll", "lock", "process", "gone"}]
  BY DEF PatientInv, RecordInv, TypeOK
<1>4. /\ loop[i] \notin {"none", "spawned", "gone"} /\ loop'[i] \notin {"none", "spawned"}
      /\ loop'[i] = "gone" => Done(i)
      /\ \A j \in Loops \ {i} : loop'[j] = loop[j]
  BY <1>3 DEF GoOn, Poll, Lock, Process, Leave
<1>5. Settled' <=> Settled
  BY <1>2, <1>4 DEF Settled
<1>6. Fresh' /\ StatusTells' /\ OneAtATime'
  BY <1>2, <1>4, <1>5 DEF PatientInv, Fresh, StatusTells, OneAtATime
<1>7. GoneMeansDone' /\ OneStoppableLoop'
  BY <1>2, <1>4 DEF PatientInv, GoneMeansDone, OneStoppableLoop, Alive, Done
<1> QED
  BY <1>1, <1>6, <1>7 DEF PatientInv

\* What the client and the parent context do.
LEMMA PatientOthers ==
  ASSUME PatientInv, ParentDone \/ AutoCommit \/ UNCHANGED vars
  PROVE  PatientInv'
<1>1. RecordInv'
  BY NextRecords DEF PatientInv, Next
<1>2. /\ UNCHANGED <<status, cancelFunc, starts, cancelled, caller, loop>>
      /\ parentDone => parentDone'
  BY DEF ParentDone, AutoCommit, vars, lifecycle
<1>3. Fresh' /\ StatusTells' /\ OneAtATime'
  BY <1>2 DEF PatientInv, Fresh, StatusTells, OneAtATime, Settled
<1>4. GoneMeansDone' /\ OneStoppableLoop'
  BY <1>2 DEF PatientInv, GoneMeansDone, OneStoppableLoop, Alive, Done
<1> QED
  BY <1>1, <1>3, <1>4 DEF PatientInv

\* A status of running stands for a goroutine that polls.
LEMMA PatientPolls == PatientInv => RunningMeansPolling
<1> SUFFICES ASSUME PatientInv, status = "running", ~parentDone
             PROVE  \E i \in Loops : Alive(i) /\ loop[i] # "spawned" /\ ~Done(i)
  BY DEF RunningMeansPolling
<1>1. Settled /\ starts # 0 /\ starts \notin cancelled
  BY DEF PatientInv, StatusTells
<1>2. starts \in Loops
  BY <1>1, CacheAssumption DEF PatientInv, RecordInv, TypeOK, Loops
<1>3. ~Done(starts) /\ loop[starts] # "gone"
  BY <1>1, <1>2 DEF PatientInv, GoneMeansDone, Done
<1>4. loop[starts] # "none"
  BY <1>2, CacheAssumption DEF PatientInv, RecordInv, TypeOK, Numbered, Loops
<1> QED
  BY <1>1, <1>2, <1>3, <1>4 DEF Settled, Alive

\* With callers that wait until a Start has taken effect, there is at most one
\* goroutine that is not cancelled, Stop reaches it, and a status of running is
\* true: for any number of callers, starts and stops.
THEOREM PatientCallersKeepControl ==
  ASSUME Patient
  PROVE  Spec => [](OneStoppableLoop /\ RunningMeansPolling)
<1>1. PatientInv /\ [Next]_vars => PatientInv'
  BY PatientInitCache, PatientChecks, PatientSpawns, PatientStop, PatientRuns,
     PatientLoops, PatientOthers
  DEF Next, CallerStep, LoopStep
<1>2. PatientInv => OneStoppableLoop /\ RunningMeansPolling
  BY PatientPolls DEF PatientInv
<1> QED
  BY <1>1, <1>2, InitPatient, PTL DEF Spec

\* The goroutine that is not cancelled is one, and Stop has its cancel function.
THEOREM OneLoopIsStoppable ==
  ASSUME Patient
  PROVE  Spec => []OneStoppableLoop
BY PatientCallersKeepControl, PTL

\* StatusRunning is true of a goroutine that polls.
THEOREM StatusTellsTheTruth ==
  ASSUME Patient
  PROVE  Spec => []RunningMeansPolling
BY PatientCallersKeepControl, PTL

-----------------------------------------------------------------------------
(* The consumer group's lag                                                *)

LEMMA CommittedType == RecordInv => committed \in Nat /\ Cardinality(polled) \in Nat
<1> SUFFICES ASSUME RecordInv PROVE committed \in Nat /\ Cardinality(polled) \in Nat
  OBVIOUS
<1>1. PICK k \in 0 .. MaxRecords : polled = 1 .. k
  BY DEF RecordInv, PolledInOrder
<1>2. k \in Nat
  BY CacheAssumption
<1>3. Cardinality(polled) \in Nat
  BY <1>1, <1>2, CountPolled
<1> QED
  BY <1>3 DEF RecordInv, TypeOK

\* No commit takes an offset back.
LEMMA CommittedGrows ==
  ASSUME RecordInv, [Next]_vars
  PROVE  committed <= committed'
<1>1. committed \in Nat /\ committed <= Cardinality(polled) /\ Cardinality(polled) \in Nat
  BY CommittedType DEF RecordInv, TypeOK
<1>2. ASSUME NEW i \in Loops, LoopStep(i) PROVE committed <= committed'
  <2>1. CASE Process(i)
    BY <1>1, <2>1 DEF Process
  <2>2. ASSUME SetRunning(i) \/ GoOn(i) \/ Poll(i) \/ Lock(i) \/ Leave(i)
        PROVE  committed' = committed
    BY <2>2 DEF SetRunning, GoOn, Poll, Lock, Leave, data
  <2> QED
    BY <1>1, <1>2, <2>1, <2>2 DEF LoopStep
<1>3. CASE AutoCommit
  BY <1>1, <1>3 DEF AutoCommit
<1>4. ASSUME NEW t \in Callers, CallerStep(t) PROVE committed <= committed'
  <2>1. committed' = committed
    BY <1>4 DEF CallerStep, InitCache, StartChecks, StartSpawns, Stop, data
  <2> QED
    BY <1>1, <2>1
<1>5. CASE ParentDone \/ UNCHANGED vars
  <2>1. committed' = committed
    BY <1>5 DEF ParentDone, vars, data
  <2> QED
    BY <1>1, <2>1
<1> QED
  BY <1>2, <1>3, <1>4, <1>5 DEF Next

\* Between the two requests the worst lag so far is no more than what the answer
\* will be if the topic stays as it is.
LagInv ==
  /\ RecordInv
  /\ asking \in {"idle", "asked", "done"}
  /\ end \in Nat /\ offset \in Nat /\ worst \in Int
  /\ asking = "asked" => offset <= committed /\ worst <= end - offset
  /\ LagNeverTooSmall

LEMMA InitLag == LagInit => LagInv
BY InitRecords DEF LagInit, LagInv, LagNeverTooSmall

LEMMA NextLag == LagInv /\ [LagNext]_<<vars, lagVars>> => LagInv'
<1> SUFFICES ASSUME LagInv, [LagNext]_<<vars, lagVars>> PROVE LagInv'
  OBVIOUS
<1>1. /\ committed \in Nat /\ end \in Nat /\ offset \in Nat /\ worst \in Int
      /\ RecordInv
  BY CommittedType DEF LagInv
<1>2. [Next]_vars
  BY DEF LagNext, FetchOffsets, ListEndOffsets, Forget, Produce, CacheMoves, lagVars
<1>3. RecordInv' /\ committed' \in Nat /\ committed <= committed'
  <2>1. RecordInv'
    BY <1>1, <1>2, NextRecords
  <2>2. PICK k \in 0 .. MaxRecords : polled' = 1 .. k
    BY <2>1 DEF RecordInv, PolledInOrder
  <2>3. Cardinality(polled') \in Nat
    BY <2>2, CountPolled, CacheAssumption
  <2>4. committed' \in Nat
    BY <2>1, <2>3 DEF RecordInv, TypeOK
  <2> QED
    BY <1>1, <1>2, <2>1, <2>4, CommittedGrows
<1>4. CASE FetchOffsets
  <2>1. /\ committed' = committed /\ end' = end /\ asking' = "asked"
        /\ offset' = committed /\ worst' = end - committed
    BY <1>4 DEF FetchOffsets, ActualLag, vars, data
  <2>2. worst' \in Int /\ offset' <= committed' /\ worst' <= end' - offset'
    BY <1>1, <2>1
  <2>3. LagNeverTooSmall'
    BY <2>1 DEF LagNeverTooSmall
  <2> QED
    BY <1>1, <1>3, <2>1, <2>2, <2>3 DEF LagInv
<1>5. CASE ListEndOffsets
  <2>1. /\ asking = "asked" /\ asking' = "done" /\ UNCHANGED <<end, offset, worst>>
        /\ worst <= end - offset
    BY <1>5 DEF ListEndOffsets, LagInv
  <2>2. ASSUME listed', NEW n \in lag' PROVE n >= worst'
    <3>1. n = Larger(0, end - offset)
      BY <1>5, <2>2 DEF ListEndOffsets
    <3> QED
      BY <1>1, <2>1, <3>1 DEF Larger
  <2> QED
    BY <1>1, <1>3, <2>1, <2>2 DEF LagInv, LagNeverTooSmall
<1>6. CASE Forget
  BY <1>1, <1>3, <1>6 DEF Forget, LagInv, LagNeverTooSmall
<1>7. CASE Produce \/ CacheMoves
  <2>1. /\ UNCHANGED <<asking, offset, lag, listed>> /\ Watch
        /\ end' \in Nat /\ end <= end'
    BY <1>1, <1>7 DEF Produce, CacheMoves
  <2>2. CASE asking = "asked"
    <3>1. offset <= committed /\ worst <= end - offset
      BY <2>2 DEF LagInv
    <3>2. worst' = worst \/ worst' = end' - committed'
      BY <2>1, <2>2 DEF Watch, Larger
    <3>3. /\ offset \in Nat /\ worst \in Int /\ end \in Nat /\ end' \in Nat
          /\ committed \in Nat /\ committed' \in Nat
          /\ end <= end' /\ committed <= committed' /\ offset' = offset
      BY <1>1, <1>3, <2>1
    <3>4. worst' \in Int /\ offset' <= committed' /\ worst' <= end' - offset'
      BY <3>1, <3>2, <3>3
    <3>5. LagNeverTooSmall'
      BY <2>1, <2>2 DEF LagNeverTooSmall
    <3> QED
      BY <1>1, <1>3, <2>1, <2>2, <3>4, <3>5 DEF LagInv
  <2>3. CASE asking # "asked"
    <3>1. worst' = worst
      BY <2>1, <2>3 DEF Watch
    <3>2. LagNeverTooSmall'
      BY <2>1, <3>1 DEF LagInv, LagNeverTooSmall
    <3> QED
      BY <1>1, <1>3, <2>1, <2>3, <3>1, <3>2 DEF LagInv
  <2> QED
    BY <2>2, <2>3
<1>8. CASE UNCHANGED <<vars, lagVars>>
  <2>1. committed' = committed /\ UNCHANGED <<end, asking, offset, lag, listed, worst>>
    BY <1>8 DEF vars, data, lagVars
  <2> QED
    BY <1>3, <2>1 DEF LagInv, LagNeverTooSmall
<1> QED
  BY <1>4, <1>5, <1>6, <1>7, <1>8 DEF LagNext

\* CollectConsumerLag, src/kafka/lag.go, never says that a group is nearer to the end
\* of its topic than it was at any moment of the call, whatever is produced,
\* processed and committed between its two requests.
THEOREM LagIsNeverTooSmall == LagSpec => []LagNeverTooSmall
<1>1. LagInv => LagNeverTooSmall
  BY DEF LagInv
<1> QED
  BY <1>1, InitLag, NextLag, PTL DEF LagSpec

\* The cache that is watched is the cache: what is proved of it holds beside the
\* collector, too.
THEOREM CollectorOnlyWatches == LagSpec => Spec
<1>1. LagInit => Init
  BY DEF LagInit
<1>2. [LagNext]_<<vars, lagVars>> => [Next]_vars
  BY DEF LagNext, FetchOffsets, ListEndOffsets, Forget, Produce, CacheMoves, lagVars
<1> QED
  BY <1>1, <1>2, PTL DEF LagSpec, Spec
=============================================================================
