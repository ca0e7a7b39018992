----------------------- MODULE InterestAccrual_proofs -----------------------
(***************************************************************************)
(* Proofs about InterestAccrual, for any number of accruers, users and     *)
(* batches, any borrowed values, times, faults and payments.               *)
(***************************************************************************)
EXTENDS InterestAccrual, TLAPS

-----------------------------------------------------------------------------
(* The inductive invariant                                                 *)

Active == {"watch", "failed", "done"} \cup Reading \cup Writing

\* Where a call is: in which batch, at which of its users.
Placed(a) ==
  /\ pc[a] # "idle" => batch[a] \in Batches
  /\ pc[a] \in {"idle", "watch"} => next[a] = 1
  /\ pc[a] \in Reading \cup Writing \cup {"done"} => next[a] \in 1 .. Len(batch[a])
  /\ pc[a] = "done" => next[a] = Len(batch[a])

\* What it has read, and what it is about to write for the user, is the charge of
\* one accrual.
OneCharge(a) ==
  /\ pc[a] \in {"position", "interest"} => modules[a] = NoInterest
  /\ pc[a] = "interest" =>
       \E h \in had[User(a)] : now[a] <= h[1] /\ borrowed[a] = h[2]
  /\ pc[a] = "writeUser" => OneAccrual(User(a), mine[a].owed) /\ mine[a].paid = 0

\* Users of the batch whose accrual is complete in this attempt.
Completed(a) == IF pc[a] = "done" THEN Len(batch[a])
                ELSE IF pc[a] \in Reading \cup Writing THEN next[a] - 1 ELSE 0

\* The last transactions are those of the users that are complete.
Reports(a) ==
  /\ \A i \in DOMAIN txs[a] : txs[a][i] \in reported[a]
  /\ pc[a] = "writeModule" => <<User(a), mine[a].owed>> \in reported[a]
  /\ Completed(a) <= Len(txs[a])
  /\ \A i \in 1 .. Completed(a) : txs[a][Len(txs[a]) - Completed(a) + i][1] = batch[a][i]

Call(a) == Placed(a) /\ OneCharge(a) /\ Reports(a)

\* The values that a position has had include the one it has now.
HadNow == \A u \in Users : <<clock, store[UserPositionKey(u)]>> \in had[u]

Recorded == HadNow /\ RecordIsOneAccrual

Inv == TypeOK /\ Recorded /\ \A a \in Accruers : Call(a)

-----------------------------------------------------------------------------
(* Lemmas                                                                  *)

\* No step takes a value out of what the positions have had.
HadGrows == \A u \in Users : had[u] \subseteq had'[u]

LEMMA ChargeStays ==
  ASSUME NEW u \in Users, HadGrows, NEW amount, OneAccrual(u, amount)
  PROVE  \E h \in had'[u] : \E t \in 0 .. h[1] : amount = t * h[2]
BY DEF HadGrows, OneAccrual

\* Nothing is what an accrual charges up to the time zero.
LEMMA ChargeOfNothing ==
  ASSUME TypeOK, HadNow, NEW u \in Users
  PROVE  OneAccrual(u, 0)
<1>1. PICK h \in had[u] : h = <<clock, store[UserPositionKey(u)]>>
  BY DEF HadNow
<1>2. h[1] \in Nat /\ h[2] \in Nat /\ 0 \in 0 .. h[1]
  BY <1>1, InterestAssumption DEF TypeOK
<1>3. 0 = 0 * h[2]
  BY <1>2
<1> QED
  BY <1>2, <1>3 DEF OneAccrual

\* The keys of different kinds and owners are different.
LEMMA KeysDiffer ==
  ASSUME NEW u \in Users \cup {MODULE_ID}, NEW v \in Users \cup {MODULE_ID}
  PROVE  /\ UserInterestKey(u) # UserPositionKey(v) /\ UserInterestKey(u) # BareKey(v)
         /\ UserPositionKey(u) # BareKey(v)
         /\ UserInterestKey(u) = UserInterestKey(v) => u = v
         /\ UserPositionKey(u) = UserPositionKey(v) => u = v
         /\ ModulePositionKey # UserInterestKey(u) /\ ModulePositionKey # UserPositionKey(u)
         /\ ModulePositionKey # BareKey(u)
BY DEF UserInterestKey, UserPositionKey, BareKey, ModulePositionKey

LEMMA AreKeys ==
  ASSUME NEW u \in Users \cup {MODULE_ID}
  PROVE  /\ UserInterestKey(u) \in Keys /\ BareKey(u) \in Keys
         /\ u \in Users => UserPositionKey(u) \in Keys
         /\ ModulePositionKey \in Keys
BY DEF Keys

\* A step that leaves Redis as it is, up to the watches.
SameRedis == /\ DOMAIN store' = Keys /\ \A k \in Keys : store'[k] = store[k]
             /\ watched' \in [Accruers -> SUBSET Keys] /\ dirty' \in [Accruers -> BOOLEAN]

LEMMA ReadsChangeNothing ==
  ASSUME TypeOK, NEW a \in Accruers,
         Redis!Exec(a, <<>>) \/ Redis!ExecRefused(a) \/ Redis!Unwatch(a)
           \/ UNCHANGED <<store, watched, dirty>>
  PROVE  SameRedis
<1>1. CASE Redis!Exec(a, <<>>)
  BY <1>1 DEF TypeOK, SameRedis, Redis!Exec, Redis!Overwrite
<1>2. CASE ~Redis!Exec(a, <<>>)
  BY <1>2 DEF TypeOK, SameRedis, Redis!ExecRefused, Redis!Unwatch
<1> QED
  BY <1>1, <1>2

\* The part of TypeOK that is about Redis.
StoreType ==
  /\ DOMAIN store = Keys
  /\ \A u \in Users : store[UserPositionKey(u)] \in 0 .. MaxBorrow
  /\ \A u \in Users \cup {MODULE_ID} : /\ store[UserInterestKey(u)] \in InterestRecord
                                      /\ store[BareKey(u)] = Absent
  /\ store[ModulePositionKey] = Absent
  /\ watched \in [Accruers -> SUBSET Keys]
  /\ dirty \in [Accruers -> BOOLEAN]

LEMMA SameStoreType ==
  ASSUME TypeOK, SameRedis
  PROVE  /\ StoreType'
         /\ \A u \in Users : store'[UserPositionKey(u)] = store[UserPositionKey(u)]
         /\ \A u \in Users \cup {MODULE_ID} :
              store'[UserInterestKey(u)] = store[UserInterestKey(u)]
BY AreKeys DEF TypeOK, SameRedis, StoreType

\* A single HMSET of an interest record.
LEMMA SetInterestType ==
  ASSUME TypeOK, NEW u \in Users \cup {MODULE_ID}, NEW r \in InterestRecord,
         Redis!SetNow([k \in {UserInterestKey(u)} |-> r])
  PROVE  /\ StoreType' /\ store'[UserInterestKey(u)] = r
         /\ \A v \in Users : store'[UserPositionKey(v)] = store[UserPositionKey(v)]
         /\ \A v \in (Users \cup {MODULE_ID}) \ {u} :
              store'[UserInterestKey(v)] = store[UserInterestKey(v)]
<1>1. store' = [k \in Keys |-> IF k = UserInterestKey(u) THEN r ELSE store[k]]
  BY DEF Redis!SetNow, Redis!Overwrite
<1>2. dirty' \in [Accruers -> BOOLEAN] /\ watched' = watched
  BY DEF Redis!SetNow, TypeOK
<1>3. /\ \A v \in Users : store'[UserPositionKey(v)] = store[UserPositionKey(v)]
      /\ \A v \in Users \cup {MODULE_ID} : store'[BareKey(v)] = store[BareKey(v)]
      /\ store'[ModulePositionKey] = store[ModulePositionKey]
      /\ \A v \in (Users \cup {MODULE_ID}) \ {u} :
           store'[UserInterestKey(v)] = store[UserInterestKey(v)]
  BY <1>1, KeysDiffer, AreKeys
<1>4. store'[UserInterestKey(u)] = r
  BY <1>1, AreKeys
<1> QED
  BY <1>1, <1>2, <1>3, <1>4 DEF TypeOK, StoreType

\* A single HMSET of a position.
LEMMA SetPositionType ==
  ASSUME TypeOK, NEW u \in Users, NEW b \in 0 .. MaxBorrow,
         Redis!SetNow([k \in {UserPositionKey(u)} |-> b])
  PROVE  /\ StoreType' /\ store'[UserPositionKey(u)] = b
         /\ \A v \in Users \ {u} : store'[UserPositionKey(v)] = store[UserPositionKey(v)]
         /\ \A v \in Users \cup {MODULE_ID} :
              store'[UserInterestKey(v)] = store[UserInterestKey(v)]
<1>1. store' = [k \in Keys |-> IF k = UserPositionKey(u) THEN b ELSE store[k]]
  BY DEF Redis!SetNow, Redis!Overwrite
<1>2. dirty' \in [Accruers -> BOOLEAN] /\ watched' = watched
  BY DEF Redis!SetNow, TypeOK
<1>3. /\ \A v \in Users \ {u} : store'[UserPositionKey(v)] = store[UserPositionKey(v)]
      /\ \A v \in Users \cup {MODULE_ID} : store'[BareKey(v)] = store[BareKey(v)]
      /\ store'[ModulePositionKey] = store[ModulePositionKey]
      /\ \A v \in Users \cup {MODULE_ID} :
           store'[UserInterestKey(v)] = store[UserInterestKey(v)]
  BY <1>1, KeysDiffer, AreKeys
<1>4. store'[UserPositionKey(u)] = b
  BY <1>1, AreKeys
<1> QED
  BY <1>1, <1>2, <1>3, <1>4 DEF TypeOK, StoreType

\* A single HMSET of the module's position.
LEMMA SetModuleType ==
  ASSUME TypeOK, Redis!SetNow([k \in {ModulePositionKey} |-> Absent])
  PROVE  /\ StoreType'
         /\ \A v \in Users : store'[UserPositionKey(v)] = store[UserPositionKey(v)]
         /\ \A v \in Users \cup {MODULE_ID} :
              store'[UserInterestKey(v)] = store[UserInterestKey(v)]
<1>1. store' = [k \in Keys |-> IF k = ModulePositionKey THEN Absent ELSE store[k]]
  BY DEF Redis!SetNow, Redis!Overwrite
<1>2. dirty' \in [Accruers -> BOOLEAN] /\ watched' = watched
  BY DEF Redis!SetNow, TypeOK
<1>3. \A k \in Keys : store'[k] = store[k]
  BY <1>1 DEF TypeOK
<1>4. SameRedis
  BY <1>1, <1>2, <1>3 DEF TypeOK, SameRedis
<1> QED
  BY <1>4, SameStoreType

\* The user who is being accrued.
LEMMA UserType ==
  ASSUME Inv, NEW a \in Accruers, pc[a] \in Reading \cup Writing
  PROVE  /\ User(a) \in Users /\ batch[a] \in Seq(Users) /\ batch[a] \in Batches
         /\ next[a] \in 1 .. Len(batch[a]) /\ Len(batch[a]) \in Nat
<1>1. batch[a] \in Batches /\ next[a] \in 1 .. Len(batch[a])
  BY DEF Inv, Call, Placed, Reading, Writing
<1>2. batch[a] \in Seq(Users)
  BY <1>1, InterestAssumption
<1> QED
  BY <1>1, <1>2 DEF User

\* A step of a leaves the calls of the others alone.
SameCall(d) == /\ pc'[d] = pc[d] /\ batch'[d] = batch[d] /\ next'[d] = next[d]
               /\ now'[d] = now[d] /\ borrowed'[d] = borrowed[d]
               /\ mine'[d] = mine[d] /\ modules'[d] = modules[d]
               /\ txs'[d] = txs[d] /\ reported'[d] = reported[d]

LEMMA CallStays ==
  ASSUME Inv, NEW d \in Accruers, SameCall(d), HadGrows
  PROVE  Call(d)'
<1>1. Call(d)
  BY DEF Inv
<1>2. Placed(d)'
  BY <1>1 DEF Call, Placed, SameCall
<1>3. OneCharge(d)'
  <2>1. OneCharge(d) /\ User(d)' = User(d)
    BY <1>1 DEF Call, SameCall, User
  <2>2. CASE pc[d] = "interest"
    <3>1. User(d) \in Users
      BY <2>2, UserType DEF Reading
    <3> QED
      BY <2>1, <2>2, <3>1 DEF OneCharge, SameCall, HadGrows
  <2>3. CASE pc[d] = "writeUser"
    <3>1. User(d) \in Users
      BY <2>3, UserType DEF Writing
    <3>2. OneAccrual(User(d), mine[d].owed) /\ mine[d].paid = 0
      BY <2>1, <2>3 DEF OneCharge
    <3>3. OneAccrual(User(d), mine[d].owed)'
      BY <2>1, <3>1, <3>2, ChargeStays DEF OneAccrual, SameCall
    <3> QED
      BY <2>3, <3>2, <3>3 DEF OneCharge, SameCall
  <2>4. CASE pc[d] \notin {"interest", "writeUser"}
    BY <2>1, <2>4 DEF OneCharge, SameCall
  <2> QED
    BY <2>2, <2>3, <2>4
<1>4. Reports(d)'
  BY <1>1 DEF Call, Reports, SameCall, Completed, User
<1> QED
  BY <1>2, <1>3, <1>4 DEF Call

LEMMA StepOfOne ==
  ASSUME Inv, NEW a \in Accruers, UNCHANGED <<clock, had>>, \A d \in Accruers \ {a} : SameCall(d),
         TypeOK', Recorded', Call(a)'
  PROVE  Inv'
<1>1. \A d \in Accruers \ {a} : Call(d)'
  BY CallStays DEF HadGrows
<1> QED
  BY <1>1 DEF Inv

\* A call that fails keeps its transactions, and has completed no user.
LEMMA FailedReports ==
  ASSUME Inv, NEW a \in Accruers,
         pc'[a] \in {"failed", "watch"}, txs'[a] = txs[a], reported[a] \subseteq reported'[a]
  PROVE  Reports(a)'
<1>1. Completed(a)' = 0
  BY DEF Completed, Reading, Writing
<1>2. Len(txs[a]) \in Nat
  BY DEF Inv, TypeOK
<1>3. \A i \in DOMAIN txs[a] : txs[a][i] \in reported[a]
  BY DEF Inv, Call, Reports
<1>4. \A i \in DOMAIN txs'[a] : txs'[a][i] \in reported'[a]
  BY <1>3
<1>5. Completed(a)' <= Len(txs'[a])
  BY <1>1, <1>2
<1>6. \A i \in 1 .. Completed(a)' : FALSE
  BY <1>1
<1> QED
  BY <1>4, <1>5, <1>6 DEF Reports

-----------------------------------------------------------------------------
(* The steps                                                               *)

LEMMA InitInv == Init => Inv
<1> SUFFICES ASSUME Init PROVE Inv
  OBVIOUS
<1>1. PICK positions \in [Users -> 0 .. MaxBorrow] :
        /\ store = [k \in Keys |-> IF k[1] = "positions" THEN positions[k[2]] ELSE Absent]
        /\ had = [u \in Users |-> {<<1, positions[u]>>}]
  BY DEF Init
<1>2. \A u \in Users : /\ store[UserPositionKey(u)] \in 0 .. MaxBorrow
                       /\ store[UserPositionKey(u)] = positions[u]
  <2> SUFFICES ASSUME NEW u \in Users
               PROVE  /\ store[UserPositionKey(u)] \in 0 .. MaxBorrow
                      /\ store[UserPositionKey(u)] = positions[u]
    OBVIOUS
  <2>1. UserPositionKey(u) \in Keys /\ UserPositionKey(u)[1] = "positions" /\ UserPositionKey(u)[2] = u
    BY AreKeys DEF UserPositionKey
  <2> QED
    BY <1>1, <2>1
<1>3. \A u \in Users \cup {MODULE_ID} : store[UserInterestKey(u)] = Absent /\ store[BareKey(u)] = Absent
  <2> SUFFICES ASSUME NEW u \in Users \cup {MODULE_ID}
               PROVE  store[UserInterestKey(u)] = Absent /\ store[BareKey(u)] = Absent
    OBVIOUS
  <2>1. UserInterestKey(u) \in Keys /\ UserInterestKey(u)[1] # "positions"
    BY AreKeys DEF UserInterestKey
  <2>2. BareKey(u) \in Keys /\ BareKey(u)[1] # "positions"
    BY AreKeys DEF BareKey
  <2> QED
    BY <1>1, <2>1, <2>2
<1>4. Absent \in InterestRecord /\ NoInterest \in InterestRecord /\ Absent.owed = -1 /\ NoInterest.owed = 0
  BY DEF Absent, NoInterest, InterestRecord
<1>5. TypeOK
  <2>1. txs \in [Accruers -> Seq(Users \X Int)] /\ batch \in [Accruers -> Batches \cup {<<>>}]
    BY DEF Init
  <2>2. DOMAIN store = Keys
    BY <1>1
  <2>3. /\ watched \in [Accruers -> SUBSET Keys] /\ dirty \in [Accruers -> BOOLEAN]
        /\ pc \in [Accruers -> {"idle", "watch", "failed", "done"} \cup Reading \cup Writing]
        /\ reported \in [Accruers -> SUBSET (Users \X Int)]
    BY DEF Init
  <2>4. /\ clock \in Nat /\ next \in [Accruers -> Nat]
        /\ now \in [Accruers -> 0 .. clock] /\ borrowed \in [Accruers -> 0 .. MaxBorrow]
    BY InterestAssumption DEF Init
  <2>5. mine \in [Accruers -> InterestRecord] /\ modules \in [Accruers -> InterestRecord]
    BY <1>4 DEF Init
  <2>6. store[ModulePositionKey] = Absent
    <3>1. ModulePositionKey \in Keys /\ ModulePositionKey[1] # "positions"
      BY AreKeys DEF ModulePositionKey
    <3> QED
      BY <1>1, <3>1
  <2>7. StoreType
    BY <1>2, <1>3, <1>4, <2>2, <2>3, <2>6 DEF StoreType
  <2>8. had \in [Users -> SUBSET ((0 .. clock) \X (0 .. MaxBorrow))]
    <3>1. clock = 1 /\ \A u \in Users : positions[u] \in 0 .. MaxBorrow
      BY DEF Init
    <3>2. \A u \in Users : {<<1, positions[u]>>} \subseteq (0 .. clock) \X (0 .. MaxBorrow)
      BY <3>1
    <3> QED
      BY <1>1, <3>2
  <2> QED
    BY <2>1, <2>3, <2>4, <2>5, <2>7, <2>8 DEF TypeOK, StoreType
<1>6. HadNow
  BY <1>1, <1>2 DEF HadNow, Init
<1>7. Recorded
  <2>1. ASSUME NEW u \in Users PROVE OneAccrual(u, 0)
    BY <1>5, <1>6, ChargeOfNothing
  <2>2. ASSUME NEW u \in Users
        PROVE  Interest(store[UserInterestKey(u)]) = NoInterest
    BY <1>3 DEF Interest
  <2>3. NoInterest.owed + NoInterest.paid = 0
    BY DEF NoInterest
  <2>4. RecordIsOneAccrual
    BY <2>1, <2>2, <2>3 DEF RecordIsOneAccrual
  <2> QED
    BY <1>6, <2>4 DEF Recorded
<1>8. ASSUME NEW a \in Accruers PROVE Call(a)
  <2>1. /\ pc[a] = "idle" /\ next[a] = 1 /\ mine[a] = NoInterest /\ modules[a] = NoInterest
        /\ txs[a] = <<>>
    BY DEF Init
  <2>2. Placed(a)
    BY <2>1 DEF Placed, Reading, Writing
  <2>3. OneCharge(a)
    BY <2>1 DEF OneCharge
  <2>4. Completed(a) = 0
    BY <2>1 DEF Completed, Reading, Writing
  <2>5. Reports(a)
    BY <2>1, <2>4 DEF Reports
  <2> QED
    BY <2>2, <2>3, <2>5 DEF Call
<1> QED
  BY <1>5, <1>7, <1>8 DEF Inv

\* A step that changes no interest record of a user keeps what they hold.
LEMMA SameRecords ==
  ASSUME Inv, HadGrows,
         \A u \in Users : store'[UserInterestKey(u)] = store[UserInterestKey(u)]
  PROVE  RecordIsOneAccrual'
<1> SUFFICES ASSUME NEW u \in Users
             PROVE  LET i == Interest(store'[UserInterestKey(u)])
                    IN  \E h \in had'[u] : \E t \in 0 .. h[1] : i.owed + i.paid = t * h[2]
  BY DEF RecordIsOneAccrual, OneAccrual
<1> DEFINE i == Interest(store[UserInterestKey(u)])
<1>1. OneAccrual(u, i.owed + i.paid)
  BY DEF Inv, Recorded, RecordIsOneAccrual
<1> QED
  BY <1>1, ChargeStays

\* What the other services do to the record of a user is to move what is owed.
LEMMA PaidStep ==
  ASSUME Inv, InterestPaid
  PROVE  StoreType' /\ Recorded'
<1>1. PICK u \in Users :
        LET i == Interest(store[UserInterestKey(u)])
        IN  Redis!SetNow([k \in {UserInterestKey(u)} |-> [owed |-> 0, paid |-> i.paid + i.owed]])
  BY DEF InterestPaid
<1> DEFINE i == Interest(store[UserInterestKey(u)])
           r == [owed |-> 0, paid |-> i.paid + i.owed]
<1>2. /\ r \in InterestRecord /\ Interest(r) = r /\ r.owed + r.paid = i.owed + i.paid
      /\ OneAccrual(u, i.owed + i.paid)
  <2>1. i \in InterestRecord
    BY DEF Inv, TypeOK, InterestRecord, Interest, NoInterest
  <2>2. i.owed \in Int /\ i.paid \in Int
    BY <2>1 DEF InterestRecord
  <2>3. r # Absent
    BY DEF Absent
  <2>4. OneAccrual(u, i.owed + i.paid)
    BY DEF Inv, Recorded, RecordIsOneAccrual
  <2> QED
    BY <2>2, <2>3, <2>4 DEF InterestRecord, Interest
<1>3. Redis!SetNow([k \in {UserInterestKey(u)} |-> r])
  BY <1>1
<1>4. UNCHANGED <<clock, had>>
  BY DEF InterestPaid, OtherWrite
<1> HIDE DEF r
<1>5. /\ StoreType' /\ store'[UserInterestKey(u)] = r
      /\ \A v \in Users : store'[UserPositionKey(v)] = store[UserPositionKey(v)]
      /\ \A v \in (Users \cup {MODULE_ID}) \ {u} :
           store'[UserInterestKey(v)] = store[UserInterestKey(v)]
  BY <1>2, <1>3, SetInterestType DEF Inv
<1>6. HadNow'
  BY <1>4, <1>5 DEF Inv, Recorded, HadNow
<1>7. ASSUME NEW v \in Users
      PROVE  LET j == Interest(store'[UserInterestKey(v)])
             IN  OneAccrual(v, j.owed + j.paid)
  <2>1. CASE v = u
    BY <1>2, <1>5, <2>1
  <2>2. CASE v # u
    BY <1>5, <2>2 DEF Inv, Recorded, RecordIsOneAccrual
  <2> QED
    BY <2>1, <2>2
<1>8. RecordIsOneAccrual'
  BY <1>4, <1>7 DEF RecordIsOneAccrual, OneAccrual
<1> QED
  BY <1>5, <1>6, <1>8 DEF Recorded

\* Time passes, and the other services write.
LEMMA OtherSteps ==
  ASSUME Inv, Tick \/ PositionSet \/ ModulePositionSet \/ InterestPaid
  PROVE  Inv'
<1>1. /\ UNCHANGED <<pc, batch, next, now, borrowed, mine, modules, txs, reported>>
      /\ clock' \in {clock, clock + 1}
  BY DEF Tick, PositionSet, ModulePositionSet, InterestPaid, OtherWrite, callVars
<1>2. clock \in Nat /\ clock' \in Nat /\ clock <= clock'
  BY <1>1 DEF Inv, TypeOK
<1> DEFINE Values == (0 .. clock') \X (0 .. MaxBorrow)
<1>3. StoreType' /\ Recorded' /\ HadGrows /\ had' \in [Users -> SUBSET Values]
  <2>0. had \in [Users -> SUBSET Values]
    <3>1. (0 .. clock) \X (0 .. MaxBorrow) \subseteq Values
      BY <1>2
    <3> HIDE DEF Values
    <3> QED
      BY <3>1 DEF Inv, TypeOK
  <2>1. CASE Tick
    <3>1. /\ UNCHANGED <<store, watched, dirty>> /\ clock' = clock + 1
          /\ had' = [u \in Users |-> had[u] \cup {<<clock', store[UserPositionKey(u)]>>}]
      BY <2>1 DEF Tick
    <3>2. StoreType'
      BY <3>1 DEF Inv, TypeOK, StoreType
    <3>3. \A u \in Users : <<clock', store[UserPositionKey(u)]>> \in Values
      BY <1>2 DEF Inv, TypeOK
    <3> HIDE DEF Values
    <3>4. HadGrows /\ had' \in [Users -> SUBSET Values]
      BY <2>0, <3>1, <3>3 DEF HadGrows
    <3>5. HadNow'
      BY <3>1 DEF HadNow
    <3>6. RecordIsOneAccrual'
      BY <3>1, <3>4, SameRecords
    <3> QED
      BY <3>2, <3>4, <3>5, <3>6 DEF Recorded
  <2>2. CASE PositionSet
    <3>1. PICK u \in Users, b \in 0 .. MaxBorrow :
            /\ Redis!SetNow([k \in {UserPositionKey(u)} |-> b])
            /\ had' = [had EXCEPT ![u] = @ \cup {<<clock, b>>}]
      BY <2>2 DEF PositionSet
    <3>2. clock' = clock
      BY <2>2 DEF PositionSet, OtherWrite
    <3>3. /\ StoreType' /\ store'[UserPositionKey(u)] = b
          /\ \A v \in Users \ {u} : store'[UserPositionKey(v)] = store[UserPositionKey(v)]
          /\ \A v \in Users \cup {MODULE_ID} :
               store'[UserInterestKey(v)] = store[UserInterestKey(v)]
      BY <3>1, SetPositionType DEF Inv
    <3>4. <<clock, b>> \in Values
      BY <1>2, <3>2
    <3> HIDE DEF Values
    <3>5. HadGrows /\ had' \in [Users -> SUBSET Values]
      BY <2>0, <3>1, <3>4 DEF HadGrows
    <3>6. HadNow'
      <4>1. had[u] \in SUBSET Values /\ DOMAIN had = Users
        BY <2>0
      <4> QED
        BY <3>1, <3>2, <3>3, <4>1 DEF Inv, Recorded, HadNow
    <3>7. RecordIsOneAccrual'
      BY <3>3, <3>5, SameRecords
    <3> QED
      BY <3>3, <3>5, <3>6, <3>7 DEF Recorded
  <2>3. CASE ModulePositionSet
    <3>1. /\ Redis!SetNow([k \in {ModulePositionKey} |-> Absent])
          /\ UNCHANGED <<clock, had>>
      BY <2>3 DEF ModulePositionSet, OtherWrite
    <3>2. /\ StoreType'
          /\ \A v \in Users : store'[UserPositionKey(v)] = store[UserPositionKey(v)]
          /\ \A v \in Users \cup {MODULE_ID} :
               store'[UserInterestKey(v)] = store[UserInterestKey(v)]
      BY <3>1, SetModuleType DEF Inv
    <3> HIDE DEF Values
    <3>3. HadGrows /\ had' \in [Users -> SUBSET Values] /\ HadNow'
      BY <2>0, <3>1, <3>2 DEF HadGrows, Inv, Recorded, HadNow
    <3> QED
      BY <3>2, <3>3, SameRecords DEF Recorded
  <2>4. CASE InterestPaid
    <3>1. UNCHANGED had
      BY <2>4 DEF InterestPaid
    <3> HIDE DEF Values
    <3> QED
      BY <2>0, <2>4, <3>1, PaidStep DEF HadGrows
  <2> QED
    BY <2>1, <2>2, <2>3, <2>4
<1>4. TypeOK'
  <2>1. now' \in [Accruers -> 0 .. clock']
    BY <1>1, <1>2 DEF Inv, TypeOK
  <2> QED
    BY <1>1, <1>2, <1>3, <2>1 DEF Inv, TypeOK, StoreType
<1>5. ASSUME NEW a \in Accruers PROVE Call(a)'
  <2>1. SameCall(a)
    BY <1>1 DEF SameCall
  <2> QED
    BY <1>3, <2>1, CallStays
<1> QED
  BY <1>3, <1>4, <1>5 DEF Inv

\* What the steps of TryTransaction do not touch.
LEMMA RedisUntouched ==
  ASSUME Inv, SameRedis, UNCHANGED <<clock, had>>
  PROVE  StoreType' /\ Recorded'
<1>1. /\ StoreType'
      /\ \A u \in Users : store'[UserPositionKey(u)] = store[UserPositionKey(u)]
      /\ \A u \in Users : store'[UserInterestKey(u)] = store[UserInterestKey(u)]
  BY SameStoreType DEF Inv
<1>2. HadNow'
  BY <1>1 DEF Inv, Recorded, HadNow
<1>3. RecordIsOneAccrual'
  BY <1>1, SameRecords DEF HadGrows
<1> QED
  BY <1>1, <1>2, <1>3 DEF Recorded

LEMMA BeginStep ==
  ASSUME Inv, NEW a \in Accruers, Begin(a)
  PROVE  Inv'
<1>1. /\ pc[a] = "idle" /\ pc' = [pc EXCEPT ![a] = "watch"]
      /\ UNCHANGED <<store, watched, dirty, clock, had, next, now, borrowed, mine, modules, txs, reported>>
  BY DEF Begin, Goto
<1>2. PICK b \in Batches : batch' = [batch EXCEPT ![a] = b]
  BY DEF Begin
<1>3. TypeOK'
  BY <1>1, <1>2 DEF Inv, TypeOK
<1>4. Recorded' /\ \A d \in Accruers \ {a} : SameCall(d)
  BY <1>1, <1>2 DEF Inv, TypeOK, SameCall, Recorded, HadNow, RecordIsOneAccrual, OneAccrual
<1>5. pc'[a] = "watch" /\ batch'[a] \in Batches
  BY <1>1, <1>2 DEF Inv, TypeOK
<1>6. Call(a)'
  <2>1. Placed(a)'
    BY <1>1, <1>5 DEF Inv, Call, Placed, Reading, Writing
  <2>2. OneCharge(a)'
    BY <1>1, <1>5 DEF Inv, Call, OneCharge
  <2>3. Reports(a)'
    BY <1>1, <1>5, FailedReports
  <2> QED
    BY <2>1, <2>2, <2>3 DEF Call
<1> QED
  BY <1>1, <1>3, <1>4, <1>6, StepOfOne

LEMMA WatchStep ==
  ASSUME Inv, NEW a \in Accruers, Watch(a)
  PROVE  Inv'
<1>1. /\ pc[a] = "watch" /\ pc' = [pc EXCEPT ![a] = "module"]
      /\ UNCHANGED <<clock, had, batch, next, now, borrowed, mine, modules, txs, reported>>
      /\ watched' = [watched EXCEPT ![a] = @ \cup WatchList(a)] /\ UNCHANGED <<store, dirty>>
  BY DEF Watch, Goto, Redis!WatchKeys
<1>2. batch[a] \in Seq(Users) \ {<<>>} /\ next[a] = 1 /\ batch[a] \in Batches
  BY <1>1, InterestAssumption DEF Inv, Call, Placed
<1>3. WatchList(a) \subseteq Keys
  <2>1. \A i \in DOMAIN batch[a] : batch[a][i] \in Users
    BY <1>2
  <2>2. UserInterestKey(MODULE_ID) \in Keys /\ ModulePositionKey \in Keys
    BY AreKeys DEF Keys
  <2>3. \A i \in DOMAIN batch[a] : UserInterestKey(batch[a][i]) \in Keys /\ UserPositionKey(batch[a][i]) \in Keys
    BY <2>1, AreKeys
  <2> QED
    BY <2>2, <2>3 DEF WatchList
<1>4. TypeOK'
  <2>1. watched' \in [Accruers -> SUBSET Keys]
    BY <1>1, <1>3 DEF Inv, TypeOK
  <2>2. pc' \in [Accruers -> {"idle", "watch", "failed", "done"} \cup Reading \cup Writing]
    BY <1>1 DEF Inv, TypeOK, Reading
  <2> QED
    BY <1>1, <2>1, <2>2 DEF Inv, TypeOK
<1>5. Recorded' /\ \A d \in Accruers \ {a} : SameCall(d)
  BY <1>1 DEF Inv, TypeOK, SameCall, Recorded, HadNow, RecordIsOneAccrual, OneAccrual
<1>6. pc'[a] = "module"
  BY <1>1 DEF Inv, TypeOK
<1>7. Call(a)'
  <2>1. 1 \in 1 .. Len(batch[a])
    BY <1>2
  <2>2. Placed(a)'
    BY <1>1, <1>2, <1>6, <2>1 DEF Placed
  <2>3. OneCharge(a)'
    BY <1>1, <1>6 DEF Inv, Call, OneCharge
  <2>4. Completed(a)' = 0 /\ Completed(a) = 0
    BY <1>1, <1>2, <1>6 DEF Completed, Reading, Writing
  <2>5. \A i \in 1 .. Completed(a)' : FALSE
    BY <2>4
  <2>6. /\ \A i \in DOMAIN txs'[a] : txs'[a][i] \in reported'[a]
        /\ Completed(a)' <= Len(txs'[a])
    BY <1>1, <2>4 DEF Inv, Call, Reports
  <2>7. Reports(a)'
    BY <1>6, <2>5, <2>6 DEF Reports
  <2> QED
    BY <2>2, <2>3, <2>7 DEF Call
<1> QED
  BY <1>1, <1>4, <1>5, <1>7, StepOfOne

\* A command that is refused or does not get through.
LEMMA FailStep ==
  ASSUME Inv, NEW a \in Accruers, Refused(a) \/ CommandFails(a)
  PROVE  Inv'
<1>1. /\ pc[a] \in Reading \cup Writing /\ pc' = [pc EXCEPT ![a] = "failed"]
      /\ UNCHANGED <<clock, had, batch, next, now, borrowed, mine, modules, txs, reported>>
  BY DEF Refused, CommandFails, Goto
<1>2. SameRedis
  BY ReadsChangeNothing DEF Inv, Refused, CommandFails
<1>3. StoreType' /\ Recorded'
  BY <1>1, <1>2, RedisUntouched
<1>4. TypeOK'
  BY <1>1, <1>3 DEF Inv, TypeOK, StoreType
<1>5. pc'[a] = "failed" /\ \A d \in Accruers \ {a} : SameCall(d)
  BY <1>1 DEF Inv, TypeOK, SameCall
<1>6. Call(a)'
  <2>1. Placed(a)'
    BY <1>1, <1>5 DEF Inv, Call, Placed, Reading, Writing
  <2>2. OneCharge(a)'
    BY <1>1, <1>5 DEF Inv, Call, OneCharge
  <2>3. Reports(a)'
    BY <1>1, <1>5, FailedReports
  <2> QED
    BY <2>1, <2>2, <2>3 DEF Call
<1> QED
  BY <1>1, <1>3, <1>4, <1>5, <1>6, StepOfOne

\* Another attempt, or the end of the call.
LEMMA RestartStep ==
  ASSUME Inv, NEW a \in Accruers, Retry(a) \/ GiveUp(a) \/ ReturnNil(a)
  PROVE  Inv'
<1>1. UNCHANGED <<store, watched, dirty, clock, had>> /\ Forget(a)
  BY DEF Retry, GiveUp, ReturnNil, Leave
<1>2. /\ next' = [next EXCEPT ![a] = 1] /\ now' = [now EXCEPT ![a] = 0]
      /\ borrowed' = [borrowed EXCEPT ![a] = 0] /\ mine' = [mine EXCEPT ![a] = NoInterest]
      /\ modules' = [modules EXCEPT ![a] = NoInterest]
  BY <1>1 DEF Forget
<1>3. NoInterest \in InterestRecord /\ NoInterest.owed = 0
  BY DEF NoInterest, InterestRecord
<1>4. /\ next' \in [Accruers -> Nat] /\ now' \in [Accruers -> 0 .. clock]
      /\ borrowed' \in [Accruers -> 0 .. MaxBorrow]
      /\ mine' \in [Accruers -> InterestRecord] /\ modules' \in [Accruers -> InterestRecord]
  BY <1>2, <1>3, InterestAssumption DEF Inv, TypeOK
<1>5. next'[a] = 1 /\ mine'[a] = NoInterest /\ modules'[a] = NoInterest
  BY <1>2 DEF Inv, TypeOK
<1>5a. pc'[a] \in {"watch", "idle"}
  BY DEF Inv, TypeOK, Retry, GiveUp, ReturnNil, Leave, Goto
<1>6. OneCharge(a)'
  BY <1>1, <1>5, <1>5a DEF OneCharge
<1>7. Recorded'
  BY <1>1 DEF Inv, Recorded, HadNow, RecordIsOneAccrual, OneAccrual
<1>8. CASE Retry(a)
  <2>1. /\ pc[a] = "failed" /\ pc' = [pc EXCEPT ![a] = "watch"]
        /\ UNCHANGED <<batch, txs, reported>>
    BY <1>8 DEF Retry, Goto
  <2>2. TypeOK'
    BY <1>1, <1>4, <2>1 DEF Inv, TypeOK
  <2>3. pc'[a] = "watch" /\ \A d \in Accruers \ {a} : SameCall(d)
    BY <1>2, <2>1 DEF Inv, TypeOK, SameCall
  <2>4. Placed(a)'
    BY <1>5, <2>1, <2>3 DEF Inv, Call, Placed, Reading, Writing
  <2>5. Reports(a)'
    BY <2>1, <2>3, FailedReports
  <2>6. Call(a)'
    BY <1>6, <2>4, <2>5 DEF Call
  <2> QED
    BY <1>1, <1>7, <2>2, <2>3, <2>6, StepOfOne
<1>9. CASE GiveUp(a) \/ ReturnNil(a)
  <2>1. /\ pc' = [pc EXCEPT ![a] = "idle"] /\ batch' = [batch EXCEPT ![a] = <<>>]
        /\ txs' = [txs EXCEPT ![a] = <<>>] /\ reported' = [reported EXCEPT ![a] = {}]
    BY <1>9 DEF GiveUp, ReturnNil, Leave, Goto
  <2>2. TypeOK'
    <3>1. /\ pc' \in [Accruers -> {"idle", "watch", "failed", "done"} \cup Reading \cup Writing]
          /\ batch' \in [Accruers -> Batches \cup {<<>>}]
      BY <2>1 DEF Inv, TypeOK
    <3> DEFINE T == Seq(Users \X Int)
    <3>2. <<>> \in T /\ txs \in [Accruers -> T]
      BY DEF Inv, TypeOK
    <3> HIDE DEF T
    <3>3. txs' \in [Accruers -> T]
      BY <2>1, <3>2
    <3>4. reported' \in [Accruers -> SUBSET (Users \X Int)]
      BY <2>1 DEF Inv, TypeOK
    <3> QED
      BY <1>1, <1>4, <3>1, <3>3, <3>4 DEF Inv, TypeOK, T
  <2>3. /\ pc'[a] = "idle" /\ txs'[a] = <<>>
        /\ \A d \in Accruers \ {a} : SameCall(d)
    BY <1>2, <2>1 DEF Inv, TypeOK, SameCall
  <2>4. Placed(a)'
    BY <1>5, <2>3 DEF Placed, Reading, Writing
  <2>5. Reports(a)'
    <3>1. Completed(a)' = 0
      BY <2>3 DEF Completed, Reading, Writing
    <3>2. \A i \in 1 .. Completed(a)' : FALSE
      BY <3>1
    <3> QED
      BY <2>3, <3>1, <3>2 DEF Reports
  <2>6. Call(a)'
    BY <1>6, <2>4, <2>5 DEF Call
  <2> QED
    BY <1>1, <1>7, <2>2, <2>3, <2>6, StepOfOne
<1> QED
  BY <1>8, <1>9

\* The first transaction of accrueLendingInterestTx reads the module's interest,
\* which is not there.
LEMMA ReadModuleStep ==
  ASSUME Inv, NEW a \in Accruers, ReadModule(a)
  PROVE  Inv'
<1>1. /\ pc[a] = "module" /\ pc' = [pc EXCEPT ![a] = "position"]
      /\ now' = [now EXCEPT ![a] = clock]
      /\ modules' = [modules EXCEPT ![a] = Interest(store[BareKey(MODULE_ID)])]
      /\ UNCHANGED <<clock, had, batch, next, borrowed, mine, txs, reported>>
  BY DEF ReadModule, Goto, InterestReadKey
<1>2. SameRedis
  BY ReadsChangeNothing DEF Inv, ReadModule
<1>3. StoreType' /\ Recorded'
  BY <1>1, <1>2, RedisUntouched
<1>4. /\ Interest(store[BareKey(MODULE_ID)]) = NoInterest
      /\ NoInterest \in InterestRecord /\ NoInterest.owed = 0
  BY DEF Inv, TypeOK, Interest, NoInterest, InterestRecord
<1>5. TypeOK'
  <2>1. now' \in [Accruers -> 0 .. clock] /\ modules' \in [Accruers -> InterestRecord]
    BY <1>1, <1>4 DEF Inv, TypeOK
  <2>2. pc' \in [Accruers -> {"idle", "watch", "failed", "done"} \cup Reading \cup Writing]
    BY <1>1 DEF Inv, TypeOK, Reading
  <2> QED
    BY <1>1, <1>3, <2>1, <2>2 DEF Inv, TypeOK, StoreType
<1>6. /\ pc'[a] = "position" /\ modules'[a] = NoInterest
      /\ \A d \in Accruers \ {a} : SameCall(d)
  BY <1>1, <1>4 DEF Inv, TypeOK, SameCall
<1>7. Call(a)
  BY DEF Inv
<1>8. Call(a)'
  <2>1. Placed(a)'
    BY <1>1, <1>6, <1>7 DEF Call, Placed, Reading, Writing
  <2>2. OneCharge(a)'
    BY <1>6 DEF OneCharge
  <2>3. Completed(a)' = Completed(a)
    BY <1>1, <1>6 DEF Completed, Reading, Writing
  <2>4. Reports(a)'
    BY <1>1, <1>6, <1>7, <2>3 DEF Call, Reports
  <2> QED
    BY <2>1, <2>2, <2>4 DEF Call
<1> QED
  BY <1>1, <1>3, <1>5, <1>6, <1>8, StepOfOne

\* The user's position bounds what is borrowed.
LEMMA ReadPositionStep ==
  ASSUME Inv, NEW a \in Accruers, ReadPosition(a)
  PROVE  Inv'
<1>1. /\ pc[a] = "position" /\ pc' = [pc EXCEPT ![a] = "interest"]
      /\ borrowed' = [borrowed EXCEPT ![a] = store[UserPositionKey(User(a))]]
      /\ UNCHANGED <<clock, had, batch, next, now, mine, modules, txs, reported>>
  BY DEF ReadPosition, Goto
<1>2. SameRedis
  BY ReadsChangeNothing DEF Inv, ReadPosition
<1>3. StoreType' /\ Recorded'
  BY <1>1, <1>2, RedisUntouched
<1>4. TypeOK'
  <2>1. store[UserPositionKey(User(a))] \in 0 .. MaxBorrow
    BY <1>1, UserType DEF Inv, TypeOK, Reading
  <2>2. borrowed' \in [Accruers -> 0 .. MaxBorrow]
    BY <1>1, <2>1 DEF Inv, TypeOK
  <2>3. pc' \in [Accruers -> {"idle", "watch", "failed", "done"} \cup Reading \cup Writing]
    BY <1>1 DEF Inv, TypeOK, Reading
  <2> QED
    BY <1>1, <1>3, <2>2, <2>3 DEF Inv, TypeOK, StoreType
<1>5. pc'[a] = "interest" /\ \A d \in Accruers \ {a} : SameCall(d)
  BY <1>1 DEF Inv, TypeOK, SameCall
<1>6. Call(a)
  BY DEF Inv
<1>7. Call(a)'
  <2>1. Placed(a)'
    BY <1>1, <1>5, <1>6 DEF Call, Placed, Reading, Writing
  <2>2. OneCharge(a)'
    <3>1. User(a)' = User(a) /\ User(a) \in Users
      BY <1>1, UserType DEF User, Reading
    <3>2. borrowed'[a] = store[UserPositionKey(User(a))] /\ now'[a] = now[a] /\ now[a] <= clock
      BY <1>1 DEF Inv, TypeOK
    <3>3. <<clock, store[UserPositionKey(User(a))]>> \in had'[User(a)']
      BY <1>1, <3>1 DEF Inv, Recorded, HadNow
    <3> QED
      BY <1>1, <1>5, <1>6, <3>2, <3>3 DEF Call, OneCharge
  <2>3. Completed(a)' = Completed(a)
    BY <1>1, <1>5 DEF Completed, Reading, Writing
  <2>4. Reports(a)'
    BY <1>1, <1>5, <1>6, <2>3 DEF Call, Reports
  <2> QED
    BY <2>1, <2>2, <2>4 DEF Call
<1> QED
  BY <1>1, <1>3, <1>4, <1>5, <1>7, StepOfOne

\* The interest is computed from nothing owed, so it is for no more time than
\* has passed.
LEMMA ReadInterestStep ==
  ASSUME Inv, NEW a \in Accruers, ReadInterest(a)
  PROVE  Inv'
<1> DEFINE old == Interest(store[BareKey(User(a))])
<1>1. /\ pc[a] = "interest" /\ pc' = [pc EXCEPT ![a] = "writeUser"]
      /\ mine' = [mine EXCEPT ![a] = Owing(old, Accrued(a))]
      /\ modules' = [modules EXCEPT ![a] = Owing(modules[a], Accrued(a))]
      /\ UNCHANGED <<clock, had, batch, next, now, borrowed, txs, reported>>
  BY DEF ReadInterest, Goto, InterestReadKey
<1>2. SameRedis
  BY ReadsChangeNothing DEF Inv, ReadInterest
<1>3. StoreType' /\ Recorded'
  BY <1>1, <1>2, RedisUntouched
<1>4. Call(a)
  BY DEF Inv
<1>5. old = NoInterest /\ modules[a] = NoInterest
  <2>1. store[BareKey(User(a))] = Absent
    BY <1>1, UserType DEF Inv, TypeOK, Reading
  <2> QED
    BY <1>1, <1>4, <2>1 DEF Interest, Call, OneCharge
<1>6. Accrued(a) \in Int /\ OneAccrual(User(a), Accrued(a))
  <2>1. PICK h \in had[User(a)] : now[a] <= h[1] /\ borrowed[a] = h[2]
    BY <1>1, <1>4 DEF Call, OneCharge
  <2>2. now[a] \in Nat /\ borrowed[a] \in Nat
    BY InterestAssumption DEF Inv, TypeOK
  <2>3. h[1] \in Nat
    <3>1. User(a) \in Users
      BY <1>1, UserType DEF Reading
    <3> QED
      BY <2>1, <3>1 DEF Inv, TypeOK
  <2>4. now[a] \in 0 .. h[1] /\ Accrued(a) = now[a] * h[2]
    BY <2>1, <2>2, <2>3 DEF Accrued
  <2>5. Accrued(a) \in Int
    BY <2>2 DEF Accrued
  <2> QED
    BY <2>1, <2>4, <2>5 DEF OneAccrual
<1>7. /\ Owing(NoInterest, Accrued(a)) \in InterestRecord
      /\ Owing(NoInterest, Accrued(a)).owed = Accrued(a)
      /\ Owing(NoInterest, Accrued(a)).paid = 0
  BY <1>6 DEF Owing, NoInterest, InterestRecord
<1> HIDE DEF old
<1>8. TypeOK'
  <2>1. mine' \in [Accruers -> InterestRecord] /\ modules' \in [Accruers -> InterestRecord]
    BY <1>1, <1>5, <1>7 DEF Inv, TypeOK
  <2>2. pc' \in [Accruers -> {"idle", "watch", "failed", "done"} \cup Reading \cup Writing]
    BY <1>1 DEF Inv, TypeOK, Writing
  <2> QED
    BY <1>1, <1>3, <2>1, <2>2 DEF Inv, TypeOK, StoreType
<1>9. /\ pc'[a] = "writeUser" /\ mine'[a].owed = Accrued(a) /\ mine'[a].paid = 0
      /\ \A d \in Accruers \ {a} : SameCall(d)
  <2>1. pc'[a] = "writeUser" /\ \A d \in Accruers \ {a} : SameCall(d)
    BY <1>1 DEF Inv, TypeOK, SameCall
  <2>2. mine'[a] = Owing(NoInterest, Accrued(a))
    BY <1>1, <1>5 DEF Inv, TypeOK
  <2> QED
    BY <1>7, <2>1, <2>2
<1>10. Call(a)'
  <2>1. Placed(a)'
    BY <1>1, <1>4, <1>9 DEF Call, Placed, Reading, Writing
  <2>2. OneCharge(a)'
    <3>1. User(a)' = User(a)
      BY <1>1 DEF User
    <3>2. OneAccrual(User(a), mine[a].owed)'
      BY <1>1, <1>6, <1>9, <3>1 DEF OneAccrual
    <3> QED
      BY <1>9, <3>2 DEF OneCharge
  <2>3. Completed(a)' = Completed(a)
    BY <1>1, <1>9 DEF Completed, Reading, Writing
  <2>4. Reports(a)'
    BY <1>1, <1>4, <1>9, <2>3 DEF Call, Reports
  <2> QED
    BY <2>1, <2>2, <2>4 DEF Call
<1> QED
  BY <1>1, <1>3, <1>8, <1>9, <1>10, StepOfOne

LEMMA WriteUserStep ==
  ASSUME Inv, NEW a \in Accruers, WriteUser(a)
  PROVE  Inv'
<1>1. /\ pc[a] = "writeUser"
      /\ reported' = [reported EXCEPT ![a] = @ \cup {<<User(a), mine[a].owed>>}]
      /\ \E place \in {"writeModule", "failed"} : pc' = [pc EXCEPT ![a] = place]
      /\ UNCHANGED <<clock, had, batch, next, now, borrowed, mine, modules, txs>>
  BY DEF WriteUser, Goto
<1>2. PICK place \in {"writeModule", "failed"} : pc' = [pc EXCEPT ![a] = place]
  BY <1>1
<1>3. Call(a)
  BY DEF Inv
<1>4. User(a) \in Users /\ mine[a] \in InterestRecord /\ mine[a].owed \in Int
  BY <1>1, UserType DEF Inv, TypeOK, Writing, InterestRecord
<1>5. StoreType' /\ Recorded'
  <2>1. Redis!SetNow([k \in {UserInterestKey(User(a))} |-> mine[a]])
    BY DEF WriteUser
  <2>2. /\ StoreType' /\ store'[UserInterestKey(User(a))] = mine[a]
        /\ \A v \in Users : store'[UserPositionKey(v)] = store[UserPositionKey(v)]
        /\ \A v \in (Users \cup {MODULE_ID}) \ {User(a)} :
             store'[UserInterestKey(v)] = store[UserInterestKey(v)]
    BY <1>4, <2>1, SetInterestType DEF Inv
  <2>3. HadNow'
    BY <1>1, <2>2 DEF Inv, Recorded, HadNow
  <2>4. OneAccrual(User(a), mine[a].owed) /\ mine[a].paid = 0
    BY <1>1, <1>3 DEF Call, OneCharge
  <2>5. LET i == Interest(mine[a]) IN OneAccrual(User(a), i.owed + i.paid)
    <3>1. CASE mine[a] = Absent
      <4>1. OneAccrual(User(a), 0)
        BY <1>4, ChargeOfNothing DEF Inv, Recorded
      <4>2. NoInterest.owed + NoInterest.paid = 0
        BY DEF NoInterest
      <4> QED
        BY <3>1, <4>1, <4>2 DEF Interest
    <3>2. CASE mine[a] # Absent
      <4>1. mine[a].owed + mine[a].paid = mine[a].owed
        BY <1>4, <2>4
      <4> QED
        BY <2>4, <3>2, <4>1 DEF Interest
    <3> QED
      BY <3>1, <3>2
  <2>6. ASSUME NEW v \in Users
        PROVE  LET j == Interest(store'[UserInterestKey(v)])
               IN  OneAccrual(v, j.owed + j.paid)
    <3>1. CASE v = User(a)
      BY <2>2, <2>5, <3>1
    <3>2. CASE v # User(a)
      BY <2>2, <3>2 DEF Inv, Recorded, RecordIsOneAccrual
    <3> QED
      BY <3>1, <3>2
  <2>7. RecordIsOneAccrual'
    BY <1>1, <2>6 DEF RecordIsOneAccrual, OneAccrual
  <2> QED
    BY <2>2, <2>3, <2>7 DEF Recorded
<1>6. TypeOK'
  <2>1. reported' \in [Accruers -> SUBSET (Users \X Int)]
    BY <1>1, <1>4 DEF Inv, TypeOK
  <2>2. pc' \in [Accruers -> {"idle", "watch", "failed", "done"} \cup Reading \cup Writing]
    BY <1>2 DEF Inv, TypeOK, Writing
  <2> QED
    BY <1>1, <1>5, <2>1, <2>2 DEF Inv, TypeOK, StoreType
<1>7. /\ pc'[a] = place /\ reported'[a] = reported[a] \cup {<<User(a), mine[a].owed>>}
      /\ \A d \in Accruers \ {a} : SameCall(d)
  BY <1>1, <1>2 DEF Inv, TypeOK, SameCall
<1>8. Call(a)'
  <2>1. Placed(a)'
    BY <1>1, <1>3, <1>7 DEF Call, Placed, Reading, Writing
  <2>2. OneCharge(a)'
    BY <1>7 DEF OneCharge
  <2>3. Reports(a)'
    <3>1. CASE place = "failed"
      BY <1>1, <1>7, <3>1, FailedReports
    <3>2. CASE place = "writeModule"
      <4>1. Completed(a)' = Completed(a)
        BY <1>1, <1>7, <3>2 DEF Completed, Reading, Writing
      <4>2. User(a)' = User(a)
        BY <1>1 DEF User
      <4> QED
        BY <1>1, <1>3, <1>7, <4>1, <4>2 DEF Call, Reports
    <3> QED
      BY <3>1, <3>2
  <2> QED
    BY <2>1, <2>2, <2>3 DEF Call
<1> QED
  BY <1>1, <1>5, <1>6, <1>7, <1>8, StepOfOne

\* A transaction is appended, and the next user of the batch follows.
LEMMA AppendedReports ==
  ASSUME Inv, NEW a \in Accruers, pc[a] = "writeModule",
         txs'[a] = Append(txs[a], <<User(a), mine[a].owed>>), reported'[a] = reported[a],
         batch'[a] = batch[a], pc'[a] \in {"module", "done"},
         Completed(a)' = next[a]
  PROVE  Reports(a)'
<1>1. /\ txs[a] \in Seq(Users \X Int) /\ <<User(a), mine[a].owed>> \in Users \X Int
      /\ next[a] \in Nat /\ User(a) = batch[a][next[a]] /\ next[a] >= 1
  <2>1. User(a) \in Users /\ next[a] \in 1 .. Len(batch[a]) /\ Len(batch[a]) \in Nat
    BY UserType DEF Writing
  <2>2. mine[a].owed \in Int /\ txs[a] \in Seq(Users \X Int)
    BY DEF Inv, TypeOK, InterestRecord
  <2> QED
    BY <2>1, <2>2 DEF User
<1>2. Completed(a) = next[a] - 1
  BY DEF Completed, Writing, Reading
<1>3. Reports(a)
  BY DEF Inv, Call
<1>4a. PICK t \in Seq(Users \X Int) : t = txs[a]
  BY <1>1
<1>4b. PICK x \in Users \X Int : x = <<User(a), mine[a].owed>>
  BY <1>1
<1>4c. PICK c \in Nat : c = next[a] - 1
  BY <1>1
<1>4d. PICK users \in Seq(Users) : users = batch[a]
  BY UserType DEF Writing
<1>4e. PICK u \in Seq(Users \X Int) : u = txs'[a] /\ u = Append(t, x)
  <2>1. Append(t, x) \in Seq(Users \X Int)
    OBVIOUS
  <2>2. Append(t, x) = txs'[a]
    BY <1>4a, <1>4b
  <2> QED
    BY <2>1, <2>2
<1>4. /\ t = txs[a] /\ x = <<User(a), mine[a].owed>> /\ c = next[a] - 1
      /\ users = batch[a] /\ u = txs'[a] /\ u = Append(t, x)
  BY <1>4a, <1>4b, <1>4c, <1>4d, <1>4e
<1>5. /\ c <= Len(t) /\ x[1] = users[c + 1] /\ u = Append(t, x)
      /\ \A i \in 1 .. c : t[Len(t) - c + i][1] = users[i]
  <2>1. Completed(a) = c
    BY <1>2, <1>4
  <2>2. c <= Len(t) /\ \A i \in 1 .. c : t[Len(t) - c + i][1] = users[i]
    BY <1>3, <1>4, <2>1 DEF Reports
  <2>3. x[1] = User(a) /\ next[a] = c + 1
    BY <1>1, <1>4
  <2> QED
    BY <1>1, <1>4, <2>2, <2>3
<1>6. /\ Len(t) \in Nat /\ Len(u) = Len(t) + 1 /\ DOMAIN u = 1 .. (Len(t) + 1)
      /\ DOMAIN t = 1 .. Len(t) /\ u[Len(t) + 1] = x
      /\ \A i \in 1 .. Len(t) : u[i] = t[i]
  BY <1>5
<1>7. ASSUME NEW i \in 1 .. (c + 1)
      PROVE  u[Len(u) - (c + 1) + i][1] = users[i]
  <2>1. Len(u) - (c + 1) + i = Len(t) - c + i
    BY <1>6
  <2>2. CASE i = c + 1
    <3>1. Len(t) - c + i = Len(t) + 1
      BY <1>6, <2>2
    <3> QED
      BY <1>5, <1>6, <2>1, <2>2, <3>1
  <2>3. CASE i # c + 1
    <3>1. i \in 1 .. c /\ Len(t) - c + i \in 1 .. Len(t)
      BY <1>5, <1>6, <2>3
    <3> QED
      BY <1>5, <1>6, <2>1, <3>1
  <2> QED
    BY <2>2, <2>3
<1>8. ASSUME NEW i \in DOMAIN txs'[a]
      PROVE  txs'[a][i] \in reported'[a]
  <2>1. CASE i = Len(t) + 1
    BY <1>3, <1>4, <1>6, <2>1 DEF Reports
  <2>2. CASE i # Len(t) + 1
    <3>1. i \in DOMAIN t
      BY <1>4, <1>6, <2>2
    <3> QED
      BY <1>3, <1>4, <1>6, <3>1 DEF Reports
  <2> QED
    BY <2>1, <2>2
<1>9. Completed(a)' = c + 1
  BY <1>1, <1>4
<1>10. \A i \in 1 .. Completed(a)' :
         txs'[a][Len(txs'[a]) - Completed(a)' + i][1] = batch'[a][i]
  BY <1>4, <1>7, <1>9
<1>11. Completed(a)' <= Len(txs'[a]) /\ pc'[a] # "writeModule"
  BY <1>4, <1>5, <1>6, <1>9
<1> QED
  BY <1>8, <1>10, <1>11 DEF Reports

LEMMA WriteModuleStep ==
  ASSUME Inv, NEW a \in Accruers, WriteModule(a)
  PROVE  Inv'
<1>1. /\ pc[a] = "writeModule"
      /\ UNCHANGED <<clock, had, batch, now, borrowed, mine, modules, reported>>
  BY DEF WriteModule
<1>2. Call(a)
  BY DEF Inv
<1>3. StoreType' /\ Recorded'
  <2>1. Redis!SetNow([k \in {UserInterestKey(MODULE_ID)} |-> modules[a]])
    BY DEF WriteModule
  <2>2. modules[a] \in InterestRecord
    BY DEF Inv, TypeOK
  <2>3. /\ StoreType'
        /\ \A v \in Users : store'[UserPositionKey(v)] = store[UserPositionKey(v)]
        /\ \A v \in Users : store'[UserInterestKey(v)] = store[UserInterestKey(v)]
    BY <2>1, <2>2, SetInterestType, InterestAssumption DEF Inv
  <2>4. HadNow'
    BY <1>1, <2>3 DEF Inv, Recorded, HadNow
  <2>5. RecordIsOneAccrual'
    BY <1>1, <2>3, SameRecords DEF HadGrows
  <2> QED
    BY <2>3, <2>4, <2>5 DEF Recorded
<1>4. next[a] \in 1 .. Len(batch[a]) /\ Len(batch[a]) \in Nat /\ batch[a] \in Batches /\ User(a) \in Users
  BY <1>1, UserType DEF Writing
<1>5. CASE UNCHANGED <<txs, next>> /\ pc' = [pc EXCEPT ![a] = "failed"]
  <2>1. TypeOK'
    BY <1>1, <1>3, <1>5 DEF Inv, TypeOK, StoreType
  <2>2. pc'[a] = "failed" /\ \A d \in Accruers \ {a} : SameCall(d)
    BY <1>1, <1>5 DEF Inv, TypeOK, SameCall
  <2>3. Placed(a)' /\ OneCharge(a)'
    BY <1>1, <1>2, <1>5, <2>2 DEF Call, Placed, OneCharge, Reading, Writing
  <2>4. Reports(a)'
    BY <1>1, <1>5, <2>2, FailedReports
  <2>5. Call(a)'
    BY <2>3, <2>4 DEF Call
  <2> QED
    BY <1>1, <1>3, <2>1, <2>2, <2>5, StepOfOne
<1>6. CASE /\ txs' = [txs EXCEPT ![a] = Append(@, <<User(a), mine[a].owed>>)]
           /\ \/ /\ next[a] < Len(batch[a]) /\ next' = [next EXCEPT ![a] = @ + 1]
                 /\ pc' = [pc EXCEPT ![a] = "module"]
              \/ /\ next[a] = Len(batch[a]) /\ next' = next
                 /\ pc' = [pc EXCEPT ![a] = "done"]
  <2>1. /\ txs' \in [Accruers -> Seq(Users \X Int)]
        /\ txs'[a] = Append(txs[a], <<User(a), mine[a].owed>>)
        /\ \A d \in Accruers \ {a} : txs'[d] = txs[d]
    <3> DEFINE x == <<User(a), mine[a].owed>>
               T == Seq(Users \X Int)
    <3>1. mine[a].owed \in Int
      BY DEF Inv, TypeOK, InterestRecord
    <3>2. txs \in [Accruers -> T] /\ txs[a] \in T
      BY DEF Inv, TypeOK
    <3>3. Append(txs[a], x) \in T
      BY <1>4, <3>1, <3>2
    <3> HIDE DEF x, T
    <3>4. txs' = [txs EXCEPT ![a] = Append(txs[a], x)]
      BY <1>6 DEF x
    <3>5. txs' \in [Accruers -> T] /\ txs'[a] = Append(txs[a], x)
      BY <3>2, <3>3, <3>4
    <3>6. \A d \in Accruers \ {a} : txs'[d] = txs[d]
      BY <3>2, <3>4
    <3> QED
      BY <3>5, <3>6 DEF x, T
  <2>2. /\ \/ next[a] < Len(batch[a]) /\ next'[a] = next[a] + 1 /\ pc'[a] = "module"
           \/ next[a] = Len(batch[a]) /\ next'[a] = next[a] /\ pc'[a] = "done"
        /\ next' \in [Accruers -> Nat]
        /\ pc' \in [Accruers -> {"idle", "watch", "failed", "done"} \cup Reading \cup Writing]
        /\ \A d \in Accruers \ {a} : next'[d] = next[d] /\ pc'[d] = pc[d]
    <3>1. next \in [Accruers -> Nat] /\ next[a] + 1 \in Nat
          /\ pc \in [Accruers -> {"idle", "watch", "failed", "done"} \cup Reading \cup Writing]
      BY <1>4 DEF Inv, TypeOK
    <3>2. CASE /\ next[a] < Len(batch[a]) /\ next' = [next EXCEPT ![a] = @ + 1]
               /\ pc' = [pc EXCEPT ![a] = "module"]
      BY <3>1, <3>2 DEF Reading
    <3>3. CASE /\ next[a] = Len(batch[a]) /\ next' = next
               /\ pc' = [pc EXCEPT ![a] = "done"]
      BY <3>1, <3>3
    <3> QED
      BY <1>6, <3>2, <3>3
  <2>3. TypeOK'
    BY <1>1, <1>3, <2>1, <2>2 DEF Inv, TypeOK, StoreType
  <2>4. \A d \in Accruers \ {a} : SameCall(d)
    BY <1>1, <2>1, <2>2 DEF SameCall
  <2>5. Placed(a)'
    BY <1>1, <1>4, <2>2 DEF Placed, Reading, Writing
  <2>6. OneCharge(a)'
    BY <1>1, <1>2, <2>2 DEF Call, OneCharge
  <2>7. Completed(a)' = next[a]
    BY <1>1, <1>4, <2>2 DEF Completed, Reading, Writing
  <2>8. Reports(a)'
    BY <1>1, <2>1, <2>2, <2>7, AppendedReports
  <2>9. Call(a)'
    BY <2>5, <2>6, <2>8 DEF Call
  <2> QED
    BY <1>1, <1>3, <2>3, <2>4, <2>9, StepOfOne
<1>7. \/ UNCHANGED <<txs, next>> /\ pc' = [pc EXCEPT ![a] = "failed"]
      \/ /\ txs' = [txs EXCEPT ![a] = Append(@, <<User(a), mine[a].owed>>)]
         /\ \/ /\ next[a] < Len(batch[a]) /\ next' = [next EXCEPT ![a] = @ + 1]
               /\ pc' = [pc EXCEPT ![a] = "module"]
            \/ /\ next[a] = Len(batch[a]) /\ next' = next
               /\ pc' = [pc EXCEPT ![a] = "done"]
  BY <1>4 DEF WriteModule, Goto
<1> QED
  BY <1>5, <1>6, <1>7

-----------------------------------------------------------------------------
(* The theorem                                                             *)

LEMMA NextInv == Inv /\ [Next]_vars => Inv'
<1> SUFFICES ASSUME Inv, [Next]_vars PROVE Inv'
  OBVIOUS
<1>1. CASE UNCHANGED vars
  <2>1. UNCHANGED <<store, watched, dirty, clock, pc, batch, next, now, borrowed, mine,
                    modules, txs, faults, writes, reported, had>>
    BY <1>1 DEF vars, callVars
  <2>2. TypeOK' /\ Recorded'
    BY <2>1 DEF Inv, TypeOK, Recorded, HadNow, RecordIsOneAccrual, OneAccrual
  <2>3. \A d \in Accruers : Call(d)'
    BY <2>1, CallStays DEF SameCall, HadGrows
  <2> QED
    BY <2>2, <2>3 DEF Inv
<1>2. CASE Tick \/ PositionSet \/ ModulePositionSet \/ InterestPaid
  BY <1>2, OtherSteps
<1>3. ASSUME NEW a \in Accruers,
             \/ Begin(a) \/ Watch(a) \/ Refused(a) \/ CommandFails(a)
             \/ Retry(a) \/ GiveUp(a) \/ ReturnNil(a)
             \/ ReadModule(a) \/ ReadPosition(a) \/ ReadInterest(a)
             \/ WriteUser(a) \/ WriteModule(a)
      PROVE  Inv'
  BY <1>3, BeginStep, WatchStep, FailStep, RestartStep, ReadModuleStep, ReadPositionStep,
     ReadInterestStep, WriteUserStep, WriteModuleStep
<1> QED
  BY <1>1, <1>2, <1>3 DEF Next

\* Every transaction of a call that is done is one it wrote, and the last ones
\* are those of its users.
LEMMA InvImplies == Inv => TypeOK /\ RecordIsOneAccrual /\ EveryUserReported
<1> SUFFICES ASSUME Inv, NEW a \in Accruers, pc[a] = "done"
             PROVE  LET n == Len(batch[a])
                        extra == Len(txs[a]) - n
                    IN  /\ extra >= 0
                        /\ \A i \in 1 .. n : txs[a][extra + i][1] = batch[a][i]
                        /\ \A i \in DOMAIN txs[a] : txs[a][i] \in reported[a]
  BY DEF Inv, Recorded, EveryUserReported
<1>1. /\ Completed(a) = Len(batch[a]) /\ Completed(a) <= Len(txs[a])
      /\ \A i \in 1 .. Completed(a) : txs[a][Len(txs[a]) - Completed(a) + i][1] = batch[a][i]
      /\ \A i \in DOMAIN txs[a] : txs[a][i] \in reported[a]
  BY DEF Completed, Inv, Call, Reports
<1>2. Len(txs[a]) \in Nat /\ Len(batch[a]) \in Nat
  <2>1. batch[a] \in Seq(Users)
    BY InterestAssumption DEF Inv, Call, Placed
  <2> QED
    BY <2>1 DEF Inv, TypeOK
<1>3. Len(txs[a]) - Len(batch[a]) >= 0
  BY <1>1, <1>2
<1> QED
  BY <1>1, <1>3

LEMMA AccrualInv ==
  Spec => [](TypeOK /\ RecordIsOneAccrual /\ EveryUserReported)
<1>1. Init => Inv
  BY InitInv
<1>2. Inv /\ [Next]_vars => Inv'
  BY NextInv
<1>3. Inv => TypeOK /\ RecordIsOneAccrual /\ EveryUserReported
  BY InvImplies
<1> QED
  BY <1>1, <1>2, <1>3, PTL DEF Spec

\* For any accruers, batches, borrowed values and clock: retried functions,
\* concurrent accruals, payments and borrowing leave in the record of a user, owed
\* and paid together, the charge of a single accrual of this user, for a value that
\* the position had at the time charged up to or later
\* (src/ledger/redis/interest.go:186-330).
THEOREM RecordIsOneAccrualTheorem == Spec => []RecordIsOneAccrual
BY AccrualInv, PTL

\* A nil of AccrueAllLendingInterest comes with a transaction of every user.
THEOREM EveryUserIsReported == Spec => []EveryUserReported
BY AccrualInv, PTL

-----------------------------------------------------------------------------
(* What the module is charged                                              *)

\* A call that writes is about to add the same to both records.
Charged == \A a \in Accruers : pc[a] \in Writing => modules[a].owed = mine[a].owed

\* Both records are read from keys nothing is stored under, so that both hold
\* what was accrued and nothing else.
LEMMA ReadInterestCharges ==
  ASSUME Inv, NEW a \in Accruers, ReadInterest(a)
  PROVE  modules'[a].owed = mine'[a].owed
<1>1. /\ pc[a] = "interest" /\ modules' = [modules EXCEPT ![a] = Owing(modules[a], Accrued(a))]
      /\ mine' = [mine EXCEPT ![a] = Owing(Interest(store[InterestReadKey(User(a))]), Accrued(a))]
  BY DEF ReadInterest
<1>2. User(a) \in Users
  BY <1>1, UserType DEF Reading
<1>3. Interest(store[InterestReadKey(User(a))]) = NoInterest
  BY <1>2 DEF Inv, TypeOK, InterestReadKey, Interest
<1>4. modules[a] = NoInterest
  BY <1>1 DEF Inv, Call, OneCharge
<1>5. modules \in [Accruers -> InterestRecord] /\ mine \in [Accruers -> InterestRecord]
  BY DEF Inv, TypeOK
<1> QED
  BY <1>1, <1>3, <1>4, <1>5

LEMMA NextCharged == Inv /\ Charged /\ [Next]_vars => Charged'
<1> SUFFICES ASSUME Inv, Charged, [Next]_vars PROVE Charged'
  OBVIOUS
<1>1. /\ pc \in [Accruers -> {"idle"} \cup Active] /\ mine \in [Accruers -> InterestRecord]
      /\ modules \in [Accruers -> InterestRecord]
  BY DEF Inv, TypeOK, Active
<1>2. CASE UNCHANGED <<pc, mine, modules>>
  BY <1>2 DEF Charged
<1>3. ASSUME NEW a \in Accruers, Begin(a) \/ Watch(a) \/ WriteUser(a) \/ WriteModule(a)
      PROVE  Charged'
  <2>1. UNCHANGED <<mine, modules>>
    BY <1>3 DEF Begin, Watch, WriteUser, WriteModule
  <2>2. \A d \in Accruers : pc'[d] \in Writing => pc[d] \in Writing
    BY <1>1, <1>3 DEF Begin, Watch, WriteUser, WriteModule, Goto, Writing
  <2> QED
    BY <2>1, <2>2 DEF Charged
<1>4. ASSUME NEW a \in Accruers,
             \/ Refused(a) \/ CommandFails(a) \/ Retry(a) \/ GiveUp(a) \/ ReturnNil(a)
             \/ ReadModule(a) \/ ReadPosition(a)
      PROVE  Charged'
  <2>1. pc'[a] \notin Writing
    BY <1>1, <1>4 DEF Refused, CommandFails, Retry, GiveUp, ReturnNil, Leave, ReadModule,
                      ReadPosition, Goto, Writing
  <2>2. \A d \in Accruers \ {a} :
          pc'[d] = pc[d] /\ mine'[d] = mine[d] /\ modules'[d] = modules[d]
    BY <1>1, <1>4 DEF Refused, CommandFails, Retry, GiveUp, ReturnNil, Leave, Forget,
                      ReadModule, ReadPosition, Goto
  <2> QED
    BY <2>1, <2>2 DEF Charged
<1>5. ASSUME NEW a \in Accruers, ReadInterest(a) PROVE Charged'
  <2>1. \A d \in Accruers \ {a} :
          pc'[d] = pc[d] /\ mine'[d] = mine[d] /\ modules'[d] = modules[d]
    BY <1>1, <1>5 DEF ReadInterest, Goto
  <2> QED
    BY <1>5, <2>1, ReadInterestCharges DEF Charged
<1> QED
  BY <1>2, <1>3, <1>4, <1>5
  DEF Next, vars, callVars, Tick, PositionSet, ModulePositionSet, InterestPaid, OtherWrite

\* Only WriteModule touches the module's record.
LEMMA ModuleWrittenOnce ==
  ASSUME Inv, [Next]_vars,
         store'[UserInterestKey(MODULE_ID)] # store[UserInterestKey(MODULE_ID)]
  PROVE  \E a \in Accruers : WriteModule(a)
<1>1. ASSUME NEW a \in Accruers,
             \/ Begin(a) \/ Watch(a) \/ Refused(a) \/ CommandFails(a)
             \/ Retry(a) \/ GiveUp(a) \/ ReturnNil(a)
             \/ ReadModule(a) \/ ReadPosition(a) \/ ReadInterest(a)
      PROVE  FALSE
  <2>1. SameRedis
    BY <1>1, ReadsChangeNothing
    DEF Inv, Begin, Refused, CommandFails, Retry, GiveUp, ReturnNil, Leave,
        ReadModule, ReadPosition, ReadInterest, Watch, Redis!WatchKeys
  <2> QED
    BY <2>1, AreKeys DEF SameRedis
<1>2. ASSUME NEW a \in Accruers, WriteUser(a) PROVE FALSE
  <2>1. User(a) \in Users /\ mine[a] \in InterestRecord
    BY <1>2, UserType DEF WriteUser, Writing, Inv, TypeOK
  <2>2. Redis!SetNow([k \in {UserInterestKey(User(a))} |-> mine[a]])
    BY <1>2 DEF WriteUser
  <2> QED
    BY <2>1, <2>2, SetInterestType, InterestAssumption DEF Inv
<1>3. CASE PositionSet
  BY <1>3, SetPositionType DEF PositionSet, Inv
<1>4. CASE InterestPaid
  <2>0. PICK u \in Users : \E r : Redis!SetNow([k \in {UserInterestKey(u)} |-> r])
    BY <1>4 DEF InterestPaid
  <2>1. PICK r : Redis!SetNow([k \in {UserInterestKey(u)} |-> r])
    BY <2>0
  <2>2. store'[UserInterestKey(MODULE_ID)] = store[UserInterestKey(MODULE_ID)]
    BY <2>1, KeysDiffer, AreKeys, InterestAssumption DEF Redis!SetNow, Redis!Overwrite
  <2> QED
    BY <2>2
<1>5. CASE ModulePositionSet
  BY <1>5, SetModuleType DEF ModulePositionSet, Inv
<1>6. CASE Tick \/ UNCHANGED vars
  BY <1>6 DEF Tick, vars
<1> QED
  BY <1>1, <1>2, <1>3, <1>4, <1>5, <1>6 DEF Next

\* The module's record never changes before the record of the user it is charged
\* for, nor to another amount (src/ledger/redis/interest.go:283-321): whatever fails
\* and is made again between the two writes.
THEOREM ModuleIsChargedLikeUser == Spec => ModuleChargedLikeUser
<1>1. Init => Charged
  BY DEF Init, Charged, Writing
<1>2. Inv /\ Charged /\ [Next]_vars =>
        [LET m == UserInterestKey(MODULE_ID)
         IN  store'[m] # store[m] =>
               \E a \in Accruers : /\ pc[a] = "writeModule"
                                   /\ <<User(a), store'[m].owed>> \in reported[a]]_vars
  <2> SUFFICES ASSUME Inv, Charged, [Next]_vars,
                      store'[UserInterestKey(MODULE_ID)] # store[UserInterestKey(MODULE_ID)]
               PROVE  \E a \in Accruers :
                        /\ pc[a] = "writeModule"
                        /\ <<User(a), store'[UserInterestKey(MODULE_ID)].owed>> \in reported[a]
    OBVIOUS
  <2>1. PICK a \in Accruers : WriteModule(a)
    BY ModuleWrittenOnce
  <2>2. /\ pc[a] = "writeModule" /\ modules[a] \in InterestRecord
        /\ Redis!SetNow([k \in {UserInterestKey(MODULE_ID)} |-> modules[a]])
    BY <2>1 DEF WriteModule, Inv, TypeOK
  <2>3. store'[UserInterestKey(MODULE_ID)] = modules[a]
    BY <2>2, SetInterestType DEF Inv
  <2>4. modules[a].owed = mine[a].owed
    BY <2>2 DEF Charged, Writing
  <2>5. <<User(a), mine[a].owed>> \in reported[a]
    BY <2>2 DEF Inv, Call, Reports
  <2> QED
    BY <2>2, <2>3, <2>4, <2>5
<1> QED
  BY <1>1, <1>2, InitInv, NextInv, NextCharged, PTL DEF Spec, ModuleChargedLikeUser
=============================================================================
