-------------------------- MODULE InterestAccrual --------------------------
(***************************************************************************)
(* Accrual of lending interest, src/ledger/redis/interest.go:              *)
(* AccrueLendingInterest and AccrueAllLendingInterest run                  *)
(* accrueLendingInterestTx for one or several users inside                 *)
(* redis.TryTransaction, next to services that set positions and interest. *)
(*                                                                         *)
(* A position is abstracted to the value it has borrowed, an interest      *)
(* record to what is owed and what has been paid, prices are constant and  *)
(* the flat rate is 1 per unit of borrowed value and of time.              *)
(***************************************************************************)
EXTENDS Integers, Sequences

CONSTANTS Accruers,    \* the goroutines that accrue interest
          Users,
          Batches,     \* the sequences of users passed to the functions
          MaxBorrow,   \* bound: borrowed value of a position
          MaxTime,     \* bound: the clock
          MaxFaults,   \* bound: network faults in a behaviour
          MaxWrites    \* bound: records set by other services

MODULE_ID == "module"

ASSUME InterestAssumption ==
  /\ Batches \subseteq Seq(Users) \ {<<>>} /\ MODULE_ID \notin Users
  /\ MaxBorrow \in Nat /\ MaxTime \in Nat /\ MaxFaults \in Nat /\ MaxWrites \in Nat

\* A position, an interest record, or a hash under the bare ID of its owner.
UserPositionKey(u) == <<"positions", u>>
ModulePositionKey == <<"module", MODULE_ID>>
UserInterestKey(u) == <<"interest", u>>
BareKey(u) == <<"bare", u>>

Keys == {UserPositionKey(u) : u \in Users}
          \cup {UserInterestKey(u) : u \in Users \cup {MODULE_ID}}
          \cup {BareKey(u) : u \in Users \cup {MODULE_ID}}
          \cup {ModulePositionKey}

VARIABLES store, watched, dirty,
          clock,      \* time.Now()
          pc,         \* where a is in TryTransaction and the function
          batch,      \* the users of a's call
          next,       \* index in batch of the user being accrued
          now,        \* the time accrueLendingInterestTx started for this user
          borrowed,   \* what it read: the user's borrowed value,
          mine,       \*   the user's interest record
          modules,    \*   and the module's
          txs,        \* accrualTransactions, shared by all attempts of a call
          faults, writes,
          reported,   \* kept for the properties: what a's call has written,
          had         \*   and the values that the position of u had, with times

Redis == INSTANCE RedisServer WITH Clients <- Accruers

callVars == <<pc, batch, next, now, borrowed, mine, modules, txs>>
vars == <<store, watched, dirty, clock, callVars, faults, writes, reported, had>>

\* Redis has no such hash; getInterestTx answers types.Interest{}.
Absent == [owed |-> -1, paid |-> -1]
NoInterest == [owed |-> 0, paid |-> 0]
Interest(record) == IF record = Absent THEN NoInterest ELSE record

\* The key under which the accrual looks for the interest of u: getInterestTx
\* gets MODULE and userID themselves, not UserInterestKey of them, and nothing
\* is ever stored there.
InterestReadKey(u) == BareKey(u)

Init ==
  /\ \E positions \in [Users -> 0 .. MaxBorrow] :
       /\ store = [k \in Keys |-> IF k[1] = "positions" THEN positions[k[2]] ELSE Absent]
       /\ had = [u \in Users |-> {<<1, positions[u]>>}]
  /\ watched = [a \in Accruers |-> {}]
  /\ dirty = [a \in Accruers |-> FALSE]
  /\ clock = 1
  /\ pc = [a \in Accruers |-> "idle"]
  /\ batch = [a \in Accruers |-> <<>>]
  /\ next = [a \in Accruers |-> 1]
  /\ now = [a \in Accruers |-> 0]
  /\ borrowed = [a \in Accruers |-> 0]
  /\ mine = [a \in Accruers |-> NoInterest]
  /\ modules = [a \in Accruers |-> NoInterest]
  /\ txs = [a \in Accruers |-> <<>>]
  /\ faults = 0
  /\ writes = 0
  /\ reported = [a \in Accruers |-> {}]

User(a) == batch[a][next[a]]
Goto(a, place) == pc' = [pc EXCEPT ![a] = place]
Fault == faults < MaxFaults /\ faults' = faults + 1

-----------------------------------------------------------------------------
(* The other services                                                      *)

Tick ==
  /\ clock < MaxTime
  /\ clock' = clock + 1
  /\ had' = [u \in Users |-> had[u] \cup {<<clock', store[UserPositionKey(u)]>>}]
  /\ UNCHANGED <<store, watched, dirty, callVars, faults, writes, reported>>

OtherWrite ==
  /\ writes < MaxWrites
  /\ writes' = writes + 1
  /\ UNCHANGED <<clock, callVars, faults, reported>>

\* SetUsersPosition of a user who borrows or repays.
PositionSet ==
  /\ OtherWrite
  /\ \E u \in Users, b \in 0 .. MaxBorrow :
       /\ Redis!SetNow([k \in {UserPositionKey(u)} |-> b])
       /\ had' = [had EXCEPT ![u] = @ \cup {<<clock, b>>}]

\* SetModulePosition; what is in it plays no part here.
ModulePositionSet ==
  /\ OtherWrite
  /\ Redis!SetNow([k \in {ModulePositionKey} |-> Absent])
  /\ UNCHANGED had

\* SetUserInterest of a user who pays what is owed.
InterestPaid ==
  /\ OtherWrite
  /\ \E u \in Users :
       LET i == Interest(store[UserInterestKey(u)])
       IN  Redis!SetNow([k \in {UserInterestKey(u)} |->
                           [owed |-> 0, paid |-> i.paid + i.owed]])
  /\ UNCHANGED had

-----------------------------------------------------------------------------
(* TryTransaction                                                          *)

Begin(a) ==
  /\ pc[a] = "idle"
  /\ \E b \in Batches : batch' = [batch EXCEPT ![a] = b]
  /\ Goto(a, "watch")
  /\ UNCHANGED <<store, watched, dirty, clock, had, next, now, borrowed, mine,
                 modules, txs, faults, writes, reported>>

\* The interest and the positions of the users and of the module.  Those of the
\* users of a batch are given by the caller.
WatchList(a) ==
  {UserInterestKey(MODULE_ID), ModulePositionKey}
    \cup UNION {{UserInterestKey(batch[a][i]), UserPositionKey(batch[a][i])} :
                  i \in DOMAIN batch[a]}

Watch(a) ==
  /\ pc[a] = "watch"
  /\ Redis!WatchKeys(a, WatchList(a))
  /\ Goto(a, "module")
  /\ UNCHANGED <<clock, had, batch, next, now, borrowed, mine, modules, txs, faults,
                 writes, reported>>

Reading == {"module", "position", "interest"}
Writing == {"writeUser", "writeModule"}

\* A read refused because of the watches.
Refused(a) ==
  /\ pc[a] \in Reading
  /\ Redis!ExecRefused(a)
  /\ Goto(a, "failed")
  /\ UNCHANGED <<clock, had, batch, next, now, borrowed, mine, modules, txs, faults,
                 writes, reported>>

\* A command does not get through.
CommandFails(a) ==
  /\ pc[a] \in Reading \cup Writing
  /\ Fault
  /\ Redis!Unwatch(a)
  /\ Goto(a, "failed")
  /\ UNCHANGED <<clock, had, batch, next, now, borrowed, mine, modules, txs, writes,
                 reported>>

\* The variables of accrueLendingInterestTx are gone.
Forget(a) ==
  /\ next' = [next EXCEPT ![a] = 1]
  /\ now' = [now EXCEPT ![a] = 0]
  /\ borrowed' = [borrowed EXCEPT ![a] = 0]
  /\ mine' = [mine EXCEPT ![a] = NoInterest]
  /\ modules' = [modules EXCEPT ![a] = NoInterest]

\* The whole function runs again, for every user, and goes on filling txs.
Retry(a) ==
  /\ pc[a] = "failed"
  /\ Goto(a, "watch")
  /\ Forget(a)
  /\ UNCHANGED <<store, watched, dirty, clock, had, batch, txs, faults, writes, reported>>

\* The call ends and its variables are gone; what was written stays.
Leave(a) ==
  /\ Goto(a, "idle")
  /\ batch' = [batch EXCEPT ![a] = <<>>]
  /\ Forget(a)
  /\ txs' = [txs EXCEPT ![a] = <<>>]
  /\ reported' = [reported EXCEPT ![a] = {}]
  /\ UNCHANGED <<store, watched, dirty, clock, had, faults, writes>>

\* The timeout is used up: nil and the error are returned.
GiveUp(a) == pc[a] = "failed" /\ Leave(a)

\* The accrual transactions are returned.
ReturnNil(a) == pc[a] = "done" /\ Leave(a)

-----------------------------------------------------------------------------
(* accrueLendingInterestTx for one user                                    *)

\* Reads go through TxPipelined: each EXEC forgets what is watched.
ReadModule(a) ==
  /\ pc[a] = "module"
  /\ Redis!Exec(a, <<>>)
  /\ now' = [now EXCEPT ![a] = clock]
  /\ modules' = [modules EXCEPT ![a] = Interest(store[InterestReadKey(MODULE_ID)])]
  /\ Goto(a, "position")
  /\ UNCHANGED <<clock, had, batch, next, borrowed, mine, txs, faults, writes, reported>>

ReadPosition(a) ==
  /\ pc[a] = "position"
  /\ Redis!Exec(a, <<>>)
  /\ borrowed' = [borrowed EXCEPT ![a] = store[UserPositionKey(User(a))]]
  /\ Goto(a, "interest")
  /\ UNCHANGED <<clock, had, batch, next, now, mine, modules, txs, faults, writes, reported>>

\* LastUpdated is never set by the accrual and is the zero time in the records
\* it reads, so time is counted from there.
Accrued(a) == now[a] * borrowed[a]

Owing(i, amount) == [i EXCEPT !.owed = @ + amount]

\* Mutant: the user's interest is computed up to the time when it is written.
ReadInterestLater(a) ==
  /\ pc[a] = "interest"
  /\ Redis!Exec(a, <<>>)
  /\ mine' = [mine EXCEPT ![a] =
                Owing(Interest(store[InterestReadKey(User(a))]), clock * borrowed[a])]
  /\ modules' = [modules EXCEPT ![a] = Owing(@, clock * borrowed[a])]
  /\ Goto(a, "writeUser")
  /\ UNCHANGED <<clock, had, batch, next, now, borrowed, txs, faults, writes, reported>>

\* Mutant: a user without new interest ends the loop.
ReadInterestOrStop(a) ==
  /\ pc[a] = "interest"
  /\ Redis!Exec(a, <<>>)
  /\ mine' = [mine EXCEPT ![a] =
                Owing(Interest(store[InterestReadKey(User(a))]), Accrued(a))]
  /\ modules' = [modules EXCEPT ![a] = Owing(@, Accrued(a))]
  /\ Goto(a, IF Accrued(a) = 0 THEN "done" ELSE "writeUser")
  /\ UNCHANGED <<clock, had, batch, next, now, borrowed, txs, faults, writes, reported>>

\* Mutant: the module's interest is computed from a clock read anew.
ReadInterestTwoClocks(a) ==
  /\ pc[a] = "interest"
  /\ Redis!Exec(a, <<>>)
  /\ mine' = [mine EXCEPT ![a] =
                Owing(Interest(store[InterestReadKey(User(a))]), Accrued(a))]
  /\ modules' = [modules EXCEPT ![a] = Owing(@, clock * borrowed[a])]
  /\ Goto(a, "writeUser")
  /\ UNCHANGED <<clock, had, batch, next, now, borrowed, txs, faults, writes, reported>>

ReadInterest(a) ==
  /\ pc[a] = "interest"
  /\ Redis!Exec(a, <<>>)
  /\ mine' = [mine EXCEPT ![a] =
                Owing(Interest(store[InterestReadKey(User(a))]), Accrued(a))]
  /\ modules' = [modules EXCEPT ![a] = Owing(@, Accrued(a))]
  /\ Goto(a, "writeUser")
  /\ UNCHANGED <<clock, had, batch, next, now, borrowed, txs, faults, writes, reported>>

\* HMSET of the user's record, at once.  The reply may be lost.
WriteUser(a) ==
  /\ pc[a] = "writeUser"
  /\ Redis!SetNow([k \in {UserInterestKey(User(a))} |-> mine[a]])
  /\ reported' = [reported EXCEPT ![a] = @ \cup {<<User(a), mine[a].owed>>}]
  /\ \/ Goto(a, "writeModule") /\ UNCHANGED faults
     \/ Goto(a, "failed") /\ Fault
  /\ UNCHANGED <<clock, had, batch, next, now, borrowed, mine, modules, txs, writes>>

\* HMSET of the module's record; then the transaction is appended and the next
\* user follows, or the function returns nil.
WriteModule(a) ==
  /\ pc[a] = "writeModule"
  /\ Redis!SetNow([k \in {UserInterestKey(MODULE_ID)} |-> modules[a]])
  /\ \/ /\ txs' = [txs EXCEPT ![a] = Append(@, <<User(a), mine[a].owed>>)]
        /\ IF next[a] < Len(batch[a])
           THEN /\ next' = [next EXCEPT ![a] = @ + 1]
                /\ Goto(a, "module")
           ELSE /\ Goto(a, "done")
                /\ UNCHANGED next
        /\ UNCHANGED faults
     \/ Fault /\ Goto(a, "failed") /\ UNCHANGED <<txs, next>>
  /\ UNCHANGED <<clock, had, batch, now, borrowed, mine, modules, writes, reported>>

-----------------------------------------------------------------------------
Next ==
  \/ Tick \/ PositionSet \/ ModulePositionSet \/ InterestPaid
  \/ \E a \in Accruers :
       \/ Begin(a) \/ Watch(a) \/ Refused(a) \/ CommandFails(a)
       \/ Retry(a) \/ GiveUp(a) \/ ReturnNil(a)
       \/ ReadModule(a) \/ ReadPosition(a) \/ ReadInterest(a)
       \/ WriteUser(a) \/ WriteModule(a)

Spec == Init /\ [][Next]_vars

-----------------------------------------------------------------------------
(* Properties                                                              *)

InterestRecord == [owed : Int, paid : Int]

\* The variables have their types.
TypeOK ==
  /\ DOMAIN store = Keys
  /\ \A u \in Users : store[UserPositionKey(u)] \in 0 .. MaxBorrow
  /\ \A u \in Users \cup {MODULE_ID} : /\ store[UserInterestKey(u)] \in InterestRecord
                                      /\ store[BareKey(u)] = Absent
  /\ store[ModulePositionKey] = Absent
  /\ watched \in [Accruers -> SUBSET Keys]
  /\ dirty \in [Accruers -> BOOLEAN]
  /\ pc \in [Accruers -> {"idle", "watch", "failed", "done"} \cup Reading \cup Writing]
  /\ batch \in [Accruers -> Batches \cup {<<>>}]
  /\ next \in [Accruers -> Nat]
  /\ now \in [Accruers -> 0 .. clock] /\ clock \in Nat
  /\ borrowed \in [Accruers -> 0 .. MaxBorrow]
  /\ mine \in [Accruers -> InterestRecord] /\ modules \in [Accruers -> InterestRecord]
  /\ txs \in [Accruers -> Seq(Users \X Int)]
  /\ reported \in [Accruers -> SUBSET (Users \X Int)]
  /\ had \in [Users -> SUBSET ((0 .. clock) \X (0 .. MaxBorrow))]

\* What one accrual charges u: for the time up to some moment, and a value that the
\* position of u had at that moment or later.
OneAccrual(u, amount) ==
  \E h \in had[u] : \E t \in 0 .. h[1] : amount = t * h[2]

\* Whatever runs twice - a retried function, two accruers, a batch next to a
\* single accrual - and whatever is paid or borrowed in between: what a user owes and
\* what the record calls paid are together what one accrual charges this user.  They
\* never add up, and no accrual charges for a value that the position had only before
\* the time it charges up to.  (An accrual after a payment starts from nothing: it
\* charges the time that was paid for again, and the record forgets the payment.)
RecordIsOneAccrual ==
  \A u \in Users :
    LET i == Interest(store[UserInterestKey(u)])
    IN  OneAccrual(u, i.owed + i.paid)

\* When the accrual returns nil, the last transactions it returns are those of
\* its users, in order, and each transaction it returns, also one left over from
\* a failed attempt, stands for a record that it wrote.
EveryUserReported ==
  \A a \in Accruers : pc[a] = "done" =>
    LET n == Len(batch[a])
        extra == Len(txs[a]) - n
    IN  /\ extra >= 0
        /\ \A i \in 1 .. n : txs[a][extra + i][1] = batch[a][i]
        /\ \A i \in DOMAIN txs[a] : txs[a][i] \in reported[a]

\* The module's record changes only to what a user has been charged before in
\* the same call: never first, and never by another amount.
ModuleChargedLikeUser ==
  [][LET m == UserInterestKey(MODULE_ID)
     IN  store'[m] # store[m] =>
           \E a \in Accruers : /\ pc[a] = "writeModule"
                               /\ <<User(a), store'[m].owed>> \in reported[a]]_vars
=============================================================================
