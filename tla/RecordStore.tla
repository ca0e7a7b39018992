---------------------------- MODULE RecordStore ----------------------------
(***************************************************************************)
(* The ready-made readers and writers of the Redis cache: positions        *)
(* (src/ledger/redis/positions.go), interest (interest.go), pools          *)
(* (src/pools/redis/pools.go) and prices (src/prices/redis/prices.go).     *)
(* Each wraps one function in redis.TryTransaction.  The functions have    *)
(* three shapes:                                                           *)
(*   "set"       one HSET per record, outside MULTI/EXEC;                  *)
(*   "snapshot"  HGETALL of every record in one TxPipelined;               *)
(*   "plain"     one HGET / HMGET.                                         *)
(* A record is abstracted to the number of the call that wrote it, 0 when  *)
(* there is none (the getters then answer with an initial value).          *)
(***************************************************************************)
EXTENDS RedisServer, Naturals

CONSTANTS Ops,        \* the operations the services perform
          Module,     \* the key "positions", which holds the module's position
          PoolAmounts, PoolInfo,  \* the fields of a pool's hash, as two records
          Prices,     \* the key "prices", one hash for all assets
          MaxCalls,   \* bound: calls in a behaviour
          MaxFaults   \* bound: network faults in a behaviour

-----------------------------------------------------------------------------
(* The operations: shape, records, records under the keys that are given to *)
(* TryTransaction, and the HSETs of a setter with the records each writes.  *)

Set(hsets, watch) ==
  [shape |-> "set", keys |-> UNION hsets, watch |-> watch, hsets |-> hsets]
Get(shape, keys, watch) ==
  [shape |-> shape, keys |-> keys, watch |-> watch, hsets |-> {}]

\* What an operation has to be, whatever the records are.
ASSUME RecordAssumption ==
  /\ MaxCalls \in Nat /\ MaxFaults \in Nat
  /\ \A o \in Ops :
       /\ o \in [shape : {"set", "snapshot", "plain"}, keys : SUBSET Keys,
                  watch : SUBSET Keys, hsets : SUBSET SUBSET Keys]
       /\ o.shape = "set" => o.keys = UNION o.hsets

Each(keys) == {{k} : k \in keys}
Pool == {PoolAmounts, PoolInfo}

\* The watch slice holds len(reqs) empty strings when TryTransaction is called;
\* the function appends the real keys to it too late.
SetUsersPosition(users) == Set(Each(users), {})
GetUsersPosition(users) == Get("snapshot", users, users)
SetModulePosition == Set({{Module}}, {Module})
GetModulePosition == Get("plain", {Module}, {Module})
SetUserInterest(users) == Set(Each(users), users)
GetUserInterest(users) == Get("snapshot", users, users)
\* The watch slice is still empty when TryTransaction is called.
GetPools == Get("snapshot", Pool, {})
GetPool == Get("plain", Pool, Pool)
UpdatePool == Set({Pool}, Pool)
UpdatePoolBalance == Set({{PoolAmounts}}, Pool)
\* Mutant: the fields are set by a command each.
UpdatePoolFieldwise == Set(Each(Pool), Pool)
SetPrices == Set({{Prices}}, {Prices})
GetPrices == Get("plain", {Prices}, {Prices})

-----------------------------------------------------------------------------
VARIABLES pc,        \* where c is in TryTransaction
          op,        \* the operation c performs
          val,       \* val[c]: what c's setter writes, the number of the call
          todo,      \* HSETs this attempt has not made yet
          result,    \* what c's getter has collected, over all attempts
          expired,   \* c's backoff has used up MaxElapsedTime
          calls, faults,
          \* kept for the properties only
          seen,      \* seen[c]: contents of Redis since c's call began
          past,      \* past[k]: records that k held earlier
          applied    \* applied[c]: records c's call has written, in any attempt

callVars == <<pc, op, val, todo, result, expired, calls, faults>>
history == <<seen, past, applied>>
vars == <<serverVars, callVars, history>>

Empty == [k \in Keys |-> 0]
NoOp == Get("none", {}, {})

Init ==
  /\ store = Empty
  /\ watched = [c \in Clients |-> {}]
  /\ dirty = [c \in Clients |-> FALSE]
  /\ pc = [c \in Clients |-> "idle"]
  /\ op = [c \in Clients |-> NoOp]
  /\ val = [c \in Clients |-> 0]
  /\ todo = [c \in Clients |-> {}]
  /\ result = [c \in Clients |-> Empty]
  /\ expired = [c \in Clients |-> FALSE]
  /\ calls = 0
  /\ faults = 0
  /\ seen = [c \in Clients |-> {}]
  /\ past = [k \in Keys |-> {}]
  /\ applied = [c \in Clients |-> {}]

Goto(c, place) == pc' = [pc EXCEPT ![c] = place]
Fault == faults < MaxFaults /\ faults' = faults + 1

\* Every call in progress sees the new contents of Redis.
Observe == seen' = [c \in Clients |-> IF pc[c] = "idle" THEN seen[c]
                                                      ELSE seen[c] \cup {store'}]

-----------------------------------------------------------------------------
(* TryTransaction around the function                                      *)

\* The result variables live outside the function: missing records stand for
\* initial positions, empty interest, zero pools and zero prices.
Begin(c) ==
  /\ pc[c] = "idle"
  /\ calls < MaxCalls
  /\ calls' = calls + 1
  /\ \E o \in Ops : op' = [op EXCEPT ![c] = o]
  /\ val' = [val EXCEPT ![c] = calls']
  /\ seen' = [seen EXCEPT ![c] = {store}]
  /\ Goto(c, "watch")
  /\ UNCHANGED <<serverVars, todo, result, expired, faults, past, applied>>

Watch(c) ==
  /\ pc[c] = "watch"
  /\ WatchKeys(c, op[c].watch)
  /\ todo' = [todo EXCEPT ![c] = op[c].hsets]
  /\ Goto(c, "body")
  /\ UNCHANGED <<op, val, result, expired, calls, faults, history>>

\* Mutant: a setter that fails half-way puts an earlier record back.
AttemptFailsUndoing(c) ==
  /\ pc[c] \in {"watch", "body"}
  /\ Fault
  /\ Goto(c, "failed")
  /\ \E k \in applied[c] : \E v \in past[k] : SetNow([x \in {k} |-> v])
  /\ UNCHANGED <<op, val, todo, result, expired, calls, history>>

\* The WATCH, or a command before it took effect, fails.
AttemptFails(c) ==
  /\ pc[c] \in {"watch", "body"}
  /\ Fault
  /\ Goto(c, "failed")
  /\ UNCHANGED <<serverVars, op, val, todo, result, expired, calls, history>>

Expire(c) ==
  /\ pc[c] # "idle"
  /\ ~expired[c]
  /\ expired' = [expired EXCEPT ![c] = TRUE]
  /\ UNCHANGED <<serverVars, pc, op, val, todo, result, calls, faults, history>>

\* rdb.Watch ends with tx.Close, which unwatches, whatever the function
\* returned; then the backoff starts another attempt.
Retry(c) ==
  /\ pc[c] = "failed"
  /\ ~expired[c]
  /\ Unwatch(c)
  /\ Goto(c, "watch")
  /\ todo' = [todo EXCEPT ![c] = {}]
  /\ UNCHANGED <<op, val, result, expired, calls, faults, history>>

\* The call is over and its variables are gone; what was written stays.
Leave(c) ==
  /\ Unwatch(c)
  /\ Goto(c, "idle")
  /\ todo' = [todo EXCEPT ![c] = {}]
  /\ op' = [op EXCEPT ![c] = NoOp]
  /\ val' = [val EXCEPT ![c] = 0]
  /\ result' = [result EXCEPT ![c] = Empty]
  /\ expired' = [expired EXCEPT ![c] = FALSE]
  /\ seen' = [seen EXCEPT ![c] = {}]
  /\ applied' = [applied EXCEPT ![c] = {}]
  /\ UNCHANGED <<calls, faults, past>>

\* The error of the last attempt is returned.
GiveUp(c) == pc[c] = "failed" /\ expired[c] /\ Leave(c)

ReturnNil(c) == pc[c] = "done" /\ Leave(c)

-----------------------------------------------------------------------------
(* The functions                                                           *)

\* One HSET takes effect, in the order of the Go map, that is in any order.
Hset(c, ks) ==
  /\ pc[c] = "body"
  /\ op[c].shape = "set"
  /\ SetNow([k \in ks |-> val[c]])
  /\ todo' = [todo EXCEPT ![c] = @ \ {ks}]
  /\ past' = [k \in Keys |-> IF k \in ks THEN past[k] \cup {store[k]} ELSE past[k]]
  /\ applied' = [applied EXCEPT ![c] = @ \cup ks]
  /\ Observe
  /\ UNCHANGED <<op, val, result, expired, calls>>

\* Mutant: the loop over the records returns after the first one.
SetOneRecord(c) ==
  \E ks \in todo[c] :
    /\ Hset(c, ks)
    /\ Goto(c, "done")
    /\ UNCHANGED faults

\* The function returns nil after its last HSET.
SetRecord(c) ==
  \E ks \in todo[c] :
    /\ Hset(c, ks)
    /\ Goto(c, IF todo[c] = {ks} THEN "done" ELSE "body")
    /\ UNCHANGED faults

\* The reply of the HSET is lost: the function returns the error.
SetReplyLost(c) ==
  \E ks \in todo[c] :
    /\ Hset(c, ks)
    /\ Fault
    /\ Goto(c, "failed")

\* Mutant: an entry that is already in the map is kept.
CollectMissing(c, ks) ==
  result' = [result EXCEPT ![c] =
               [k \in Keys |-> IF k \in ks /\ @[k] = 0 THEN store[k] ELSE @[k]]]

\* What the replies for ks put into the result.
Collect(c, ks) ==
  result' = [result EXCEPT ![c] = [k \in Keys |-> IF k \in ks THEN store[k] ELSE @[k]]]

\* HGETALL of every record in one EXEC.
ReadSnapshot(c) ==
  /\ pc[c] = "body"
  /\ op[c].shape = "snapshot"
  /\ Exec(c, <<>>)
  /\ Collect(c, op[c].keys)
  /\ Goto(c, "done")
  /\ UNCHANGED <<op, val, todo, expired, calls, faults, history>>

\* The connection breaks within the replies: getUsersPosition has put those
\* that arrived into the map, which the next attempt goes on filling.
ReadPartly(c) ==
  /\ pc[c] = "body"
  /\ op[c].shape = "snapshot"
  /\ Exec(c, <<>>)
  /\ Fault
  /\ \E got \in SUBSET op[c].keys : Collect(c, got)
  /\ Goto(c, "failed")
  /\ UNCHANGED <<op, val, todo, expired, calls, history>>

\* A watched record was written between WATCH and EXEC: TxFailedErr.
ReadRefused(c) ==
  /\ pc[c] = "body"
  /\ op[c].shape = "snapshot"
  /\ ExecRefused(c)
  /\ Goto(c, "failed")
  /\ UNCHANGED <<op, val, todo, result, expired, calls, faults, history>>

\* HGET or HMGET of one key.
ReadPlain(c) ==
  /\ pc[c] = "body"
  /\ op[c].shape = "plain"
  /\ Collect(c, op[c].keys)
  /\ Goto(c, "done")
  /\ UNCHANGED <<serverVars, op, val, todo, expired, calls, faults, history>>

-----------------------------------------------------------------------------
Next ==
  \E c \in Clients :
    \/ Begin(c) \/ Watch(c) \/ AttemptFails(c) \/ Expire(c)
    \/ Retry(c) \/ GiveUp(c) \/ ReturnNil(c)
    \/ SetRecord(c) \/ SetReplyLost(c)
    \/ ReadSnapshot(c) \/ ReadPartly(c) \/ ReadRefused(c) \/ ReadPlain(c)

Spec == Init /\ [][Next]_vars

-----------------------------------------------------------------------------
(* Properties                                                              *)

\* The variables have their types.
TypeOK ==
  /\ store \in [Keys -> 0 .. MaxCalls]
  /\ watched \in [Clients -> SUBSET Keys]
  /\ dirty \in [Clients -> BOOLEAN]
  /\ pc \in [Clients -> {"idle", "watch", "body", "done", "failed"}]
  /\ op \in [Clients -> Ops \cup {NoOp}]
  /\ val \in [Clients -> 0 .. MaxCalls]
  /\ todo \in [Clients -> SUBSET SUBSET Keys]
  /\ result \in [Clients -> [Keys -> 0 .. MaxCalls]]
  /\ expired \in [Clients -> BOOLEAN]
  /\ calls \in 0 .. MaxCalls
  /\ faults \in 0 .. MaxFaults
  /\ seen \in [Clients -> SUBSET [Keys -> 0 .. MaxCalls]]
  /\ past \in [Keys -> SUBSET (0 .. MaxCalls)]
  /\ applied \in [Clients -> SUBSET Keys]

Answered(c) == pc[c] = "done" /\ op[c].shape # "set"

\* All the records a getter returns were in Redis together, at one moment of
\* the call, though its attempts and their broken replies fill one map
\* (getUsersPosition: "we're not reading it with stale data").
AnswerIsOneMoment ==
  \A c \in Clients : Answered(c) =>
    \E s \in seen[c] : \A k \in op[c].keys : result[c][k] = s[k]

\* A setter that returns nil has written each of its records during the call,
\* and a failed or running one has written no other.
NilMeansAllWritten ==
  \A c \in Clients :
    /\ pc[c] # "idle" => applied[c] \subseteq op[c].keys
    /\ pc[c] = "done" /\ op[c].shape = "set" => applied[c] = op[c].keys

\* A record that was overwritten comes back only when a setter repeats a write
\* that it has already made: the retry of a lost reply is not idempotent once
\* somebody else has written in between.
OldComesBackOnlyByRetry ==
  [][\A k \in Keys :
       store'[k] # store[k] /\ store'[k] \in past[k] =>
         \E c \in Clients : val[c] = store'[k] /\ k \in applied[c]]_vars
=============================================================================
