---------------------------- MODULE OptimisticTx ----------------------------
(***************************************************************************)
(* Read-modify-write transactions through redis.TryTransaction             *)
(* (src/redis/utils.go), the way the *Cmd helpers of src/ledger/redis,     *)
(* src/pools/redis and src/prices/redis let a service compose them:        *)
(*                                                                         *)
(*   TryTransaction(ctx, rdb, func(tx) {                                   *)
(*       read the keys      -- GetModulePositionCmd, GetPoolCmd,           *)
(*                             GetPricesCmd: one plain command each; or    *)
(*                             GetUsersPositionCmd, GetPoolsCmd: a         *)
(*                             TxPipelined, that is MULTI ... EXEC         *)
(*       compute                                                           *)
(*       tx.TxPipelined(Set...Cmd for every key)                           *)
(*   }, backoff, keys...)                                                  *)
(*                                                                         *)
(* The value of a key is abstracted to the number of updates of each       *)
(* client that it incorporates: a writer adds one to its own entry of the  *)
(* value it READ, so an overwritten update disappears from the count.      *)
(***************************************************************************)
EXTENDS RedisServer, Naturals

CONSTANTS Footprint,        \* Footprint[c]: the keys c watches, reads, writes
          SnapshotReaders,  \* the clients that read with a TxPipelined helper
          Bounded,          \* the clients whose retry timeout is not 0
          MaxCalls,         \* bound: TryTransaction calls of each client
          MaxFaults         \* bound: network faults in a behaviour

ASSUME ClientAssumption ==
  /\ Footprint \in [Clients -> SUBSET Keys]
  /\ SnapshotReaders \subseteq Clients
  /\ Bounded \subseteq Clients
  /\ MaxCalls \in Nat
  /\ MaxFaults \in Nat

VARIABLES pc,        \* where c is in TryTransaction
          read,      \* read[c]: keys whose value this attempt has read
          local,     \* local[c][k]: the value read
          expired,   \* c's backoff has used up MaxElapsedTime
          calls,     \* calls[c]: TryTransaction calls begun
          faults,    \* network faults so far
          \* what the callers observe, kept for the properties only
          commits,   \* commits[c]: EXECs of c that wrote
          applied,   \* c's current call has written
          acked,     \* acked[c]: calls that returned nil
          lost       \* lost[c]: EXECs that wrote but whose reply was lost

callVars == <<pc, read, local, expired, calls, faults>>
history == <<commits, applied, acked, lost>>
vars == <<serverVars, callVars, history>>

Bump(version, c) == [version EXCEPT ![c] = @ + 1]
Zero == [c \in Clients |-> 0]

Init ==
  /\ store = [k \in Keys |-> Zero]
  /\ watched = [c \in Clients |-> {}]
  /\ dirty = [c \in Clients |-> FALSE]
  /\ pc = [c \in Clients |-> "idle"]
  /\ read = [c \in Clients |-> {}]
  /\ local = [c \in Clients |-> [k \in Keys |-> Zero]]
  /\ expired = [c \in Clients |-> FALSE]
  /\ calls = Zero
  /\ faults = 0
  /\ commits = Zero
  /\ applied = [c \in Clients |-> FALSE]
  /\ acked = Zero
  /\ lost = Zero

Goto(c, place) == pc' = [pc EXCEPT ![c] = place]

\* A network fault, while the budget lasts.
Fault ==
  /\ faults < MaxFaults
  /\ faults' = faults + 1

-----------------------------------------------------------------------------
(* TryTransaction: backoff.Retry around rdb.Watch                          *)

\* backoff.Retry resets the elapsed time and makes the first attempt.
Begin(c) ==
  /\ pc[c] = "idle"
  /\ calls[c] < MaxCalls
  /\ Goto(c, "watch")
  /\ calls' = [calls EXCEPT ![c] = @ + 1]
  /\ expired' = [expired EXCEPT ![c] = FALSE]
  /\ applied' = [applied EXCEPT ![c] = FALSE]
  /\ UNCHANGED <<serverVars, read, local, faults, commits, acked, lost>>

\* Mutant: the keys are added to the watch list only after TryTransaction got it.
WatchNothing(c) ==
  /\ pc[c] = "watch"
  /\ WatchKeys(c, {})
  /\ Goto(c, "body")
  /\ read' = [read EXCEPT ![c] = {}]
  /\ UNCHANGED <<local, expired, calls, faults, history>>

\* rdb.Watch reserves a connection, sends WATCH and enters the function,
\* whose variables are fresh.
Watch(c) ==
  /\ pc[c] = "watch"
  /\ WatchKeys(c, Footprint[c])
  /\ Goto(c, "body")
  /\ read' = [read EXCEPT ![c] = {}]
  /\ UNCHANGED <<local, expired, calls, faults, history>>

\* The connection or the WATCH fails before the function runs.
WatchFails(c) ==
  /\ pc[c] = "watch"
  /\ Fault
  /\ Goto(c, "failed")
  /\ UNCHANGED <<serverVars, read, local, expired, calls, history>>

\* Time passes: the backoff's next wait would exceed MaxElapsedTime.
Expire(c) ==
  /\ c \in Bounded
  /\ pc[c] # "idle"
  /\ ~expired[c]
  /\ expired' = [expired EXCEPT ![c] = TRUE]
  /\ UNCHANGED <<serverVars, pc, read, local, calls, faults, history>>

\* Mutant: a timeout of 0 is taken for "no retry" instead of "for ever".
RetryBoundedOnly(c) ==
  /\ pc[c] = "failed"
  /\ ~expired[c]
  /\ c \in Bounded
  /\ Goto(c, "watch")
  /\ UNCHANGED <<serverVars, read, local, expired, calls, faults, history>>

\* Any error is retried while the backoff allows another wait.
Retry(c) ==
  /\ pc[c] = "failed"
  /\ ~expired[c]
  /\ Goto(c, "watch")
  /\ UNCHANGED <<serverVars, read, local, expired, calls, faults, history>>

\* NextBackOff answered Stop: the last error is returned.
GiveUp(c) ==
  /\ pc[c] = "failed"
  /\ expired[c]
  /\ Goto(c, "idle")
  /\ UNCHANGED <<serverVars, read, local, expired, calls, faults, history>>

\* The attempt returned nil, and so does TryTransaction, expired or not.
ReturnOk(c) ==
  /\ pc[c] = "done"
  /\ Goto(c, "idle")
  /\ acked' = [acked EXCEPT ![c] = @ + 1]
  /\ UNCHANGED <<serverVars, read, local, expired, calls, faults,
                 commits, applied, lost>>

-----------------------------------------------------------------------------
(* The transaction function                                                *)

\* GetModulePositionCmd, GetPoolCmd, GetPricesCmd: HGET / HMGET of one key.
ReadPlain(c) ==
  /\ pc[c] = "body"
  /\ c \notin SnapshotReaders
  /\ \E k \in Footprint[c] \ read[c] :
       /\ read' = [read EXCEPT ![c] = @ \cup {k}]
       /\ local' = [local EXCEPT ![c][k] = store[k]]
  /\ UNCHANGED <<serverVars, pc, expired, calls, faults, history>>

\* Mutant: the reads are pipelined without MULTI, other clients come between.
ReadPipelined(c) ==
  /\ pc[c] = "body"
  /\ c \in SnapshotReaders
  /\ \E k \in Footprint[c] \ read[c] :
       /\ read' = [read EXCEPT ![c] = @ \cup {k}]
       /\ local' = [local EXCEPT ![c][k] = store[k]]
  /\ UNCHANGED <<serverVars, pc, expired, calls, faults, history>>

\* GetUsersPositionCmd, GetPoolsCmd: HGETALL of every key in one EXEC, which
\* leaves the connection watching nothing.
ReadSnapshot(c) ==
  /\ pc[c] = "body"
  /\ c \in SnapshotReaders
  /\ read[c] # Footprint[c]
  /\ Exec(c, <<>>)
  /\ read' = [read EXCEPT ![c] = Footprint[c]]
  /\ local' = [local EXCEPT ![c] = store]
  /\ UNCHANGED <<pc, expired, calls, faults, history>>

\* The Set...Cmd of every key, queued and executed by TxPipelined.
Written(c) == [k \in Footprint[c] |-> Bump(local[c][k], c)]

ExecWrites(c) ==
  /\ pc[c] = "body"
  /\ read[c] = Footprint[c]
  /\ Exec(c, Written(c))
  /\ commits' = [commits EXCEPT ![c] = @ + 1]
  /\ applied' = [applied EXCEPT ![c] = TRUE]
  /\ UNCHANGED <<read, local, expired, calls, acked>>

\* Mutant: the error check is inverted, a committed attempt is retried.
CommitRetried(c) ==
  /\ ExecWrites(c)
  /\ Goto(c, "failed")
  /\ UNCHANGED <<faults, lost>>

Commit(c) ==
  /\ ExecWrites(c)
  /\ Goto(c, "done")
  /\ UNCHANGED <<faults, lost>>

\* EXEC ran, but the reply did not arrive: the attempt fails all the same.
CommitReplyLost(c) ==
  /\ ExecWrites(c)
  /\ Fault
  /\ Goto(c, "failed")
  /\ lost' = [lost EXCEPT ![c] = @ + 1]

\* Mutant: TxFailedErr is dropped and the attempt counts as a success.
ConflictIgnored(c) ==
  /\ pc[c] = "body"
  /\ c \in SnapshotReaders \/ read[c] = Footprint[c]
  /\ ExecRefused(c)
  /\ Goto(c, "done")
  /\ UNCHANGED <<read, local, expired, calls, faults, history>>

\* EXEC, of the snapshot read or of the writes, answers TxFailedErr.
Conflict(c) ==
  /\ pc[c] = "body"
  /\ c \in SnapshotReaders \/ read[c] = Footprint[c]
  /\ ExecRefused(c)
  /\ Goto(c, "failed")
  /\ UNCHANGED <<read, local, expired, calls, faults, history>>

\* A command fails; tx.Close drops the connection and its watches.
ConnectionFails(c) ==
  /\ pc[c] = "body"
  /\ Fault
  /\ Unwatch(c)
  /\ Goto(c, "failed")
  /\ UNCHANGED <<read, local, expired, calls, history>>

-----------------------------------------------------------------------------
Step(c) ==
  \/ Watch(c)
  \/ ReadPlain(c) \/ ReadSnapshot(c)
  \/ Commit(c) \/ Conflict(c)
  \/ Retry(c) \/ GiveUp(c) \/ ReturnOk(c)

Environment(c) ==
  \/ Begin(c) \/ Expire(c)
  \/ WatchFails(c) \/ CommitReplyLost(c) \/ ConnectionFails(c)

Next == \E c \in Clients : Step(c) \/ Environment(c)

Spec == Init /\ [][Next]_vars

\* A goroutine inside a call keeps running; nobody has to call, and nothing
\* has to fail or to expire.
Fairness == \A c \in Clients : WF_vars(Step(c))
FairSpec == Spec /\ Fairness

-----------------------------------------------------------------------------
(* Properties                                                              *)

Version == [Clients -> Nat]
Places == {"idle", "watch", "body", "done", "failed"}

\* The variables have their types (utils.go TryTransaction, redis.Tx).
TypeOK ==
  /\ store \in [Keys -> Version]
  /\ watched \in [Clients -> SUBSET Keys]
  /\ dirty \in [Clients -> BOOLEAN]
  /\ pc \in [Clients -> Places]
  /\ read \in [Clients -> SUBSET Keys]
  /\ local \in [Clients -> [Keys -> Version]]
  /\ expired \in [Clients -> BOOLEAN]
  /\ calls \in Version
  /\ faults \in Nat
  /\ commits \in Version
  /\ applied \in [Clients -> BOOLEAN]
  /\ acked \in Version
  /\ lost \in Version

NoneLostOn(ks) ==
  \A k \in ks, c \in Clients :
    store[k][c] = IF k \in Footprint[c] THEN commits[c] ELSE 0

\* No update that a client committed is missing from any key it wrote, and
\* none is there in part: README.md "safe concurrent updates".
NoLostUpdate == NoneLostOn(Keys)

\* The keys that no client reads by TxPipelined before it writes them.
GuardedKeys == Keys \ UNION {Footprint[c] : c \in SnapshotReaders}

\* On those keys the promise holds, also next to clients that read other keys
\* by TxPipelined.
GuardedNeverLost == NoneLostOn(GuardedKeys)

\* An update takes effect exactly once for each nil that TryTransaction
\* returned, plus once for each lost EXEC reply, after which the retry repeats
\* it: a caller that sees an error cannot tell.
OncePerSuccess ==
  \A c \in Clients :
    commits[c] = acked[c] + lost[c] + (IF pc[c] = "done" THEN 1 ELSE 0)

\* A write built on plain reads is built on the values its keys have at that
\* moment, whatever the other clients do: it never overwrites unseen work.
PlainNeverOverwrites ==
  [][\A c \in Clients \ SnapshotReaders :
       commits'[c] # commits[c] =>
         \A k \in Footprint[c] : store'[k] = Bump(store[k], c)]_vars

\* A TxPipelined read sees several keys at one instant: two keys that the
\* same clients update are never read in different states.
SnapshotsAgree ==
  \A c \in SnapshotReaders : \A j, k \in read[c] :
    (\A d \in Clients : j \in Footprint[d] <=> k \in Footprint[d])
      => local[c][j] = local[c][k]

\* Contention ends: with finitely many calls and faults every call returns,
\* also without a timeout.
EveryCallReturns == \A c \in Clients : pc[c] # "idle" ~> pc[c] = "idle"

-----------------------------------------------------------------------------
(* What makes NoLostUpdate inductive: in the function of a plain reader, a *)
(* connection that is still clean watches everything and what was read is  *)
(* what the store holds.                                                   *)
FreshUnlessDirty ==
  \A c \in Clients \ SnapshotReaders :
    pc[c] = "body" /\ ~dirty[c] =>
      /\ Footprint[c] \subseteq watched[c]
      /\ \A k \in read[c] : k \in Footprint[c] /\ local[c][k] = store[k]

\* A nil is pending only in a call whose update took effect.
DoneMeansApplied == \A c \in Clients : pc[c] = "done" => applied[c]

-----------------------------------------------------------------------------
Abstract == INSTANCE AtomicUpdates
              WITH Keys <- GuardedKeys,
                   store <- [k \in GuardedKeys |-> store[k]],
                   open <- {c \in Clients : pc[c] # "idle"}

\* On the guarded keys TryTransaction implements atomic updates.
ImplementsAtomicUpdates == Abstract!Spec
=============================================================================
