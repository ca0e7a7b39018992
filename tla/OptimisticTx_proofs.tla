------------------------ MODULE OptimisticTx_proofs ------------------------
(***************************************************************************)
(* Proofs about OptimisticTx, for every set of clients and keys, every     *)
(* footprint and every bound.                                              *)
(***************************************************************************)
EXTENDS OptimisticTx, TLAPS

(***************************************************************************)
(* Types.                                                                  *)
(***************************************************************************)

\* Counting one more update of c keeps a value a version.
LEMMA BumpType ==
  ASSUME NEW v \in Version, NEW c \in Clients
  PROVE  /\ Bump(v, c) \in Version
         /\ Bump(v, c)[c] = v[c] + 1
         /\ \A d \in Clients : d # c => Bump(v, c)[d] = v[d]
BY DEF Bump, Version

\* The initial state of TryTransaction's callers is well typed.
LEMMA InitType == Init => TypeOK
BY ClientAssumption DEF Init, TypeOK, Zero, Version, Places

\* The writes queued by the Set...Cmd helpers are versions of the keys written.
LEMMA WrittenType ==
  ASSUME TypeOK, NEW c \in Clients
  PROVE  /\ DOMAIN Written(c) = Footprint[c]
         /\ \A k \in Footprint[c] : Written(c)[k] \in Version
BY BumpType, ClientAssumption DEF Written, TypeOK

\* Executing the queued writes keeps the types of everything they assign.
LEMMA ExecWritesType ==
  ASSUME TypeOK, NEW c \in Clients, ExecWrites(c)
  PROVE  /\ store' \in [Keys -> Version]
         /\ watched' \in [Clients -> SUBSET Keys]
         /\ dirty' \in [Clients -> BOOLEAN]
         /\ commits' \in Version
         /\ applied' \in [Clients -> BOOLEAN]
<1>1. store' \in [Keys -> Version]
  BY WrittenType DEF ExecWrites, Exec, Overwrite, TypeOK
<1>2. watched' \in [Clients -> SUBSET Keys] /\ dirty' \in [Clients -> BOOLEAN]
  BY DEF ExecWrites, Exec, TypeOK
<1>3. commits' \in Version /\ applied' \in [Clients -> BOOLEAN]
  BY DEF ExecWrites, TypeOK, Version
<1> QED
  BY <1>1, <1>2, <1>3

\* Every step of TryTransaction keeps the types.
LEMMA NextType == TypeOK /\ [Next]_vars => TypeOK'
<1> SUFFICES ASSUME TypeOK, [Next]_vars PROVE TypeOK'
  OBVIOUS
<1> USE ClientAssumption DEF TypeOK, serverVars, callVars, history, Goto, Places
<1>1. ASSUME NEW c \in Clients, Begin(c) PROVE TypeOK'
  BY <1>1 DEF Begin, Version
<1>2. ASSUME NEW c \in Clients, Watch(c) PROVE TypeOK'
  BY <1>2 DEF Watch, WatchKeys
<1>3. ASSUME NEW c \in Clients, WatchFails(c) PROVE TypeOK'
  BY <1>3 DEF WatchFails, Fault
<1>4. ASSUME NEW c \in Clients, Expire(c) PROVE TypeOK'
  BY <1>4 DEF Expire
<1>5. ASSUME NEW c \in Clients, Retry(c) PROVE TypeOK'
  BY <1>5 DEF Retry
<1>6. ASSUME NEW c \in Clients, GiveUp(c) PROVE TypeOK'
  BY <1>6 DEF GiveUp
<1>7. ASSUME NEW c \in Clients, ReturnOk(c) PROVE TypeOK'
  BY <1>7 DEF ReturnOk, Version
<1>8. ASSUME NEW c \in Clients, ReadPlain(c) PROVE TypeOK'
  BY <1>8 DEF ReadPlain
<1>9. ASSUME NEW c \in Clients, ReadSnapshot(c) PROVE TypeOK'
  BY <1>9 DEF ReadSnapshot, Exec, Overwrite
<1>10. ASSUME NEW c \in Clients, Commit(c) PROVE TypeOK'
  <2>1. ExecWrites(c)
    BY <1>10 DEF Commit
  <2> QED
    BY <1>10, <2>1, ExecWritesType DEF Commit, ExecWrites
<1>11. ASSUME NEW c \in Clients, CommitReplyLost(c) PROVE TypeOK'
  <2>1. ExecWrites(c)
    BY <1>11 DEF CommitReplyLost
  <2>2. lost' \in Version
    BY <1>11 DEF CommitReplyLost, Version
  <2>3. faults' \in Nat
    BY <1>11 DEF CommitReplyLost, Fault
  <2>4. pc' \in [Clients -> Places]
    BY <1>11 DEF CommitReplyLost
  <2>5. UNCHANGED <<read, local, expired, calls, acked>>
    BY <2>1 DEF ExecWrites
  <2> QED
    BY <2>1, <2>2, <2>3, <2>4, <2>5, ExecWritesType
<1>12. ASSUME NEW c \in Clients, Conflict(c) PROVE TypeOK'
  BY <1>12 DEF Conflict, ExecRefused, Unwatch
<1>13. ASSUME NEW c \in Clients, ConnectionFails(c) PROVE TypeOK'
  BY <1>13 DEF ConnectionFails, Fault, Unwatch
<1>14. CASE UNCHANGED vars
  BY <1>14 DEF vars
<1> QED
  BY <1>1, <1>2, <1>3, <1>4, <1>5, <1>6, <1>7, <1>8, <1>9, <1>10, <1>11,
     <1>12, <1>13, <1>14 DEF Next, Step, Environment

\* The variables of the model keep their types in every behaviour.
THEOREM TypeCorrect == Spec => []TypeOK
<1>1. Init => TypeOK
  BY InitType
<1>2. TypeOK /\ [Next]_vars => TypeOK'
  BY NextType
<1> QED
  BY <1>1, <1>2, PTL DEF Spec

(***************************************************************************)
(* Optimistic locking: a plain reader whose connection is clean holds the  *)
(* current values.                                                         *)
(***************************************************************************)

\* Every assigned key is overwritten, the others are left alone, and a client
\* that stays clean watches none of the assigned keys.
LEMMA ExecEffect ==
  ASSUME TypeOK, NEW c \in Clients, NEW kv, Exec(c, kv)
  PROVE  /\ \A k \in Keys : store'[k] = IF k \in DOMAIN kv THEN kv[k] ELSE store[k]
         /\ \A d \in Clients \ {c} :
              /\ watched'[d] = watched[d]
              /\ ~dirty'[d] => ~dirty[d] /\ watched[d] \cap DOMAIN kv = {}
<1>1. \A k \in Keys : store'[k] = IF k \in DOMAIN kv THEN kv[k] ELSE store[k]
  BY DEF Exec, Overwrite
<1>2. \A d \in Clients \ {c} : watched'[d] = watched[d]
  BY DEF Exec, TypeOK
<1>3. \A d \in Clients \ {c} :
        ~dirty'[d] => ~dirty[d] /\ watched[d] \cap DOMAIN kv = {}
  BY DEF Exec, Touches, TypeOK
<1> QED
  BY <1>1, <1>2, <1>3

\* Another client's EXEC leaves a clean plain reader fresh.
LEMMA ExecKeepsFresh ==
  ASSUME TypeOK, FreshUnlessDirty,
         NEW c \in Clients, NEW kv, Exec(c, kv),
         NEW d \in Clients \ SnapshotReaders, d # c,
         pc[d] = "body", ~dirty'[d]
  PROVE  /\ Footprint[d] \subseteq watched'[d]
         /\ \A k \in read[d] : k \in Footprint[d] /\ local[d][k] = store'[k]
<1>1. /\ watched'[d] = watched[d]
      /\ ~dirty[d]
      /\ watched[d] \cap DOMAIN kv = {}
  BY ExecEffect
<1>2. /\ Footprint[d] \subseteq watched[d]
      /\ \A k \in read[d] : k \in Footprint[d] /\ local[d][k] = store[k]
  BY <1>1 DEF FreshUnlessDirty
<1>3. ASSUME NEW k \in read[d] PROVE store'[k] = store[k]
  <2>1. k \in Keys
    BY DEF TypeOK
  <2>2. k \notin DOMAIN kv
    BY <1>1, <1>2
  <2> QED
    BY <2>1, <2>2, ExecEffect
<1> QED
  BY <1>1, <1>2, <1>3

\* No step makes a clean plain reader stale.
LEMMA FreshStep == TypeOK /\ FreshUnlessDirty /\ [Next]_vars => FreshUnlessDirty'
<1> SUFFICES ASSUME TypeOK, FreshUnlessDirty, [Next]_vars,
                    NEW d \in Clients \ SnapshotReaders,
                    pc'[d] = "body", ~dirty'[d]
             PROVE  /\ Footprint[d] \subseteq watched'[d]
                    /\ \A k \in read'[d] : k \in Footprint[d] /\ local'[d][k] = store'[k]
  BY DEF FreshUnlessDirty
<1>a. TypeOK'
  BY NextType
<1> DEFINE Fresh == /\ Footprint[d] \subseteq watched[d]
                    /\ \A k \in read[d] : k \in Footprint[d] /\ local[d][k] = store[k]
<1>b. pc[d] = "body" /\ ~dirty[d] => Fresh
  BY DEF FreshUnlessDirty
<1> HIDE DEF Fresh
<1>c. ASSUME UNCHANGED <<serverVars, read, local>>, pc[d] = "body" PROVE Fresh'
  BY <1>b, <1>c DEF Fresh, serverVars
<1>1. ASSUME NEW c \in Clients,
             \/ Begin(c) \/ WatchFails(c) \/ Expire(c)
             \/ Retry(c) \/ GiveUp(c) \/ ReturnOk(c)
      PROVE  Fresh'
  <2>1. UNCHANGED <<serverVars, read, local>>
    BY <1>1 DEF Begin, WatchFails, Expire, Retry, GiveUp, ReturnOk, serverVars
  <2>2. pc[d] = "body"
    BY <1>1 DEF Begin, WatchFails, Expire, Retry, GiveUp, ReturnOk, Goto, TypeOK
  <2> QED
    BY <2>1, <2>2, <1>c
<1>2. ASSUME NEW c \in Clients, Watch(c) PROVE Fresh'
  <2>1. CASE c = d
    BY <1>2, <2>1 DEF Watch, WatchKeys, Fresh, TypeOK
  <2>2. CASE c # d
    <3>1. pc[d] = "body" /\ ~dirty[d] /\ watched'[d] = watched[d]
      BY <1>2, <2>2 DEF Watch, WatchKeys, Goto, TypeOK
    <3>2. store' = store /\ local' = local /\ read'[d] = read[d]
      BY <1>2, <2>2 DEF Watch, WatchKeys, TypeOK
    <3> QED
      BY <3>1, <3>2, <1>b DEF Fresh
  <2> QED
    BY <2>1, <2>2
<1>3. ASSUME NEW c \in Clients, ReadPlain(c) PROVE Fresh'
  <2>1. UNCHANGED serverVars /\ pc[d] = "body" /\ Fresh
    BY <1>3, <1>b DEF ReadPlain, serverVars
  <2>2. PICK k \in Footprint[c] \ read[c] :
          /\ read' = [read EXCEPT ![c] = @ \cup {k}]
          /\ local' = [local EXCEPT ![c][k] = store[k]]
    BY <1>3 DEF ReadPlain
  <2>3. k \in Keys
    BY ClientAssumption
  <2>4. CASE c = d
    BY <2>1, <2>2, <2>3, <2>4 DEF Fresh, TypeOK, serverVars
  <2>5. CASE c # d
    <3>1. read'[d] = read[d] /\ local'[d] = local[d]
      BY <2>2, <2>5 DEF TypeOK
    <3> QED
      BY <2>1, <3>1 DEF Fresh, serverVars
  <2> QED
    BY <2>4, <2>5
<1>4. ASSUME NEW c \in Clients, ReadSnapshot(c) PROVE Fresh'
  <2>1. d # c /\ pc[d] = "body" /\ Exec(c, <<>>)
    BY <1>4 DEF ReadSnapshot
  <2>2. read'[d] = read[d] /\ local'[d] = local[d]
    BY <1>4, <2>1 DEF ReadSnapshot, TypeOK
  <2> QED
    BY <2>1, <2>2, ExecKeepsFresh DEF Fresh
<1>5. ASSUME NEW c \in Clients, Commit(c) \/ CommitReplyLost(c) PROVE Fresh'
  <2>1. Exec(c, Written(c)) /\ UNCHANGED <<read, local>>
    BY <1>5 DEF Commit, CommitReplyLost, ExecWrites
  <2>2. d # c /\ pc[d] = "body"
    BY <1>5 DEF Commit, CommitReplyLost, Goto, TypeOK
  <2> QED
    BY <2>1, <2>2, ExecKeepsFresh DEF Fresh
<1>6. ASSUME NEW c \in Clients, Conflict(c) \/ ConnectionFails(c) PROVE Fresh'
  <2>1. d # c /\ pc[d] = "body"
    BY <1>6 DEF Conflict, ConnectionFails, Goto, TypeOK
  <2>2. UNCHANGED <<store, read, local>> /\ Unwatch(c)
    BY <1>6 DEF Conflict, ConnectionFails, ExecRefused, Unwatch
  <2>3. watched'[d] = watched[d] /\ dirty'[d] = dirty[d]
    BY <2>1, <2>2 DEF Unwatch, TypeOK
  <2> QED
    BY <2>1, <2>2, <2>3, <1>b DEF Fresh
<1>7. ASSUME UNCHANGED vars PROVE Fresh'
  BY <1>7, <1>c DEF vars, callVars
<1>8. Fresh'
  BY <1>1, <1>2, <1>3, <1>4, <1>5, <1>6, <1>7 DEF Next, Step, Environment
<1> QED
  BY <1>8 DEF Fresh

\* The optimistic lock works for plain reads: while EXEC would still succeed,
\* what the transaction function has read is what Redis holds.
THEOREM FreshInvariant == Spec => []FreshUnlessDirty
<1>1. Init => FreshUnlessDirty
  BY DEF Init, FreshUnlessDirty
<1>2. TypeOK /\ FreshUnlessDirty /\ [Next]_vars => FreshUnlessDirty'
  BY FreshStep
<1> QED
  BY <1>1, <1>2, TypeCorrect, PTL DEF Spec

(***************************************************************************)
(* Updates built on plain reads.                                           *)
(***************************************************************************)

\* Only the EXEC of c's writes changes the number of c's commits.
LEMMA CommitsChange ==
  ASSUME TypeOK, [Next]_vars, NEW c \in Clients, commits'[c] # commits[c]
  PROVE  ExecWrites(c)
<1>1. CASE UNCHANGED vars
  BY <1>1 DEF vars, history
<1>2. ASSUME NEW d \in Clients, Commit(d) \/ CommitReplyLost(d) PROVE ExecWrites(c)
  <2>1. ExecWrites(d)
    BY <1>2 DEF Commit, CommitReplyLost
  <2>2. d = c
    BY <2>1 DEF ExecWrites, TypeOK, Version
  <2> QED
    BY <2>1, <2>2
<1>3. ASSUME NEW d \in Clients, Step(d) \/ Environment(d),
             ~Commit(d), ~CommitReplyLost(d)
      PROVE  commits' = commits
  BY <1>3 DEF Step, Environment, Begin, Watch, WatchFails, Expire, Retry, GiveUp,
     ReturnOk, ReadPlain, ReadSnapshot, Conflict, ConnectionFails, history
<1> QED
  BY <1>1, <1>2, <1>3 DEF Next

\* A plain reader's EXEC adds its update to the values the keys have now.
LEMMA PlainCommit ==
  ASSUME TypeOK, FreshUnlessDirty,
         NEW c \in Clients \ SnapshotReaders, ExecWrites(c)
  PROVE  store' = [k \in Keys |-> IF k \in Footprint[c] THEN Bump(store[k], c)
                                                        ELSE store[k]]
<1>1. Exec(c, Written(c)) /\ ~dirty[c] /\ pc[c] = "body" /\ read[c] = Footprint[c]
  BY DEF ExecWrites, Exec
<1>2. \A k \in Footprint[c] : local[c][k] = store[k]
  BY <1>1 DEF FreshUnlessDirty
<1>3. DOMAIN Written(c) = Footprint[c]
      /\ \A k \in Footprint[c] : Written(c)[k] = Bump(store[k], c)
  BY <1>2 DEF Written
<1>4. store' = Overwrite(Written(c))
  BY <1>1 DEF Exec
<1> QED
  BY <1>3, <1>4 DEF Overwrite

\* However calls interleave, a write built on plain reads never overwrites an
\* update it has not seen, also next to clients that read by TxPipelined.
THEOREM PlainNeverOverwritesTheorem == Spec => PlainNeverOverwrites
<1> DEFINE A == \A c \in Clients \ SnapshotReaders :
                  commits'[c] # commits[c] =>
                    \A k \in Footprint[c] : store'[k] = Bump(store[k], c)
<1>1. TypeOK /\ FreshUnlessDirty /\ [Next]_vars => A
  <2> SUFFICES ASSUME TypeOK, FreshUnlessDirty, [Next]_vars,
                      NEW c \in Clients \ SnapshotReaders, commits'[c] # commits[c],
                      NEW k \in Footprint[c]
               PROVE  store'[k] = Bump(store[k], c)
    OBVIOUS
  <2>1. ExecWrites(c)
    BY CommitsChange
  <2>2. k \in Keys
    BY ClientAssumption
  <2> QED
    BY <2>1, <2>2, PlainCommit
<1>2. A => [A]_vars
  OBVIOUS
<1>3. TypeOK /\ FreshUnlessDirty /\ [Next]_vars => [A]_vars
  BY <1>1, <1>2
<1> HIDE DEF A
<1>4. Spec => [][A]_vars
  BY <1>3, TypeCorrect, FreshInvariant, PTL DEF Spec
<1> QED
  BY <1>4 DEF A, PlainNeverOverwrites

\* A step that does not commit leaves the store and the commits alone.
LEMMA StoreChange ==
  ASSUME TypeOK, [Next]_vars
  PROVE  \/ \E c \in Clients : ExecWrites(c)
         \/ store' = store /\ commits' = commits
<1>1. CASE UNCHANGED vars
  BY <1>1 DEF vars, serverVars, history
<1>2. ASSUME NEW c \in Clients, Commit(c) \/ CommitReplyLost(c)
      PROVE  ExecWrites(c)
  BY <1>2 DEF Commit, CommitReplyLost
<1>3. ASSUME NEW c \in Clients, ReadSnapshot(c)
      PROVE  store' = store /\ commits' = commits
  BY <1>3 DEF ReadSnapshot, Exec, Overwrite, history, TypeOK
<1>4. ASSUME NEW c \in Clients, Step(c) \/ Environment(c),
             ~Commit(c), ~CommitReplyLost(c), ~ReadSnapshot(c)
      PROVE  store' = store /\ commits' = commits
  BY <1>4 DEF Step, Environment, Begin, Watch, WatchFails, Expire, Retry, GiveUp,
     ReturnOk, ReadPlain, Conflict, ConnectionFails, WatchKeys, Unwatch,
     ExecRefused, serverVars, history
<1> QED
  BY <1>1, <1>2, <1>3, <1>4 DEF Next

\* What an EXEC of any client does to the guarded keys: the update of a plain
\* reader is added to them, that of a TxPipelined reader does not touch them.
LEMMA GuardedCommit ==
  ASSUME TypeOK, FreshUnlessDirty, NEW c \in Clients, ExecWrites(c)
  PROVE  \A k \in GuardedKeys :
           store'[k] = IF k \in Footprint[c] THEN Bump(store[k], c) ELSE store[k]
<1>1. CASE c \in Clients \ SnapshotReaders
  BY <1>1, PlainCommit DEF GuardedKeys
<1>2. CASE c \in SnapshotReaders
  <2>1. store' = Overwrite(Written(c)) /\ DOMAIN Written(c) = Footprint[c]
    BY DEF ExecWrites, Exec, Written
  <2>2. \A k \in GuardedKeys : k \in Keys /\ k \notin Footprint[c]
    BY <1>2 DEF GuardedKeys
  <2> QED
    BY <2>1, <2>2 DEF Overwrite
<1> QED
  BY <1>1, <1>2

\* Every committed update is in every guarded key that it wrote: the README's
\* "safe concurrent updates", for any number of services of either kind.
THEOREM GuardedNeverLostTheorem == Spec => []GuardedNeverLost
<1>1. Init => GuardedNeverLost
  BY DEF Init, GuardedNeverLost, NoneLostOn, GuardedKeys, Zero
<1>2. TypeOK /\ FreshUnlessDirty /\ GuardedNeverLost /\ [Next]_vars => GuardedNeverLost'
  <2> SUFFICES ASSUME TypeOK, FreshUnlessDirty, GuardedNeverLost, [Next]_vars,
                      NEW k \in GuardedKeys, NEW d \in Clients
               PROVE  store'[k][d] = IF k \in Footprint[d] THEN commits'[d] ELSE 0
    BY DEF GuardedNeverLost, NoneLostOn
  <2>1. store[k][d] = IF k \in Footprint[d] THEN commits[d] ELSE 0
    BY DEF GuardedNeverLost, NoneLostOn
  <2>2. ASSUME NEW c \in Clients, ExecWrites(c)
        PROVE  store'[k][d] = IF k \in Footprint[d] THEN commits'[d] ELSE 0
    <3>1. store'[k] = IF k \in Footprint[c] THEN Bump(store[k], c) ELSE store[k]
      BY <2>2, GuardedCommit
    <3>2. commits' = [commits EXCEPT ![c] = @ + 1]
      BY <2>2 DEF ExecWrites
    <3>3. store[k] \in Version /\ commits \in Version
      BY DEF TypeOK, GuardedKeys
    <3>4. CASE d = c
      <4>1. Bump(store[k], c)[d] = store[k][d] + 1
        BY <3>3, <3>4, BumpType
      <4>2. commits'[d] = commits[d] + 1
        BY <3>2, <3>3, <3>4 DEF Version
      <4> QED
        BY <2>1, <3>1, <3>4, <4>1, <4>2
    <3>5. CASE d # c
      BY <2>1, <3>1, <3>2, <3>3, <3>5, BumpType DEF Version
    <3> QED
      BY <3>4, <3>5
  <2>3. CASE store' = store /\ commits' = commits
    BY <2>1, <2>3
  <2> QED
    BY <2>2, <2>3, StoreChange
<1> QED
  BY <1>1, <1>2, TypeCorrect, FreshInvariant, PTL DEF Spec

\* With plain reads only, no update is ever missing from any key.
THEOREM NoLostUpdateTheorem ==
  ASSUME SnapshotReaders = {}
  PROVE  Spec => []NoLostUpdate
<1>1. GuardedNeverLost => NoLostUpdate
  BY DEF GuardedNeverLost, NoLostUpdate, GuardedKeys
<1> QED
  BY <1>1, GuardedNeverLostTheorem, PTL

(***************************************************************************)
(* What a caller may conclude from the result of TryTransaction.           *)
(***************************************************************************)

\* Which counters the steps of c move, and how c's place changes with them.
LEMMA OutcomeStep ==
  ASSUME TypeOK, NEW c \in Clients, Step(c) \/ Environment(c)
  PROVE  \/ /\ commits' = [commits EXCEPT ![c] = @ + 1]
            /\ acked' = acked /\ lost' = lost
            /\ pc[c] = "body" /\ pc' = [pc EXCEPT ![c] = "done"]
            /\ applied' = [applied EXCEPT ![c] = TRUE]
         \/ /\ commits' = [commits EXCEPT ![c] = @ + 1]
            /\ acked' = acked /\ lost' = [lost EXCEPT ![c] = @ + 1]
            /\ pc[c] = "body" /\ pc' = [pc EXCEPT ![c] = "failed"]
            /\ applied' = [applied EXCEPT ![c] = TRUE]
         \/ /\ commits' = commits /\ lost' = lost
            /\ acked' = [acked EXCEPT ![c] = @ + 1]
            /\ pc[c] = "done" /\ pc' = [pc EXCEPT ![c] = "idle"]
            /\ applied' = applied
         \/ /\ UNCHANGED <<commits, acked, lost>>
            /\ pc[c] = "idle" /\ pc' = [pc EXCEPT ![c] = "watch"]
            /\ applied' = [applied EXCEPT ![c] = FALSE]
         \/ /\ UNCHANGED <<commits, acked, lost, applied>>
            /\ pc[c] = "failed" /\ pc' = [pc EXCEPT ![c] = "idle"]
         \/ /\ UNCHANGED <<commits, acked, lost, applied>>
            /\ pc[c] \in {"watch", "failed", "body"}
            /\ \E p \in {"watch", "failed", "body"} : pc' = [pc EXCEPT ![c] = p]
         \/ UNCHANGED <<commits, acked, lost, applied, pc>>
<1>1. CASE Commit(c)
  BY <1>1 DEF Commit, ExecWrites, Goto
<1>2. CASE CommitReplyLost(c)
  BY <1>2 DEF CommitReplyLost, ExecWrites, Goto
<1>3. CASE ReturnOk(c)
  BY <1>3 DEF ReturnOk, Goto
<1>4. CASE Begin(c)
  BY <1>4 DEF Begin, Goto
<1>5. CASE GiveUp(c)
  BY <1>5 DEF GiveUp, Goto, history
<1>6. CASE Watch(c) \/ WatchFails(c) \/ Retry(c) \/ Conflict(c) \/ ConnectionFails(c)
  BY <1>6 DEF Watch, WatchFails, Retry, Conflict, ConnectionFails, Goto, history
<1>7. CASE Expire(c) \/ ReadPlain(c) \/ ReadSnapshot(c)
  BY <1>7 DEF Expire, ReadPlain, ReadSnapshot, history
<1> QED
  BY <1>1, <1>2, <1>3, <1>4, <1>5, <1>6, <1>7 DEF Step, Environment

\* An update takes effect exactly once per nil that was returned and once more
\* per lost EXEC reply, for every interleaving and every kind of reader.
THEOREM OncePerSuccessTheorem == Spec => []OncePerSuccess
<1>1. Init => OncePerSuccess
  <2> SUFFICES ASSUME Init, NEW c \in Clients
               PROVE  commits[c] = acked[c] + lost[c] + (IF pc[c] = "done" THEN 1 ELSE 0)
    BY DEF OncePerSuccess
  <2>1. commits[c] = 0 /\ acked[c] = 0 /\ lost[c] = 0
    BY DEF Init, Zero
  <2>2. pc[c] # "done"
    BY DEF Init
  <2> QED
    BY <2>1, <2>2
<1>2. TypeOK /\ OncePerSuccess /\ [Next]_vars => OncePerSuccess'
  <2> SUFFICES ASSUME TypeOK, OncePerSuccess, [Next]_vars, NEW d \in Clients
               PROVE  commits'[d] = acked'[d] + lost'[d] + (IF pc'[d] = "done" THEN 1 ELSE 0)
    BY DEF OncePerSuccess
  <2>1. commits[d] = acked[d] + lost[d] + (IF pc[d] = "done" THEN 1 ELSE 0)
    BY DEF OncePerSuccess
  <2>2. /\ commits \in [Clients -> Nat] /\ acked \in [Clients -> Nat]
        /\ lost \in [Clients -> Nat] /\ pc \in [Clients -> Places]
    BY DEF TypeOK, Version
  <2>3. CASE UNCHANGED vars
    BY <2>1, <2>3 DEF vars, callVars, history
  <2>4. ASSUME NEW c \in Clients, Step(c) \/ Environment(c)
        PROVE  commits'[d] = acked'[d] + lost'[d] + (IF pc'[d] = "done" THEN 1 ELSE 0)
    <3>1. CASE d = c
      BY <2>1, <2>2, <2>4, <3>1, OutcomeStep
    <3>2. CASE d # c
      BY <2>1, <2>2, <2>4, <3>2, OutcomeStep
    <3> QED
      BY <3>1, <3>2
  <2> QED
    BY <2>3, <2>4 DEF Next
<1> QED
  BY <1>1, <1>2, TypeCorrect, PTL DEF Spec

\* A nil is on its way only after the update of this very call took effect.
THEOREM DoneMeansAppliedTheorem == Spec => []DoneMeansApplied
<1>1. Init => DoneMeansApplied
  BY DEF Init, DoneMeansApplied
<1>2. TypeOK /\ DoneMeansApplied /\ [Next]_vars => DoneMeansApplied'
  <2> SUFFICES ASSUME TypeOK, DoneMeansApplied, [Next]_vars,
                      NEW d \in Clients, pc'[d] = "done"
               PROVE  applied'[d]
    BY DEF DoneMeansApplied
  <2>1. pc[d] = "done" => applied[d]
    BY DEF DoneMeansApplied
  <2>2. pc \in [Clients -> Places] /\ applied \in [Clients -> BOOLEAN]
    BY DEF TypeOK
  <2>3. CASE UNCHANGED vars
    BY <2>1, <2>3 DEF vars, callVars, history
  <2>4. ASSUME NEW c \in Clients, Step(c) \/ Environment(c) PROVE applied'[d]
    <3>1. CASE d = c
      BY <2>1, <2>2, <2>4, <3>1, OutcomeStep
    <3>2. CASE d # c
      BY <2>1, <2>2, <2>4, <3>2, OutcomeStep
    <3> QED
      BY <3>1, <3>2
  <2> QED
    BY <2>3, <2>4 DEF Next
<1> QED
  BY <1>1, <1>2, TypeCorrect, PTL DEF Spec

(***************************************************************************)
(* Refinement: on the guarded keys, a call of TryTransaction is an atomic  *)
(* update.                                                                 *)
(***************************************************************************)

\* Every step of the detailed specification is a step of the abstract one or
\* leaves the abstract variables alone.
LEMMA RefinementStep ==
  ASSUME TypeOK, FreshUnlessDirty, DoneMeansApplied, [Next]_vars
  PROVE  [Abstract!Next]_(Abstract!avars)
<1> DEFINE openNow == {c \in Clients : pc[c] # "idle"}
           guarded == [k \in GuardedKeys |-> store[k]]
<1>0. pc \in [Clients -> Places]
  BY DEF TypeOK
<1>1. ASSUME NEW c \in Clients, Begin(c) PROVE Abstract!Call(c)
  <2>1. c \notin openNow /\ openNow' = openNow \cup {c}
    BY <1>0, <1>1 DEF Begin, Goto
  <2> QED
    BY <1>1, <2>1 DEF Begin, Abstract!Call, serverVars
<1>2. ASSUME NEW c \in Clients, Commit(c) \/ CommitReplyLost(c) PROVE Abstract!Apply(c)
  <2>1. ExecWrites(c)
    BY <1>2 DEF Commit, CommitReplyLost
  <2>2. guarded' = [k \in GuardedKeys |-> IF k \in Footprint[c] THEN Bump(guarded[k], c)
                                                                ELSE guarded[k]]
    BY <2>1, GuardedCommit
  <2>3. c \in openNow /\ openNow' = openNow
    BY <1>0, <1>2 DEF Commit, CommitReplyLost, ExecWrites, Goto
  <2>4. applied' = [applied EXCEPT ![c] = TRUE] /\ acked' = acked
    BY <2>1 DEF ExecWrites
  <2> QED
    BY <2>2, <2>3, <2>4 DEF Abstract!Apply, Bump, Abstract!Bump
<1>3. ASSUME NEW c \in Clients, ReturnOk(c) PROVE Abstract!ReturnOk(c)
  <2>1. c \in openNow /\ openNow' = openNow \ {c}
    BY <1>0, <1>3 DEF ReturnOk, Goto
  <2>2. applied[c]
    BY <1>3 DEF ReturnOk, DoneMeansApplied
  <2> QED
    BY <1>3, <2>1, <2>2 DEF ReturnOk, Abstract!ReturnOk, serverVars
<1>4. ASSUME NEW c \in Clients, GiveUp(c) PROVE Abstract!ReturnError(c)
  <2>1. c \in openNow /\ openNow' = openNow \ {c}
    BY <1>0, <1>4 DEF GiveUp, Goto
  <2> QED
    BY <1>4, <2>1 DEF GiveUp, Abstract!ReturnError, serverVars, history
<1>5. ASSUME NEW c \in Clients,
             \/ Watch(c) \/ WatchFails(c) \/ Expire(c) \/ Retry(c)
             \/ ReadPlain(c) \/ ReadSnapshot(c) \/ Conflict(c) \/ ConnectionFails(c)
      PROVE  UNCHANGED Abstract!avars
  <2>1. openNow' = openNow
    BY <1>0, <1>5 DEF Watch, WatchFails, Expire, Retry, ReadPlain, ReadSnapshot,
       Conflict, ConnectionFails, Goto
  <2>2. UNCHANGED <<applied, acked>>
    BY <1>5 DEF Watch, WatchFails, Expire, Retry, ReadPlain, ReadSnapshot,
       Conflict, ConnectionFails, history
  <2>3. guarded' = guarded
    <3>1. store' = store
      BY <1>5 DEF Watch, WatchFails, Expire, Retry, ReadPlain, ReadSnapshot,
         Conflict, ConnectionFails, WatchKeys, Unwatch, ExecRefused, Exec,
         Overwrite, serverVars, TypeOK
    <3> QED
      BY <3>1
  <2> QED
    BY <2>1, <2>2, <2>3 DEF Abstract!avars
<1>6. ASSUME UNCHANGED vars PROVE UNCHANGED Abstract!avars
  BY <1>6 DEF vars, serverVars, callVars, history, Abstract!avars
<1> QED
  BY <1>1, <1>2, <1>3, <1>4, <1>5, <1>6
     DEF Next, Step, Environment, Abstract!Next

\* TryTransaction around reads and TxPipelined writes implements an atomic
\* read-modify-write of all the keys that no TxPipelined reader writes.
THEOREM Refinement == Spec => ImplementsAtomicUpdates
<1>1. Init => Abstract!Init
  BY DEF Init, Abstract!Init, Zero, GuardedKeys
<1>2. TypeOK /\ FreshUnlessDirty /\ DoneMeansApplied /\ [Next]_vars
        => [Abstract!Next]_(Abstract!avars)
  BY RefinementStep
<1> QED
  BY <1>1, <1>2, TypeCorrect, FreshInvariant, DoneMeansAppliedTheorem, PTL
     DEF Spec, Abstract!Spec, ImplementsAtomicUpdates

(***************************************************************************)
(* Snapshots.                                                              *)
(***************************************************************************)

\* The same clients update both keys.
Twins(j, k) == \A d \in Clients : j \in Footprint[d] <=> k \in Footprint[d]

\* Twins are written together, with one update more.
StoreAgrees == \A j, k \in Keys : Twins(j, k) => store[j] = store[k]

\* An EXEC of writes that were computed from equal values keeps twins equal: a
\* plain reader read what the store holds, a snapshot reader equal values.
LEMMA CommitAgrees ==
  ASSUME TypeOK, FreshUnlessDirty, SnapshotsAgree, StoreAgrees,
         NEW c \in Clients, ExecWrites(c)
  PROVE  StoreAgrees'
<1> SUFFICES ASSUME NEW j \in Keys, NEW k \in Keys, Twins(j, k)
             PROVE  store'[j] = store'[k]
  BY DEF StoreAgrees, Twins
<1>1. \A x \in Keys : store'[x] = IF x \in Footprint[c] THEN Bump(local[c][x], c)
                                                         ELSE store[x]
  BY DEF ExecWrites, Exec, Overwrite, Written
<1>2. (j \in Footprint[c] <=> k \in Footprint[c]) /\ store[j] = store[k]
  BY DEF Twins, StoreAgrees
<1>3. ASSUME j \in Footprint[c], k \in Footprint[c] PROVE local[c][j] = local[c][k]
  <2>1. pc[c] = "body" /\ ~dirty[c] /\ read[c] = Footprint[c]
    BY DEF ExecWrites, Exec
  <2>2. CASE c \in SnapshotReaders
    BY <1>3, <2>1, <2>2 DEF SnapshotsAgree, Twins
  <2>3. CASE c \notin SnapshotReaders
    BY <1>2, <1>3, <2>1, <2>3 DEF FreshUnlessDirty
  <2> QED
    BY <2>2, <2>3
<1> QED
  BY <1>1, <1>2, <1>3

\* A read changes what its client has read and nothing else; the other steps
\* change neither, or forget everything.
LEMMA AgreeStep ==
  TypeOK /\ FreshUnlessDirty /\ SnapshotsAgree /\ StoreAgrees /\ [Next]_vars
    => SnapshotsAgree' /\ StoreAgrees'
<1> SUFFICES ASSUME TypeOK, FreshUnlessDirty, SnapshotsAgree, StoreAgrees, [Next]_vars
             PROVE  SnapshotsAgree' /\ StoreAgrees'
  OBVIOUS
<1>1. StoreAgrees'
  BY StoreChange, CommitAgrees DEF StoreAgrees, Twins
<1>2. ASSUME NEW c \in SnapshotReaders,
             \/ read'[c] = read[c] /\ local'[c] = local[c]
             \/ read'[c] = {}
             \/ read'[c] \subseteq Keys /\ local'[c] = store
      PROVE  \A j, k \in read'[c] : Twins(j, k) => local'[c][j] = local'[c][k]
  BY <1>2 DEF SnapshotsAgree, StoreAgrees, Twins
<1>3. ASSUME NEW c \in SnapshotReaders
      PROVE  \/ read'[c] = read[c] /\ local'[c] = local[c]
             \/ read'[c] = {}
             \/ read'[c] \subseteq Keys /\ local'[c] = store
  <2>1. CASE UNCHANGED <<read, local>>
    BY <2>1
  <2>2. ASSUME NEW d \in Clients, Watch(d)
        PROVE  read'[c] = {} \/ (read'[c] = read[c] /\ local'[c] = local[c])
    BY <2>2, ClientAssumption DEF Watch, TypeOK
  <2>3. ASSUME NEW d \in Clients, ReadPlain(d)
        PROVE  read'[c] = read[c] /\ local'[c] = local[c]
    BY <2>3 DEF ReadPlain, TypeOK
  <2>4. ASSUME NEW d \in Clients, ReadSnapshot(d)
        PROVE  \/ read'[c] = read[c] /\ local'[c] = local[c]
               \/ read'[c] \subseteq Keys /\ local'[c] = store
    BY <2>4, ClientAssumption DEF ReadSnapshot, TypeOK
  <2>5. ASSUME NEW d \in Clients,
               \/ Commit(d) \/ CommitReplyLost(d) \/ Conflict(d) \/ ConnectionFails(d)
               \/ Begin(d) \/ WatchFails(d) \/ Expire(d) \/ Retry(d) \/ GiveUp(d) \/ ReturnOk(d)
        PROVE  UNCHANGED <<read, local>>
    BY <2>5 DEF Commit, CommitReplyLost, ExecWrites, Conflict, ConnectionFails, Begin,
                WatchFails, Expire, Retry, GiveUp, ReturnOk
  <2> QED
    BY <2>1, <2>2, <2>3, <2>4, <2>5 DEF Next, Step, Environment, vars, callVars
<1>4. SnapshotsAgree'
  BY <1>2, <1>3 DEF SnapshotsAgree, Twins
<1> QED
  BY <1>1, <1>4

\* GetUsersPositionCmd and GetPoolsCmd see one instant: two keys that the same
\* clients update are never read in different states, whatever is committed
\* before and after, and whatever was lost on the way.
THEOREM SnapshotsAgreeTheorem == Spec => []SnapshotsAgree
<1>1. Init => SnapshotsAgree /\ StoreAgrees
  BY ClientAssumption DEF Init, SnapshotsAgree, StoreAgrees
<1> QED
  BY <1>1, AgreeStep, TypeCorrect, FreshInvariant, PTL DEF Spec
=============================================================================
