---------------------------- MODULE RedisServer ----------------------------
(***************************************************************************)
(* The part of a Redis server that the code under src/redis relies on:     *)
(* keys, single commands that execute at once, and the optimistic locking  *)
(* of WATCH / MULTI / EXEC.  The server is not part of the repository; it  *)
(* is modelled from the way go-redis' Watch, Tx.HSet, Tx.HGet and          *)
(* Tx.TxPipelined are used there.  Each client owns the connection that    *)
(* rdb.Watch reserves for one attempt of a transaction function.           *)
(*                                                                         *)
(* The three facts everything else turns on:                               *)
(*   - a command outside MULTI/EXEC takes effect at once, whatever the     *)
(*     connection is watching;                                             *)
(*   - any write to a key marks every connection that watches it dirty;    *)
(*   - EXEC, whether it runs or is refused, forgets every watched key.     *)
(***************************************************************************)
CONSTANTS Clients,   \* the goroutines that talk to the server
          Keys       \* the keys of the database

VARIABLES store,     \* store[k]: the value of key k
          watched,   \* watched[c]: the keys c's connection watches
          dirty      \* dirty[c]: a watched key was written since the WATCH

serverVars == <<store, watched, dirty>>

\* The store after the assignments in kv, a function from some of the keys.
Overwrite(kv) == [k \in Keys |-> IF k \in DOMAIN kv THEN kv[k] ELSE store[k]]

\* A write to ks invalidates the watches of d.
Touches(d, ks) == watched[d] \cap ks # {}

\* WATCH k1 k2 ...: adds to what the connection already watches.
WatchKeys(c, ks) ==
  /\ watched' = [watched EXCEPT ![c] = @ \cup ks]
  /\ UNCHANGED <<store, dirty>>

\* UNWATCH, or the connection is closed: nothing is watched any more.
Unwatch(c) ==
  /\ watched' = [watched EXCEPT ![c] = {}]
  /\ dirty' = [dirty EXCEPT ![c] = FALSE]
  /\ UNCHANGED store

\* HSET / HMSET outside a transaction.  No watch, the caller's own included,
\* stops it, and it marks the caller dirty as it does everybody else.
SetNow(kv) ==
  /\ store' = Overwrite(kv)
  /\ dirty' = [d \in Clients |-> dirty[d] \/ Touches(d, DOMAIN kv)]
  /\ UNCHANGED watched

\* EXEC of a queue of commands that assigns kv (nothing, when it only reads).
Exec(c, kv) ==
  /\ ~dirty[c]
  /\ store' = Overwrite(kv)
  /\ watched' = [watched EXCEPT ![c] = {}]
  /\ dirty' = [d \in Clients |->
                 d # c /\ (dirty[d] \/ Touches(d, DOMAIN kv))]

\* EXEC refused: the reply is nil, TxFailedErr for the caller.
ExecRefused(c) ==
  /\ dirty[c]
  /\ Unwatch(c)
=============================================================================
