--------------------------- MODULE AtomicUpdates ---------------------------
(***************************************************************************)
(* What the README promises of a Redis transaction wrapper ("safe          *)
(* concurrent updates to the Redis cache"), without its mechanism: a call  *)
(* applies its update to the current value of all its keys in one step.    *)
(* A value is abstracted to the number of updates of each client that it   *)
(* incorporates, so an update that overwrote another would show.           *)
(***************************************************************************)
EXTENDS Naturals

CONSTANTS Clients, Keys,
          Footprint   \* Footprint[c]: the keys an update of c reads and writes

VARIABLES store,      \* store[k][c]: updates of c that the value of k includes
          open,       \* the clients inside a call
          applied,    \* applied[c]: the update of c's call took effect
          acked       \* acked[c]: calls of c that returned without an error

avars == <<store, open, applied, acked>>

Bump(version, c) == [version EXCEPT ![c] = @ + 1]

Init ==
  /\ store = [k \in Keys |-> [c \in Clients |-> 0]]
  /\ open = {}
  /\ applied = [c \in Clients |-> FALSE]
  /\ acked = [c \in Clients |-> 0]

Call(c) ==
  /\ c \notin open
  /\ open' = open \cup {c}
  /\ applied' = [applied EXCEPT ![c] = FALSE]
  /\ UNCHANGED <<store, acked>>

\* The whole update, on the values the keys have at this instant.
Apply(c) ==
  /\ c \in open
  /\ store' = [k \in Keys |-> IF k \in Footprint[c] THEN Bump(store[k], c)
                                                    ELSE store[k]]
  /\ applied' = [applied EXCEPT ![c] = TRUE]
  /\ UNCHANGED <<open, acked>>

\* nil is returned only for an update that took effect during the call.
ReturnOk(c) ==
  /\ c \in open
  /\ applied[c]
  /\ open' = open \ {c}
  /\ acked' = [acked EXCEPT ![c] = @ + 1]
  /\ UNCHANGED <<store, applied>>

\* An error says nothing about the update: the reply may have been lost.
ReturnError(c) ==
  /\ c \in open
  /\ open' = open \ {c}
  /\ UNCHANGED <<store, applied, acked>>

Next == \E c \in Clients : Call(c) \/ Apply(c) \/ ReturnOk(c) \/ ReturnError(c)

Spec == Init /\ [][Next]_avars
=============================================================================
