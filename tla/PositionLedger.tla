--------------------------- MODULE PositionLedger ---------------------------
(***************************************************************************)
(* The life of a position, src/ledger/types/position.go, or of the module  *)
(* position, src/ledger/types/module.go: a service reads it from Redis,    *)
(* changes it, takes copies and snapshots, and stores it again.  The       *)
(* object remembers the JSON it started from, to know whether it was       *)
(* modified and which sequence number its next record has.                 *)
(*                                                                         *)
(* Each service reads and stores within one TryTransaction.  The module is *)
(* read by HGET, so that storing it fails if it was stored since it was    *)
(* read; users' positions are read by TxPipelined, which gives the watches *)
(* up (OptimisticTx), and storing a stale position succeeds.  The services *)
(* keep the rules of the comments: a modified position has its sequence    *)
(* updated before it is recorded or stored; a module has no UpdateSequence *)
(* and its service assigns NextSequence.  Of the balances Owned is         *)
(* modelled; due is what the service is to take from it.                   *)
(***************************************************************************)
EXTENDS BalanceMath, Sequences, SequencesExt

CONSTANTS Services,
          Amounts,      \* the amounts of the services' requests
          MaxChanges,   \* bound: changes of a position
          MaxRecords    \* bound: records of one transaction

\* The second line is arithmetic that holds for every width.
ASSUME LedgerAssumption ==
  /\ Bits \in Nat \ {0} /\ Amounts \subseteq Int64 \cap Nat
  /\ 2 ^ (Bits - 1) \in Nat \ {0} /\ 2 ^ Bits = 2 * 2 ^ (Bits - 1)
  /\ MaxChanges \in Nat /\ MaxRecords \in Nat

VARIABLES kind,     \* "position" or "module"
          stored,   \* the JSON in Redis, a set of at most one
          in,       \* services in a transaction
          stale,    \* those whose position was stored since they read it
          position, \* of each service, the object at hand
          due,      \* of each service
          kept,     \* of each service, the copies to go back to
          emitted,  \* of each service, the records of its transaction
          records,  \* the records of all committed transactions
          overwritten, \* ghost: a stale position was stored over another one
          changes   \* the bounded changes so far

vars == <<kind, stored, in, stale, position, due, kept, emitted, records,
          overwritten, changes>>

-----------------------------------------------------------------------------
(* Positions                                                               *)

\* The exported fields.  Zero amounts are left out of the JSON, which here
\* and in the object are the same.
JSON(p) == [owned |-> p.owned, sequence |-> p.sequence]

\* json.Unmarshal into a new object; original is a set of at most one.
Unmarshal(j) == [owned |-> j.owned, sequence |-> j.sequence,
                 original |-> {}, originalSequence |-> 0]

\* Init of the object: no-op if it was initialised.
Initialised(p) ==
  IF p.original # {} THEN p
  ELSE [p EXCEPT !.original = {JSON(p)}, !.originalSequence = p.sequence]

\* InitialPosition and InitialModule, before the first record.
Initial == Initialised(Unmarshal([owned |-> EmptyBalances, sequence |-> 0]))

\* UnmarshalBinary; nothing in Redis is the initial position.
Read(js) == IF js = {} THEN Initial
            ELSE Initialised(Unmarshal(CHOOSE j \in js : TRUE))

IsModified(p) == p.original # {JSON(p)}
NextSequence(p) == p.originalSequence + 1

UpdateSequence(p) ==
  IF IsModified(p) THEN [p EXCEPT !.sequence = NextSequence(p)] ELSE p

\* Mutant of Copy: originalSequence is forgotten, an unexported field.
CopyExported(p) == [Unmarshal(JSON(p)) EXCEPT !.original = p.original]

\* With original and originalSequence.
Copy(p) == [Unmarshal(JSON(p)) EXCEPT !.original = p.original,
                                      !.originalSequence = p.originalSequence]

\* Without: what is there is the original from now on.
Snapshot(p) == Initialised(Unmarshal(JSON(p)))

-----------------------------------------------------------------------------
Init ==
  /\ kind \in {"position", "module"}
  /\ stored = {}
  /\ in = {} /\ stale = {}
  /\ position = [s \in Services |-> Initial]
  /\ due = [s \in Services |-> EmptyBalances]
  /\ kept = [s \in Services |-> [position |-> Initial, due |-> EmptyBalances]]
  /\ emitted = [s \in Services |-> <<>>]
  /\ records = <<>> /\ overwritten = FALSE
  /\ changes = 0

\* A new attempt of the transaction reads the position again.
Begin(s) ==
  /\ s \notin in
  /\ in' = in \cup {s} /\ stale' = stale \ {s}
  /\ position' = [position EXCEPT ![s] = Read(stored)]
  /\ due' = [due EXCEPT ![s] = EmptyBalances]
  /\ kept' = [kept EXCEPT ![s] = [position |-> Copy(Read(stored)), due |-> EmptyBalances]]
  /\ emitted' = [emitted EXCEPT ![s] = <<>>]
  /\ UNCHANGED <<kind, stored, records, overwritten, changes>>

-----------------------------------------------------------------------------
(* Changes                                                                 *)

SetOwned(s, bals) == position' = [position EXCEPT ![s].owned = bals]

Change(s) ==
  /\ s \in in
  /\ changes < MaxChanges /\ changes' = changes + 1
  /\ UNCHANGED <<kind, stored, in, stale, kept, emitted, records, overwritten>>

Credit(s, id, n) ==
  /\ Change(s)
  /\ SetOwned(s, AddAmount(position[s].owned, id, n))
  /\ UNCHANGED due

Withdraw(s, id, n) ==
  /\ Change(s)
  /\ CanSub(position[s].owned, id, n)
  /\ SetOwned(s, SubAmount(position[s].owned, id, n))
  /\ UNCHANGED due

\* Without SafeSub the position may go into debt.
Borrow(s, id, n) ==
  /\ Change(s)
  /\ SetOwned(s, SubAmount(position[s].owned, id, n))
  /\ UNCHANGED due

\* As much of it as there is.
TakeUpTo(s, id, n) ==
  /\ Change(s)
  /\ SetOwned(s, SubAmountToZero(position[s].owned, id, n))
  /\ UNCHANGED due

Charge(s, id, n) ==
  /\ Change(s)
  /\ due[s][id] + n \in Int64
  /\ due' = [due EXCEPT ![s] = AddAmount(@, id, n)]
  /\ UNCHANGED position

\* What cannot be paid stays due.
Repay(s) ==
  /\ s \in in
  /\ due[s] # EmptyBalances
  /\ LET paid == SubToZero(position[s].owned, due[s])
     IN  SetOwned(s, paid.bals) /\ due' = [due EXCEPT ![s] = paid.surplus]
  /\ UNCHANGED <<kind, stored, in, stale, kept, emitted, records, overwritten, changes>>

\* All that is due is paid at once, if need be by going into debt.
Settle(s) ==
  /\ s \in in
  /\ due[s] # EmptyBalances
  /\ SetOwned(s, SubBals(position[s].owned, due[s]))
  /\ due' = [due EXCEPT ![s] = EmptyBalances]
  /\ UNCHANGED <<kind, stored, in, stale, kept, emitted, records, overwritten, changes>>

-----------------------------------------------------------------------------
(* Copies, records and the end of the transaction                          *)

\* A copy is put aside before changes that may fail.
KeepCopy(s) ==
  /\ s \in in
  /\ kept' = [kept EXCEPT ![s] = [position |-> Copy(position[s]), due |-> due[s]]]
  /\ UNCHANGED <<kind, stored, in, stale, position, due, emitted, records, overwritten, changes>>

\* They failed.
GoBack(s) ==
  /\ s \in in
  /\ position' = [position EXCEPT ![s] = Copy(kept[s].position)]
  /\ due' = [due EXCEPT ![s] = kept[s].due]
  /\ UNCHANGED <<kind, stored, in, stale, kept, emitted, records, overwritten, changes>>

\* The service gives a modified position its sequence number.  Printing a
\* position, in a log say, does the same; printing a module changes nothing.
Number(s) ==
  /\ s \in in
  /\ position' = [position EXCEPT ![s] = UpdateSequence(@)]
  /\ UNCHANGED <<kind, stored, in, stale, due, kept, emitted, records, overwritten, changes>>

\* The rule of the comments.
Numbered(p) == IsModified(p) => p.sequence = NextSequence(p)

\* The records of the transaction, the last one of what is at hand.
Pending(s) == emitted[s] \o (IF IsModified(position[s]) THEN <<JSON(position[s])>> ELSE <<>>)

\* One step of the transaction ends with a record, the next one begins.
Record(s) ==
  /\ s \in in
  /\ IsModified(position[s]) /\ Numbered(position[s])
  /\ Len(emitted[s]) < MaxRecords
  /\ emitted' = [emitted EXCEPT ![s] = Pending(s)]
  /\ position' = [position EXCEPT ![s] = Snapshot(position[s])]
  /\ kept' = [kept EXCEPT ![s] = [position |-> Copy(Snapshot(position[s])), due |-> due[s]]]
  /\ UNCHANGED <<kind, stored, in, stale, due, records, overwritten, changes>>

\* The transaction is over and its objects are gone.
Leave(s) ==
  /\ in' = in \ {s}
  /\ position' = [position EXCEPT ![s] = Initial]
  /\ due' = [due EXCEPT ![s] = EmptyBalances]
  /\ kept' = [kept EXCEPT ![s] = [position |-> Initial, due |-> EmptyBalances]]
  /\ emitted' = [emitted EXCEPT ![s] = <<>>]

\* MarshalBinary in the MULTI of the transaction, which a watch stops only if
\* the module was stored since it was read.
Save(s) ==
  /\ s \in in
  /\ kind = "module" => s \notin stale
  /\ Pending(s) # <<>> /\ Numbered(position[s])
  /\ stored' = {JSON(position[s])}
  /\ records' = records \o Pending(s)
  /\ overwritten' = (overwritten \/ s \in stale)
  /\ Leave(s) /\ stale' = in \ {s}
  /\ UNCHANGED <<kind, changes>>

\* An error, a failed EXEC, or nothing to save.
End(s) ==
  /\ s \in in
  /\ Leave(s) /\ stale' = stale \ {s}
  /\ UNCHANGED <<kind, stored, records, overwritten, changes>>

Next == \E s \in Services :
  \/ Begin(s) \/ Repay(s) \/ Settle(s) \/ KeepCopy(s) \/ GoBack(s)
  \/ Number(s) \/ Record(s) \/ Save(s) \/ End(s)
  \/ \E id \in AssetIDs, n \in Amounts :
       \/ Credit(s, id, n) \/ Withdraw(s, id, n) \/ Borrow(s, id, n)
       \/ TakeUpTo(s, id, n) \/ Charge(s, id, n)

Spec == Init /\ [][Next]_vars

-----------------------------------------------------------------------------
(* Properties                                                              *)

Bals == [AssetIDs -> Int64]
Jsons == [owned : Bals, sequence : Nat]
Positions == [owned : Bals, sequence : Nat,
              original : SUBSET Jsons, originalSequence : Nat]

\* The variables have their types, and every object at hand was initialised.
TypeOK ==
  /\ kind \in {"position", "module"}
  /\ stored \subseteq Jsons /\ records \in Seq(Jsons)
  /\ in \subseteq Services /\ stale \subseteq in
  /\ position \in [Services -> Positions]
  /\ due \in [Services -> Bals]
  /\ kept \in [Services -> [position : Positions, due : Bals]]
  /\ emitted \in [Services -> Seq(Jsons)]
  /\ \A s \in Services : position[s].original # {} /\ kept[s].position.original # {}
  /\ overwritten \in BOOLEAN /\ changes \in Nat

Numbers(rs) == {rs[i].sequence : i \in DOMAIN rs}

\* position.go: "A user's first position on the platform has sequence number 1,
\* and each time their position is modified by a transaction, it increments.
\* Ensures completeness": whatever copies, snapshots, prints and concurrent
\* services there are, the last record is what Redis holds and no number is left
\* out; a number is repeated only once a stale position was stored, which never
\* happens to the module.
RecordsComplete ==
  /\ stored = IF records = <<>> THEN {} ELSE {Last(records)}
  /\ \A n \in Numbers(records) : n = 1 \/ n - 1 \in Numbers(records)
  /\ kind = "module" \/ ~overwritten => \A i \in DOMAIN records : records[i].sequence = i

\* What is there of asset id, and the smaller of it and n.
There(s, id) == IF position[s].owned[id] > 0 THEN position[s].owned[id] ELSE 0
Takes(s, id, n) == IF There(s, id) < n THEN There(s, id) ELSE n

\* SubToZero and SubAmountToZero take exactly the smaller of what is there and
\* what is asked for and leave debts alone, and SubToZero returns what was not
\* taken; SubBals takes everything, also below zero, and to the unit unless the
\* int64 wraps around.
TakesWhatIsThere ==
  [][\A s \in Services, id \in AssetIDs :
       /\ Repay(s) =>
            /\ position'[s].owned[id] = position[s].owned[id] - Takes(s, id, due[s][id])
            /\ due'[s][id] = due[s][id] - Takes(s, id, due[s][id])
       /\ \A n \in Amounts : TakeUpTo(s, id, n) =>
            position'[s].owned[id] = position[s].owned[id] - Takes(s, id, n)
       /\ Settle(s) =>
            (position'[s].owned[id] + due[s][id] - position[s].owned[id]) % 2 ^ Bits = 0]_vars
=============================================================================
