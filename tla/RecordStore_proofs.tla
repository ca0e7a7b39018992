------------------------- MODULE RecordStore_proofs -------------------------
(***************************************************************************)
(* Proofs about RecordStore, for any operations of the three shapes on any *)
(* set of records, any number of services, calls and network faults.       *)
(***************************************************************************)
EXTENDS RecordStore, TLAPS

-----------------------------------------------------------------------------
(* The inductive invariant                                                 *)

\* A call in progress has an operation, and has seen what Redis holds now.
CallsSeeStore ==
  \A c \in Clients : pc[c] # "idle" => op[c] \in Ops /\ store \in seen[c]

\* The records a setter has written and those it still has to write are its own.
SetterProgress ==
  \A c \in Clients :
    /\ pc[c] = "idle" => applied[c] = {}
    /\ pc[c] = "body" => todo[c] \subseteq op[c].hsets
    /\ pc[c] = "body" /\ op[c].shape = "set" => op[c].keys = applied[c] \cup UNION todo[c]

Inv == /\ TypeOK /\ CallsSeeStore /\ SetterProgress
       /\ NilMeansAllWritten /\ AnswerIsOneMoment

-----------------------------------------------------------------------------
(* Lemmas                                                                  *)

Contents == [Keys -> 0 .. MaxCalls]

\* EXEC of reads leaves Redis as it is.
LEMMA ReadsChangeNothing ==
  ASSUME TypeOK, NEW c \in Clients, Exec(c, <<>>)
  PROVE  /\ store' = store
         /\ watched' \in [Clients -> SUBSET Keys] /\ dirty' \in [Clients -> BOOLEAN]
BY DEF TypeOK, Exec, Overwrite

\* What a getter collects are contents, and those of Redis on its records.
LEMMA CollectType ==
  ASSUME TypeOK, NEW c \in Clients, NEW ks \in SUBSET Keys, Collect(c, ks)
  PROVE  /\ result' \in [Clients -> Contents]
         /\ \A k \in ks : result'[c][k] = store[k]
         /\ \A d \in Clients \ {c} : result'[d] = result[d]
BY DEF TypeOK, Collect, Contents

\* What a getter has answered, for one of them.
AnswerHolds(d) ==
  Answered(d) => \E s \in seen[d] : \A k \in op[d].keys : result[d][k] = s[k]

\* It stays true of its call.
LEMMA AnswerStays ==
  ASSUME Inv, NEW d \in Clients,
         pc'[d] = pc[d] \/ pc'[d] # "done",
         op'[d] = op[d], result'[d] = result[d], seen[d] \subseteq seen'[d]
  PROVE  AnswerHolds(d)'
<1> SUFFICES ASSUME Answered(d)'
             PROVE  \E s \in seen'[d] : \A k \in op'[d].keys : result'[d][k] = s[k]
  BY DEF AnswerHolds
<1>1. Answered(d)
  BY DEF Answered
<1>2. PICK s \in seen[d] : \A k \in op[d].keys : result[d][k] = s[k]
  BY <1>1 DEF Inv, AnswerIsOneMoment
<1> QED
  BY <1>2

\* Nothing has been called.
LEMMA InitInv == Init => Inv
<1> SUFFICES ASSUME Init PROVE Inv
  OBVIOUS
<1> USE RecordAssumption DEF Init, Empty
<1>1. TypeOK
  BY DEF TypeOK, NoOp
<1>2. CallsSeeStore /\ SetterProgress /\ NilMeansAllWritten /\ AnswerIsOneMoment
  BY DEF CallsSeeStore, SetterProgress, NilMeansAllWritten, AnswerIsOneMoment, Answered
<1> QED
  BY <1>1, <1>2 DEF Inv

-----------------------------------------------------------------------------
(* TryTransaction                                                          *)

LEMMA BeginStep ==
  ASSUME Inv, NEW c \in Clients, Begin(c)
  PROVE  Inv'
<1> USE RecordAssumption
<1>1. PICK o \in Ops : op' = [op EXCEPT ![c] = o]
  BY DEF Begin
<1>2. /\ pc[c] = "idle" /\ pc' = [pc EXCEPT ![c] = "watch"]
      /\ seen' = [seen EXCEPT ![c] = {store}]
      /\ calls' = calls + 1 /\ calls < MaxCalls /\ val' = [val EXCEPT ![c] = calls']
      /\ UNCHANGED <<store, watched, dirty, todo, result, expired, faults, past, applied>>
  BY DEF Begin, Goto, serverVars
<1>3. TypeOK'
  BY <1>1, <1>2 DEF Inv, TypeOK
<1>4. CallsSeeStore' /\ SetterProgress'
  BY <1>1, <1>2 DEF Inv, TypeOK, CallsSeeStore, SetterProgress
<1>5. NilMeansAllWritten'
  BY <1>1, <1>2 DEF Inv, TypeOK, SetterProgress, NilMeansAllWritten
<1>6. AnswerIsOneMoment'
  <2>1. \A d \in Clients \ {c} : /\ pc'[d] = pc[d] /\ op'[d] = op[d]
                                /\ result'[d] = result[d] /\ seen'[d] = seen[d]
    BY <1>1, <1>2 DEF Inv, TypeOK
  <2>2. ~Answered(c)'
    BY <1>2 DEF Inv, TypeOK, Answered
  <2>3. \A d \in Clients \ {c} : AnswerHolds(d)'
    BY <2>1, AnswerStays
  <2> QED
    BY <2>1, <2>2, <2>3 DEF AnswerIsOneMoment, AnswerHolds
<1> QED
  BY <1>3, <1>4, <1>5, <1>6 DEF Inv

LEMMA WatchStep ==
  ASSUME Inv, NEW c \in Clients, Watch(c)
  PROVE  Inv'
<1> USE RecordAssumption
<1>1. /\ pc[c] = "watch" /\ pc' = [pc EXCEPT ![c] = "body"]
      /\ todo' = [todo EXCEPT ![c] = op[c].hsets]
      /\ watched' = [watched EXCEPT ![c] = @ \cup op[c].watch]
      /\ UNCHANGED <<store, dirty, op, val, result, expired, calls, faults, seen, past, applied>>
  BY DEF Watch, WatchKeys, Goto, history
<1>2. op[c] \in Ops
  BY <1>1 DEF Inv, CallsSeeStore
<1>3. TypeOK'
  BY <1>1, <1>2 DEF Inv, TypeOK
<1>4. CallsSeeStore'
  BY <1>1 DEF Inv, TypeOK, CallsSeeStore
<1>5. SetterProgress'
  <2>1. applied[c] \subseteq op[c].keys
    BY <1>1 DEF Inv, NilMeansAllWritten
  <2>2. op[c].shape = "set" => op[c].keys = UNION op[c].hsets
    BY <1>2
  <2> QED
    BY <1>1, <2>1, <2>2 DEF Inv, TypeOK, SetterProgress
<1>6. NilMeansAllWritten'
  BY <1>1 DEF Inv, TypeOK, NilMeansAllWritten
<1>7. AnswerIsOneMoment'
  <2>1. \A d \in Clients : /\ pc'[d] = pc[d] \/ pc'[d] # "done" 
                           /\ op'[d] = op[d] /\ result'[d] = result[d] /\ seen'[d] = seen[d]
    BY <1>1 DEF Inv, TypeOK
  <2> QED
    BY <2>1, AnswerStays DEF AnswerIsOneMoment, AnswerHolds
<1> QED
  BY <1>3, <1>4, <1>5, <1>6, <1>7 DEF Inv

\* An attempt that fails or is made again, and the end of the backoff's time.
LEMMA AttemptStep ==
  ASSUME Inv, NEW c \in Clients, AttemptFails(c) \/ Retry(c) \/ Expire(c)
  PROVE  Inv'
<1> USE RecordAssumption
<1>1. /\ \/ pc' = [pc EXCEPT ![c] = "failed"] /\ UNCHANGED todo
         \/ pc' = [pc EXCEPT ![c] = "watch"] /\ todo' = [todo EXCEPT ![c] = {}]
         \/ UNCHANGED <<pc, todo>>
      /\ pc[c] # "idle"
      /\ UNCHANGED <<store, op, val, result, calls, seen, past, applied>>
  BY DEF AttemptFails, Retry, Expire, Unwatch, Goto, serverVars, history
<1>2. TypeOK'
  <2>1. watched' \in [Clients -> SUBSET Keys] /\ dirty' \in [Clients -> BOOLEAN]
    BY DEF Inv, TypeOK, AttemptFails, Retry, Expire, Unwatch, serverVars
  <2>2. expired' \in [Clients -> BOOLEAN]
    BY DEF Inv, TypeOK, AttemptFails, Retry, Expire
  <2>3. faults' \in 0 .. MaxFaults
    <3>1. CASE AttemptFails(c)
      BY <3>1 DEF Inv, TypeOK, AttemptFails, Fault
    <3>2. CASE Retry(c) \/ Expire(c)
      BY <3>2 DEF Inv, TypeOK, Retry, Expire
    <3> QED
      BY <3>1, <3>2
  <2>4. /\ pc' \in [Clients -> {"idle", "watch", "body", "done", "failed"}]
        /\ todo' \in [Clients -> SUBSET SUBSET Keys]
    BY <1>1 DEF Inv, TypeOK
  <2> QED
    BY <1>1, <2>1, <2>2, <2>3, <2>4 DEF Inv, TypeOK
<1>3. \A d \in Clients : \/ (pc'[d] = pc[d] /\ todo'[d] = todo[d])
                         \/ (pc[d] # "idle" /\ pc'[d] \in {"failed", "watch"})
  BY <1>1 DEF Inv, TypeOK
<1>4. CallsSeeStore' /\ SetterProgress' /\ NilMeansAllWritten'
  BY <1>1, <1>3 DEF Inv, CallsSeeStore, SetterProgress, NilMeansAllWritten
<1>5. AnswerIsOneMoment'
  <2>1. \A d \in Clients : /\ pc'[d] = pc[d] \/ pc'[d] # "done"
                           /\ op'[d] = op[d] /\ result'[d] = result[d] /\ seen'[d] = seen[d]
    BY <1>1 DEF Inv, TypeOK
  <2> QED
    BY <2>1, AnswerStays DEF AnswerIsOneMoment, AnswerHolds
<1> QED
  BY <1>2, <1>4, <1>5 DEF Inv

\* The end of a call.
LEMMA LeaveStep ==
  ASSUME Inv, NEW c \in Clients, Leave(c)
  PROVE  Inv'
<1> USE RecordAssumption DEF Leave, Unwatch, Goto, Empty
<1>1. TypeOK'
  BY DEF Inv, TypeOK
<1>2. /\ pc'[c] = "idle" /\ applied'[c] = {} /\ UNCHANGED store
      /\ \A d \in Clients \ {c} :
           /\ pc'[d] = pc[d] /\ op'[d] = op[d] /\ result'[d] = result[d]
           /\ seen'[d] = seen[d] /\ applied'[d] = applied[d] /\ todo'[d] = todo[d]
  BY DEF Inv, TypeOK
<1>3. CallsSeeStore' /\ SetterProgress' /\ NilMeansAllWritten'
  BY <1>2 DEF Inv, CallsSeeStore, SetterProgress, NilMeansAllWritten
<1>4. AnswerIsOneMoment'
  <2>1. ~Answered(c)'
    BY <1>2 DEF Answered
  <2>2. \A d \in Clients \ {c} : AnswerHolds(d)'
    BY <1>2, AnswerStays
  <2> QED
    BY <2>1, <2>2 DEF AnswerIsOneMoment, AnswerHolds
<1> QED
  BY <1>1, <1>3, <1>4 DEF Inv

-----------------------------------------------------------------------------
(* The functions                                                           *)

\* An HSET of a setter, whose reply arrives or not.
LEMMA HsetStep ==
  ASSUME Inv, NEW c \in Clients, NEW ks \in todo[c], Hset(c, ks),
         \/ pc' = [pc EXCEPT ![c] = IF todo[c] = {ks} THEN "done" ELSE "body"]
         \/ pc' = [pc EXCEPT ![c] = "failed"],
         faults' \in 0 .. MaxFaults
  PROVE  Inv'
<1> USE RecordAssumption
<1>1. /\ pc[c] = "body" /\ op[c].shape = "set"
      /\ todo' = [todo EXCEPT ![c] = @ \ {ks}]
      /\ applied' = [applied EXCEPT ![c] = @ \cup ks]
      /\ UNCHANGED <<op, val, result, expired, calls>>
  BY DEF Hset
<1>2. ks \in SUBSET Keys /\ val[c] \in 0 .. MaxCalls
  BY DEF Inv, TypeOK
<1>3. /\ store' \in Contents /\ dirty' \in [Clients -> BOOLEAN] /\ UNCHANGED watched
  BY <1>2 DEF Hset, SetNow, Overwrite, Inv, TypeOK, Contents
<1>4. seen' = [d \in Clients |-> IF pc[d] = "idle" THEN seen[d] ELSE seen[d] \cup {store'}]
  BY DEF Hset, Observe
<1>5. TypeOK'
  <2>1. past' \in [Keys -> SUBSET (0 .. MaxCalls)]
    BY DEF Hset, Inv, TypeOK
  <2>2. seen' \in [Clients -> SUBSET Contents]
    BY <1>3, <1>4 DEF Inv, TypeOK, Contents
  <2>3. todo' \in [Clients -> SUBSET SUBSET Keys] /\ applied' \in [Clients -> SUBSET Keys]
    BY <1>1, <1>2 DEF Inv, TypeOK
  <2>4. pc' \in [Clients -> {"idle", "watch", "body", "done", "failed"}]
    BY DEF Inv, TypeOK
  <2> QED
    BY <1>1, <1>3, <2>1, <2>2, <2>3, <2>4 DEF Inv, TypeOK, Contents
<1>6. \A d \in Clients : pc'[d] # "idle" => pc[d] # "idle"
  BY <1>1 DEF Inv, TypeOK
<1>7. CallsSeeStore'
  BY <1>1, <1>4, <1>6 DEF Inv, CallsSeeStore
<1>8. \A d \in Clients \ {c} : pc'[d] = pc[d] /\ todo'[d] = todo[d] /\ applied'[d] = applied[d]
  BY <1>1 DEF Inv, TypeOK
<1>9. /\ todo'[c] = todo[c] \ {ks} /\ applied'[c] = applied[c] \cup ks
      /\ pc'[c] = "failed" \/ pc'[c] = IF todo[c] = {ks} THEN "done" ELSE "body"
  BY <1>1 DEF Inv, TypeOK
<1>10. /\ op[c].keys = applied[c] \cup UNION todo[c] /\ todo[c] \subseteq op[c].hsets
  BY <1>1 DEF Inv, SetterProgress
<1>11. applied'[c] \cup UNION todo'[c] = op[c].keys
  BY <1>9, <1>10
<1>12. SetterProgress'
  BY <1>1, <1>8, <1>9, <1>10, <1>11 DEF Inv, SetterProgress
<1>13. NilMeansAllWritten'
  <2>1. pc'[c] = "done" => applied'[c] = op[c].keys
    BY <1>9, <1>11
  <2> QED
    BY <1>1, <1>8, <1>11, <2>1 DEF Inv, NilMeansAllWritten
<1>14. AnswerIsOneMoment'
  <2>1. \A d \in Clients \ {c} : seen[d] \subseteq seen'[d] /\ op'[d] = op[d] /\ result'[d] = result[d]
    BY <1>1, <1>4
  <2>2. ~Answered(c)'
    BY <1>1 DEF Answered
  <2>3. \A d \in Clients \ {c} : AnswerHolds(d)'
    BY <1>8, <2>1, AnswerStays
  <2> QED
    BY <2>2, <2>3 DEF AnswerIsOneMoment, AnswerHolds
<1> QED
  BY <1>5, <1>7, <1>12, <1>13, <1>14 DEF Inv

\* A getter's answer is what Redis holds at that moment.
LEMMA AnswerStep ==
  ASSUME Inv, NEW c \in Clients, ReadSnapshot(c) \/ ReadPlain(c)
  PROVE  Inv'
<1> USE RecordAssumption
<1>1. /\ pc[c] = "body" /\ op[c].shape # "set" /\ pc' = [pc EXCEPT ![c] = "done"]
      /\ Collect(c, op[c].keys)
      /\ UNCHANGED <<op, val, todo, expired, calls, faults, seen, past, applied>>
  BY DEF ReadSnapshot, ReadPlain, Goto, history
<1>2. op[c] \in Ops /\ store \in seen[c] /\ op[c].keys \in SUBSET Keys
  BY <1>1 DEF Inv, CallsSeeStore
<1>3. /\ store' = store
      /\ watched' \in [Clients -> SUBSET Keys] /\ dirty' \in [Clients -> BOOLEAN]
  BY ReadsChangeNothing DEF Inv, TypeOK, ReadSnapshot, ReadPlain, serverVars
<1>4. /\ result' \in [Clients -> Contents]
      /\ \A k \in op[c].keys : result'[c][k] = store[k]
      /\ \A d \in Clients \ {c} : result'[d] = result[d]
  BY <1>1, <1>2, CollectType DEF Inv
<1>5. TypeOK'
  BY <1>1, <1>3, <1>4 DEF Inv, TypeOK, Contents
<1>6. CallsSeeStore' /\ SetterProgress' /\ NilMeansAllWritten'
  BY <1>1, <1>3 DEF Inv, TypeOK, CallsSeeStore, SetterProgress, NilMeansAllWritten
<1>7. AnswerIsOneMoment'
  <2>1. \A d \in Clients \ {c} : AnswerHolds(d)'
    <3>1. \A d \in Clients \ {c} : pc'[d] = pc[d]
      BY <1>1 DEF Inv, TypeOK
    <3> QED
      BY <1>1, <1>4, <3>1, AnswerStays
  <2>2. \E s \in seen'[c] : \A k \in op'[c].keys : result'[c][k] = s[k]
    BY <1>1, <1>2, <1>4
  <2> QED
    BY <2>1, <2>2 DEF AnswerIsOneMoment, AnswerHolds
<1> QED
  BY <1>5, <1>6, <1>7 DEF Inv

\* A read that breaks or is refused leaves what it has collected to the next.
LEMMA BrokenReadStep ==
  ASSUME Inv, NEW c \in Clients, ReadPartly(c) \/ ReadRefused(c)
  PROVE  Inv'
<1> USE RecordAssumption
<1>1. /\ pc[c] = "body" /\ pc' = [pc EXCEPT ![c] = "failed"]
      /\ UNCHANGED <<op, val, todo, expired, calls, seen, past, applied>>
  BY DEF ReadPartly, ReadRefused, Goto, history
<1>2. op[c] \in Ops /\ op[c].keys \in SUBSET Keys
  BY <1>1 DEF Inv, CallsSeeStore
<1>3. /\ store' = store
      /\ watched' \in [Clients -> SUBSET Keys] /\ dirty' \in [Clients -> BOOLEAN]
  <2>1. CASE ReadPartly(c)
    BY <2>1, ReadsChangeNothing DEF Inv, ReadPartly
  <2>2. CASE ReadRefused(c)
    BY <2>2 DEF Inv, TypeOK, ReadRefused, ExecRefused, Unwatch
  <2> QED
    BY <2>1, <2>2
<1>4. /\ result' \in [Clients -> Contents]
      /\ \A d \in Clients \ {c} : result'[d] = result[d]
  <2>1. ASSUME ReadPartly(c)
        PROVE  /\ result' \in [Clients -> Contents]
               /\ \A d \in Clients \ {c} : result'[d] = result[d]
    <3>1. PICK got \in SUBSET op[c].keys : Collect(c, got)
      BY <2>1 DEF ReadPartly
    <3>2. got \in SUBSET Keys
      BY <1>2
    <3> QED
      BY <3>1, <3>2, CollectType DEF Inv
  <2>2. CASE ReadRefused(c)
    BY <2>2 DEF Inv, TypeOK, ReadRefused, Contents
  <2> QED
    BY <2>1, <2>2
<1>5. TypeOK'
  <2>1. faults' \in 0 .. MaxFaults
    <3>1. CASE ReadPartly(c)
      BY <3>1 DEF Inv, TypeOK, ReadPartly, Fault
    <3>2. CASE ReadRefused(c)
      BY <3>2 DEF Inv, TypeOK, ReadRefused
    <3> QED
      BY <3>1, <3>2
  <2> QED
    BY <1>1, <1>3, <1>4, <2>1 DEF Inv, TypeOK, Contents
<1>6. CallsSeeStore' /\ SetterProgress' /\ NilMeansAllWritten'
  BY <1>1, <1>3 DEF Inv, TypeOK, CallsSeeStore, SetterProgress, NilMeansAllWritten
<1>7. AnswerIsOneMoment'
  <2>1. ~Answered(c)'
    BY <1>1 DEF Inv, TypeOK, Answered
  <2>2. \A d \in Clients \ {c} : AnswerHolds(d)'
    <3>1. \A d \in Clients \ {c} : pc'[d] = pc[d]
      BY <1>1 DEF Inv, TypeOK
    <3> QED
      BY <1>1, <1>4, <3>1, AnswerStays
  <2> QED
    BY <2>1, <2>2 DEF AnswerIsOneMoment, AnswerHolds
<1> QED
  BY <1>5, <1>6, <1>7 DEF Inv

-----------------------------------------------------------------------------
\* Every step of the services, and stuttering.
LEMMA NextInv == Inv /\ [Next]_vars => Inv'
<1> SUFFICES ASSUME Inv, [Next]_vars PROVE Inv'
  OBVIOUS
<1>1. CASE UNCHANGED vars
  BY <1>1 DEF vars, serverVars, callVars, history, Inv, TypeOK, CallsSeeStore,
              SetterProgress, NilMeansAllWritten, AnswerIsOneMoment, Answered
<1>2. ASSUME NEW c \in Clients, SetRecord(c) \/ SetReplyLost(c) PROVE Inv'
  <2>1. faults' \in 0 .. MaxFaults
    BY <1>2, RecordAssumption DEF Inv, TypeOK, SetRecord, SetReplyLost, Fault
  <2> QED
    BY <1>2, <2>1, HsetStep DEF SetRecord, SetReplyLost, Goto
<1>3. ASSUME NEW c \in Clients, GiveUp(c) \/ ReturnNil(c) PROVE Inv'
  BY <1>3, LeaveStep DEF GiveUp, ReturnNil
<1> QED
  BY <1>1, <1>2, <1>3, BeginStep, WatchStep, AttemptStep, AnswerStep, BrokenReadStep DEF Next

\* The types; a getter's answer was in Redis at one moment of its call, however
\* its attempts broke and which setters were half-way; and a setter that returns
\* nil has written all its records, in whatever attempts.
THEOREM GettersAndSettersAreSafe ==
  Spec => [](TypeOK /\ AnswerIsOneMoment /\ NilMeansAllWritten)
<1>1. Inv => TypeOK /\ AnswerIsOneMoment /\ NilMeansAllWritten
  BY DEF Inv
<1> QED
  BY <1>1, InitInv, NextInv, PTL DEF Spec

\* A getter never mixes moments, though its attempts share one result map
\* (src/ledger/redis/positions.go:196-253).
THEOREM AnswersAreOneMoment == Spec => []AnswerIsOneMoment
BY GettersAndSettersAreSafe, PTL

\* The nil of a setter stands for all of its records.
THEOREM NilMeansWritten == Spec => []NilMeansAllWritten
BY GettersAndSettersAreSafe, PTL

-----------------------------------------------------------------------------
(* Old records                                                             *)

\* A call in progress has a number of its own, which is in a record, now or
\* earlier, only where the call itself has put it.
NumbersAreMine ==
  /\ \A c \in Clients : pc[c] # "idle" <=> val[c] # 0
  /\ \A c \in Clients : val[c] <= calls
  /\ \A c, d \in Clients : val[c] = val[d] /\ val[c] # 0 => c = d
  /\ \A k \in Keys : store[k] <= calls /\ \A v \in past[k] : v <= calls
  /\ \A c \in Clients, k \in Keys :
       val[c] # 0 /\ (store[k] = val[c] \/ val[c] \in past[k]) => k \in applied[c]

\* Nothing is written by a new call, and no record has its number.
LEMMA BeginNumbers ==
  ASSUME Inv, NumbersAreMine, NEW c \in Clients, Begin(c)
  PROVE  NumbersAreMine'
<1>1. /\ pc[c] = "idle" /\ pc' = [pc EXCEPT ![c] = "watch"]
      /\ calls' = calls + 1 /\ val' = [val EXCEPT ![c] = calls + 1]
      /\ UNCHANGED <<store, past, applied>>
  BY DEF Begin, Goto, serverVars
<1>2. /\ calls \in Nat /\ \A d \in Clients : val[d] \in Nat
      /\ \A k \in Keys : store[k] \in Nat /\ \A v \in past[k] : v \in Nat
  BY RecordAssumption DEF Inv, TypeOK
<1>3. /\ val'[c] = calls + 1 /\ pc'[c] = "watch"
      /\ \A d \in Clients \ {c} : val'[d] = val[d] /\ pc'[d] = pc[d]
  BY <1>1 DEF Inv, TypeOK
<1>4. \A d \in Clients : pc'[d] # "idle" <=> val'[d] # 0
  BY <1>2, <1>3 DEF NumbersAreMine
<1>5. \A d \in Clients : val'[d] <= calls'
  BY <1>1, <1>2, <1>3 DEF NumbersAreMine
<1>6. \A d, e \in Clients : val'[d] = val'[e] /\ val'[d] # 0 => d = e
  BY <1>2, <1>3 DEF NumbersAreMine
<1>7. \A k \in Keys : store'[k] <= calls' /\ \A v \in past'[k] : v <= calls'
  BY <1>1, <1>2 DEF NumbersAreMine
<1>8. ASSUME NEW d \in Clients, NEW k \in Keys,
             val'[d] # 0, store'[k] = val'[d] \/ val'[d] \in past'[k]
      PROVE  k \in applied'[d]
  <2>1. d # c
    BY <1>1, <1>2, <1>3, <1>8 DEF NumbersAreMine
  <2> QED
    BY <1>1, <1>3, <1>8, <2>1 DEF NumbersAreMine
<1> QED
  BY <1>4, <1>5, <1>6, <1>7, <1>8 DEF NumbersAreMine

\* An HSET puts the number of its call into records of that call alone.
LEMMA HsetNumbers ==
  ASSUME Inv, NumbersAreMine, NEW c \in Clients, NEW ks \in todo[c], Hset(c, ks),
         pc' = [pc EXCEPT ![c] = IF todo[c] = {ks} THEN "done" ELSE "body"]
           \/ pc' = [pc EXCEPT ![c] = "failed"]
  PROVE  NumbersAreMine'
<1>1. /\ pc[c] = "body" /\ ks \subseteq Keys
      /\ applied' = [applied EXCEPT ![c] = @ \cup ks]
      /\ UNCHANGED <<val, calls>>
  BY DEF Hset, Inv, TypeOK
<1>2. \A k \in Keys : /\ store'[k] = IF k \in ks THEN val[c] ELSE store[k]
                      /\ past'[k] \subseteq past[k] \cup {store[k]}
  BY <1>1 DEF Hset, SetNow, Overwrite
<1>3. \A d \in Clients : (pc'[d] # "idle" <=> pc[d] # "idle") /\ applied[d] \subseteq applied'[d]
  BY <1>1 DEF Inv, TypeOK
<1>4. ks \subseteq applied'[c] /\ val[c] # 0 /\ val[c] <= calls
  BY <1>1 DEF Inv, TypeOK, NumbersAreMine
<1>5. \A k \in Keys : store'[k] <= calls' /\ \A v \in past'[k] : v <= calls'
  BY <1>1, <1>2, <1>4 DEF NumbersAreMine
<1>6. ASSUME NEW d \in Clients, NEW k \in Keys,
             val'[d] # 0, store'[k] = val'[d] \/ val'[d] \in past'[k]
      PROVE  k \in applied'[d]
  <2>1. CASE store[k] = val[d] \/ val[d] \in past[k]
    BY <1>1, <1>3, <1>6, <2>1 DEF NumbersAreMine
  <2>2. CASE k \in ks /\ val[c] = val[d]
    BY <1>4, <2>2 DEF NumbersAreMine
  <2> QED
    BY <1>1, <1>2, <1>6, <2>1, <2>2
<1> QED
  BY <1>1, <1>3, <1>5, <1>6 DEF NumbersAreMine

\* The end of a call takes its number away.
LEMMA LeaveNumbers ==
  ASSUME Inv, NumbersAreMine, NEW c \in Clients, Leave(c)
  PROVE  NumbersAreMine'
<1>1. /\ UNCHANGED <<store, past, calls>>
      /\ pc'[c] = "idle" /\ val'[c] = 0
      /\ \A d \in Clients \ {c} : pc'[d] = pc[d] /\ val'[d] = val[d] /\ applied'[d] = applied[d]
  BY DEF Leave, Unwatch, Goto, Inv, TypeOK
<1>2. calls \in Nat
  BY RecordAssumption DEF Inv, TypeOK
<1> QED
  BY <1>1, <1>2 DEF NumbersAreMine

\* The other steps write nothing and begin or end no call.
LEMMA OtherNumbers ==
  ASSUME Inv, NumbersAreMine, NEW c \in Clients,
         \/ Watch(c) \/ AttemptFails(c) \/ Expire(c) \/ Retry(c)
         \/ ReadSnapshot(c) \/ ReadPartly(c) \/ ReadRefused(c) \/ ReadPlain(c)
  PROVE  NumbersAreMine' /\ store' = store
<1>1. UNCHANGED <<val, calls, past, applied>>
  BY DEF Watch, AttemptFails, Expire, Retry, ReadSnapshot, ReadPartly, ReadRefused,
         ReadPlain, history
<1>2. store' = store
  <2>1. CASE ReadSnapshot(c) \/ ReadPartly(c)
    BY <2>1, ReadsChangeNothing DEF Inv, ReadSnapshot, ReadPartly
  <2>2. CASE \/ Watch(c) \/ AttemptFails(c) \/ Expire(c) \/ Retry(c)
             \/ ReadRefused(c) \/ ReadPlain(c)
    BY <2>2 DEF Watch, AttemptFails, Expire, Retry, ReadRefused, ReadPlain, WatchKeys,
                Unwatch, ExecRefused, serverVars
  <2> QED
    BY <2>1, <2>2
<1>3. \A d \in Clients : pc'[d] # "idle" <=> pc[d] # "idle"
  BY DEF Watch, AttemptFails, Expire, Retry, ReadSnapshot, ReadPartly, ReadRefused,
         ReadPlain, Goto, Inv, TypeOK
<1> QED
  BY <1>1, <1>2, <1>3 DEF NumbersAreMine

\* An overwritten record comes back (a record that differs from what is there and
\* was there earlier is written) only from a call that had written it before:
\* no other interleaving of setters, faults and retries revives an old record.
THEOREM RevivedOnlyByRetry == Spec => OldComesBackOnlyByRetry
<1>1. Init => NumbersAreMine
  BY RecordAssumption DEF Init, NumbersAreMine, Empty
<1>2. Inv /\ NumbersAreMine /\ [Next]_vars => NumbersAreMine'
  <2> SUFFICES ASSUME Inv, NumbersAreMine, [Next]_vars PROVE NumbersAreMine'
    OBVIOUS
  <2>1. CASE UNCHANGED vars
    BY <2>1 DEF vars, serverVars, callVars, history, NumbersAreMine
  <2>2. ASSUME NEW c \in Clients, SetRecord(c) \/ SetReplyLost(c) PROVE NumbersAreMine'
    BY <2>2, HsetNumbers DEF SetRecord, SetReplyLost, Goto
  <2>3. ASSUME NEW c \in Clients, GiveUp(c) \/ ReturnNil(c) PROVE NumbersAreMine'
    BY <2>3, LeaveNumbers DEF GiveUp, ReturnNil
  <2> QED
    BY <2>1, <2>2, <2>3, BeginNumbers, OtherNumbers DEF Next
<1>3. ASSUME Inv, NumbersAreMine, [Next]_vars, NEW k \in Keys,
             store'[k] # store[k], store'[k] \in past[k]
      PROVE  \E c \in Clients : val[c] = store'[k] /\ k \in applied[c]
  <2>1. PICK c \in Clients : SetRecord(c) \/ SetReplyLost(c)
    <3>1. ASSUME NEW c \in Clients, Begin(c) PROVE FALSE
      BY <1>3, <3>1 DEF Begin, serverVars
    <3>2. ASSUME NEW c \in Clients, GiveUp(c) \/ ReturnNil(c) PROVE FALSE
      BY <1>3, <3>2 DEF GiveUp, ReturnNil, Leave, Unwatch
    <3>3. CASE UNCHANGED vars
      BY <1>3, <3>3 DEF vars, serverVars
    <3> QED
      BY <1>3, <3>1, <3>2, <3>3, OtherNumbers DEF Next
  <2>2. PICK ks \in todo[c] : Hset(c, ks)
    BY <2>1 DEF SetRecord, SetReplyLost
  <2>3. /\ pc[c] = "body" /\ store'[k] = IF k \in ks THEN val[c] ELSE store[k]
    BY <2>2 DEF Hset, SetNow, Overwrite
  <2>4. store'[k] = val[c] /\ val[c] # 0
    BY <1>3, <2>3 DEF NumbersAreMine
  <2> QED
    BY <1>3, <2>4 DEF NumbersAreMine
<1>4. Inv /\ NumbersAreMine /\ [Next]_vars =>
        [\A k \in Keys :
           store'[k] # store[k] /\ store'[k] \in past[k] =>
             \E c \in Clients : val[c] = store'[k] /\ k \in applied[c]]_vars
  BY <1>3
<1> QED
  BY <1>1, <1>2, <1>4, InitInv, NextInv, PTL DEF Spec, OldComesBackOnlyByRetry
=============================================================================
