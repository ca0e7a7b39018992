----------------------- MODULE PositionLedger_proofs -----------------------
(***************************************************************************)
(* Proofs about PositionLedger, for any number of services and assets,     *)
(* any width of the amounts, and any number of changes and records.        *)
(***************************************************************************)
EXTENDS PositionLedger, TLAPS

-----------------------------------------------------------------------------
(* Amounts stay within their width.                                        *)

LEMMA WrapType == \A n \in Int : Wrap(n) \in Int64
<1> SUFFICES ASSUME NEW n \in Int PROVE Wrap(n) \in Int64
  OBVIOUS
<1>1. PICK h \in Nat \ {0} : h = 2 ^ (Bits - 1) /\ 2 ^ Bits = 2 * h
  BY LedgerAssumption
<1>2. (n + h) % (2 * h) \in 0 .. (2 * h - 1)
  OBVIOUS
<1> QED
  BY <1>1, <1>2 DEF Wrap, Int64

LEMMA Int64Type == Int64 \subseteq Int /\ 0 \in Int64
BY LedgerAssumption DEF Int64

LEMMA EmptyType == EmptyBalances \in Bals
BY Int64Type DEF EmptyBalances, Bals

LEMMA AddType ==
  ASSUME NEW bals \in Bals, NEW id \in AssetIDs, NEW n \in Int
  PROVE  AddAmount(bals, id, n) \in Bals /\ SubAmount(bals, id, n) \in Bals
<1>1. ASSUME NEW m \in Int PROVE AddAmount(bals, id, m) \in Bals
  <2>1. bals[id] + m \in Int
    <3>1. bals[id] \in Int64
      BY DEF Bals
    <3>2. bals[id] \in Int
      BY <3>1, Int64Type
    <3> QED
      BY <3>2
  <2>2. Wrap(bals[id] + m) \in Int64
    BY <2>1, WrapType
  <2>3. PICK w \in Int64 : w = Wrap(bals[id] + m)
    BY <2>2
  <2>4. AddAmount(bals, id, m) = [bals EXCEPT ![id] = w]
    BY <2>3 DEF AddAmount
  <2> QED
    BY <2>4 DEF Bals
<1>2. -n \in Int
  OBVIOUS
<1>3. Wrap(-n) \in Int
  BY <1>2, WrapType, Int64Type
<1> QED
  BY <1>1, <1>3 DEF SubAmount

LEMMA SubAmountToZeroType ==
  ASSUME NEW bals \in Bals, NEW id \in AssetIDs, NEW n \in Int
  PROVE  SubAmountToZero(bals, id, n) \in Bals
<1>1. bals[id] \in Int64
  BY DEF Bals
<1>2. bals[id] \in Int
  BY <1>1, Int64Type
<1>3. SubAmount(bals, id, bals[id]) \in Bals /\ SubAmount(bals, id, n) \in Bals
  BY <1>2, AddType
<1> QED
  BY <1>2, <1>3 DEF SubAmountToZero

LEMMA SubBalsType ==
  ASSUME NEW bals \in Bals, NEW subs \in Bals
  PROVE  SubBals(bals, subs) \in Bals
<1>1. ASSUME NEW id \in AssetIDs PROVE Wrap(bals[id] + Invert(subs)[id]) \in Int64
  <2>1. bals[id] \in Int64 /\ subs[id] \in Int64
    BY DEF Bals
  <2>2. bals[id] \in Int /\ subs[id] \in Int
    BY <2>1, Int64Type
  <2>3. -subs[id] \in Int
    BY <2>2
  <2>4. PICK w \in Int : w = Wrap(-subs[id])
    BY <2>3, WrapType, Int64Type
  <2>5. Invert(subs)[id] = w
    BY <2>4 DEF Invert
  <2>6. bals[id] + w \in Int
    BY <2>2, <2>4
  <2> QED
    BY <2>5, <2>6, WrapType
<1> QED
  BY <1>1 DEF SubBals, AddBals, Bals

LEMMA SubToZeroType ==
  ASSUME NEW bals \in Bals, NEW subs \in Bals
  PROVE  SubToZero(bals, subs).bals \in Bals /\ SubToZero(bals, subs).surplus \in Bals
<1>1. ASSUME NEW id \in AssetIDs
      PROVE  /\ SubBalToZero(bals, id, subs[id]).bals[id] \in Int64
             /\ SubBalToZero(bals, id, subs[id]).surplus \in Int64
  <2> DEFINE sub == subs[id]
             naive == Wrap(bals[id] - sub)
  <2>1. bals[id] \in Int64 /\ sub \in Int64 /\ bals[id] \in Int /\ sub \in Int
    BY Int64Type DEF Bals
  <2>2. naive \in Int64 /\ naive \in Int /\ Wrap(-naive) \in Int64
    <3>1. bals[id] - sub \in Int
      BY <2>1
    <3>2. naive \in Int64 /\ naive \in Int
      BY <3>1, WrapType, Int64Type
    <3>3. -naive \in Int
      BY <3>2
    <3> QED
      BY <3>2, <3>3, WrapType
  <2>3. SubAmount(bals, id, sub) \in Bals /\ [bals EXCEPT ![id] = 0] \in Bals
    BY <2>1, AddType, Int64Type DEF Bals
  <2> HIDE DEF naive, sub
  <2>4. \/ bals[id] <= 0 /\ SubBalToZero(bals, id, sub) = [bals |-> bals, surplus |-> sub]
        \/ SubBalToZero(bals, id, sub)
             = [bals |-> [bals EXCEPT ![id] = 0], surplus |-> Wrap(-naive)]
        \/ SubBalToZero(bals, id, sub) = [bals |-> SubAmount(bals, id, sub), surplus |-> 0]
    BY <2>1, <2>2 DEF SubBalToZero, naive
  <2>5. SubBalToZero(bals, id, sub).bals[id] \in Int64 /\ SubBalToZero(bals, id, sub).surplus \in Int64
    BY <2>1, <2>2, <2>3, <2>4, Int64Type DEF Bals
  <2> QED
    BY <2>5 DEF sub
<1> QED
  BY <1>1 DEF SubToZero, Bals

\* Arithmetic that stays within the width is exact.
LEMMA WrapExact == \A n \in Int64 : Wrap(n) = n
<1> SUFFICES ASSUME NEW n \in Int64 PROVE Wrap(n) = n
  OBVIOUS
<1>1. PICK h \in Nat \ {0} : h = 2 ^ (Bits - 1) /\ 2 ^ Bits = 2 * h
  BY LedgerAssumption
<1>2. n \in Int /\ -h <= n /\ n <= h - 1
  BY <1>1 DEF Int64
<1>3. PICK d \in Nat \ {0} : d = 2 * h
  BY <1>1
<1>4. n + h \in 0 .. d - 1
  BY <1>2, <1>3
<1>5. (n + h) % d = n + h
  BY <1>4
<1> QED
  BY <1>1, <1>2, <1>3, <1>5 DEF Wrap

\* The difference of two amounts, wrapped around, is off by nothing or by the width.
LEMMA WrapDifference ==
  ASSUME NEW a \in Int64, NEW b \in Int64, b >= 0
  PROVE  (Wrap(a - b) + b - a) % 2 ^ Bits = 0
<1>1. PICK h \in Nat \ {0} : h = 2 ^ (Bits - 1) /\ 2 ^ Bits = 2 * h
  BY LedgerAssumption
<1>2. /\ a \in Int /\ -h <= a /\ a <= h - 1
      /\ b \in Int /\ 0 <= b /\ b <= h - 1
  BY <1>1 DEF Int64
<1>3. PICK d \in Nat \ {0} : d = 2 * h
  BY <1>1
<1>4. d % d = 0 /\ 0 % d = 0
  BY <1>3
<1>5. CASE a - b >= -h
  <2>1. a - b \in Int64
    BY <1>1, <1>2, <1>5 DEF Int64
  <2>2. Wrap(a - b) = a - b
    BY <2>1, WrapExact
  <2>3. Wrap(a - b) + b - a = 0
    BY <1>2, <2>2
  <2> QED
    BY <1>1, <1>3, <1>4, <2>3
<1>6. CASE a - b < -h
  <2>1. (a - b) + h \in -d .. -1
    BY <1>2, <1>3, <1>6
  <2>2. ((a - b) + h) % d = ((a - b) + h) + d
    BY <2>1
  <2>3. Wrap(a - b) = ((a - b) + h) + d - h
    BY <1>1, <1>2, <1>3, <2>2 DEF Wrap
  <2>4. Wrap(a - b) + b - a = d
    BY <1>1, <1>2, <1>3, <2>3
  <2> QED
    BY <1>1, <1>3, <1>4, <2>4
<1> QED
  BY <1>2, <1>5, <1>6

\* The smaller of what is there and what is asked for.
Smaller(there, n) ==
  LET some == IF there > 0 THEN there ELSE 0 IN IF some < n THEN some ELSE n

\* Taking an amount that is not negative, as far as it is there.
LEMMA SubBalToZeroTakes ==
  ASSUME NEW bals \in Bals, NEW id \in AssetIDs, NEW n \in Int64, n >= 0
  PROVE  /\ SubBalToZero(bals, id, n).bals[id] = bals[id] - Smaller(bals[id], n)
         /\ SubBalToZero(bals, id, n).surplus = n - Smaller(bals[id], n)
         /\ SubAmountToZero(bals, id, n)[id] = bals[id] - Smaller(bals[id], n)
         /\ 0 <= Smaller(bals[id], n) /\ Smaller(bals[id], n) <= n
<1>1. PICK h \in Nat \ {0} : h = 2 ^ (Bits - 1)
  BY LedgerAssumption
<1>2. PICK b \in Int : b = bals[id] /\ -h <= b /\ b <= h - 1
  BY <1>1 DEF Bals, Int64
<1>3. n \in Int /\ 0 <= n /\ n <= h - 1
  BY <1>1 DEF Int64
<1>4. PICK t \in Int : /\ t = Smaller(b, n)
                       /\ b <= 0 => t = 0
                       /\ b > 0 /\ b < n => t = b
                       /\ b > 0 /\ b >= n => t = n
                       /\ 0 <= t /\ t <= n
  BY <1>2, <1>3 DEF Smaller
<1>5. \A m \in Int : m \in 0 .. h - 1 /\ b > 0 =>
        SubAmount(bals, id, m)[id] = b - m /\ SubAmount(bals, id, m) \in Bals
  <2> SUFFICES ASSUME NEW m \in Int, m \in 0 .. h - 1, b > 0
               PROVE  SubAmount(bals, id, m)[id] = b - m /\ SubAmount(bals, id, m) \in Bals
    OBVIOUS
  <2>1. -m \in Int64 /\ b - m \in Int64 /\ b + -m = b - m
    BY <1>1, <1>2 DEF Int64
  <2>2. Wrap(-m) = -m /\ Wrap(b - m) = b - m
    BY <2>1, WrapExact
  <2>3. SubAmount(bals, id, m) = [bals EXCEPT ![id] = b - m]
    BY <1>2, <2>1, <2>2 DEF SubAmount, AddAmount
  <2> QED
    BY <2>1, <2>3 DEF Bals
<1>6. SubAmountToZero(bals, id, n)[id] = b - t
  <2>1. CASE b <= 0 \/ n <= 0
    <3>1. SubAmountToZero(bals, id, n) = bals
      BY <1>2, <1>3, <2>1 DEF SubAmountToZero
    <3> QED
      BY <1>2, <1>3, <1>4, <2>1, <3>1
  <2>2. CASE b > 0 /\ n > 0 /\ b <= n
    <3>1. SubAmountToZero(bals, id, n) = SubAmount(bals, id, b)
      BY <1>2, <1>3, <2>2 DEF SubAmountToZero
    <3>2. SubAmount(bals, id, b)[id] = b - b
      BY <1>2, <1>5, <2>2
    <3> QED
      BY <1>2, <1>3, <1>4, <2>2, <3>1, <3>2
  <2>3. CASE b > 0 /\ n > 0 /\ b > n
    <3>1. SubAmountToZero(bals, id, n) = SubAmount(bals, id, n)
      BY <1>2, <1>3, <2>3 DEF SubAmountToZero
    <3>2. SubAmount(bals, id, n)[id] = b - n
      BY <1>3, <1>5, <2>3
    <3> QED
      BY <1>2, <1>3, <1>4, <2>3, <3>1, <3>2
  <2> QED
    BY <1>2, <1>3, <2>1, <2>2, <2>3
<1>7. /\ SubBalToZero(bals, id, n).bals[id] = b - t
      /\ SubBalToZero(bals, id, n).surplus = n - t
  <2>1. CASE b <= 0
    <3>1. SubBalToZero(bals, id, n) = [bals |-> bals, surplus |-> n]
      BY <1>2, <2>1 DEF SubBalToZero
    <3> QED
      BY <1>2, <1>3, <1>4, <2>1, <3>1
  <2>2. CASE b > 0
    <3>1. b - n \in Int64 /\ b - n \in Int
      BY <1>1, <1>2, <1>3, <2>2 DEF Int64
    <3>2. Wrap(bals[id] - n) = b - n
      BY <1>2, <3>1, WrapExact
    <3>3. CASE b - n < 0
      <4>1. -(b - n) \in Int64 /\ -(b - n) = n - b
        BY <1>1, <1>2, <1>3, <2>2, <3>3 DEF Int64
      <4>2. Wrap(-(b - n)) = n - b
        BY <4>1, WrapExact
      <4>3. SubBalToZero(bals, id, n) = [bals |-> [bals EXCEPT ![id] = 0], surplus |-> n - b]
        BY <1>2, <1>3, <2>2, <3>1, <3>2, <3>3, <4>2 DEF SubBalToZero
      <4>4. SubBalToZero(bals, id, n).bals[id] = 0
        BY <4>3 DEF Bals
      <4> QED
        BY <1>2, <1>3, <1>4, <2>2, <3>3, <4>3, <4>4
    <3>4. CASE b - n >= 0
      <4>1. SubBalToZero(bals, id, n) = [bals |-> SubAmount(bals, id, n), surplus |-> 0]
        BY <1>2, <2>2, <3>1, <3>2, <3>4 DEF SubBalToZero
      <4>2. SubAmount(bals, id, n)[id] = b - n
        BY <1>3, <1>5, <2>2
      <4> QED
        BY <1>2, <1>3, <1>4, <2>2, <3>4, <4>1, <4>2
    <3> QED
      BY <3>1, <3>3, <3>4
  <2> QED
    BY <1>2, <2>1, <2>2
<1> QED
  BY <1>2, <1>4, <1>6, <1>7

-----------------------------------------------------------------------------
(* Positions                                                               *)

LEMMA JSONType == \A p \in Positions : JSON(p) \in Jsons
BY DEF JSON, Jsons, Positions

\* What Init makes of an object that was just read.
LEMMA FreshObject ==
  ASSUME NEW j \in Jsons
  PROVE  Initialised(Unmarshal(j)) = [owned |-> j.owned, sequence |-> j.sequence,
                                      original |-> {j}, originalSequence |-> j.sequence]
<1>1. JSON(Unmarshal(j)) = j
  BY DEF JSON, Unmarshal, Jsons
<1> QED
  BY <1>1 DEF Initialised, Unmarshal, Jsons

\* A copy has everything the position has.
LEMMA CopyIsSame == \A p \in Positions : Copy(p) = p
<1> SUFFICES ASSUME NEW p \in Positions PROVE Copy(p) = p
  OBVIOUS
<1>1. PICK u : u = [owned |-> p.owned, sequence |-> p.sequence,
                    original |-> {}, originalSequence |-> 0]
  OBVIOUS
<1>2. Unmarshal(JSON(p)) = u
  BY <1>1 DEF Unmarshal, JSON
<1>3. Copy(p) = [u EXCEPT !.original = p.original, !.originalSequence = p.originalSequence]
  BY <1>2 DEF Copy
<1>4. Copy(p) = [owned |-> p.owned, sequence |-> p.sequence, original |-> p.original,
                 originalSequence |-> p.originalSequence]
  BY <1>1, <1>3
<1> QED
  BY <1>4 DEF Positions

LEMMA UpdatedPosition ==
  ASSUME NEW p \in Positions
  PROVE  /\ UpdateSequence(p) \in Positions
         /\ UpdateSequence(p).original = p.original
         /\ UpdateSequence(p).originalSequence = p.originalSequence
         /\ IsModified(p) => UpdateSequence(p).sequence = p.originalSequence + 1
         /\ ~IsModified(p) => UpdateSequence(p) = p
BY DEF UpdateSequence, NextSequence, Positions

LEMMA SnapshotPosition ==
  ASSUME NEW p \in Positions
  PROVE  /\ Snapshot(p) \in Positions
         /\ Snapshot(p).original = {JSON(p)} /\ JSON(p) \in Jsons
         /\ Snapshot(p).originalSequence = p.sequence
         /\ Snapshot(p).sequence = p.sequence /\ JSON(p).sequence = p.sequence
<1>1. JSON(p) \in Jsons /\ JSON(p).sequence = p.sequence /\ JSON(p).owned = p.owned
  BY JSONType DEF JSON
<1>2. Snapshot(p) = [owned |-> p.owned, sequence |-> p.sequence,
                     original |-> {JSON(p)}, originalSequence |-> p.sequence]
  BY <1>1, FreshObject DEF Snapshot
<1> QED
  BY <1>1, <1>2 DEF Positions

-----------------------------------------------------------------------------
(* The inductive invariant                                                 *)

\* p started from the record before number n + 1, and has number n or n + 1.
Continues(p, n, e) ==
  /\ p.originalSequence = n /\ p.sequence \in {n, n + 1}
  /\ \E o \in Jsons : /\ p.original = {o} /\ o.sequence = n
                      /\ e # <<>> => o = e[Len(e)]

\* s began with the record that has the number n.
Begun(s, n) ==
  /\ \A i \in DOMAIN emitted[s] : emitted[s][i].sequence = n + i
  /\ Continues(position[s], n + Len(emitted[s]), emitted[s])
  /\ Continues(kept[s].position, n + Len(emitted[s]), emitted[s])

\* There is such a record, and as long as nothing was overwritten it is the last
\* one, unless s is stale.
Base(s, n) ==
  /\ n \in Nat /\ (n = 0 \/ n \in Numbers(records))
  /\ s \notin stale /\ ~overwritten => n = Len(records)

Ready(s) == \E n \in Nat : Base(s, n) /\ Begun(s, n)

Inv ==
  /\ TypeOK /\ RecordsComplete
  /\ kind = "module" => ~overwritten
  /\ \A s \in in : Ready(s)

\* A step of s that commits nothing.
Local(s) ==
  /\ UNCHANGED <<kind, stored, records, overwritten>>
  /\ \A t \in Services \ {s} : /\ position'[t] = position[t] /\ kept'[t] = kept[t]
                               /\ emitted'[t] = emitted[t]
                               /\ (t \in in' => t \in in) /\ (t \in stale => t \in stale')

LEMMA LocalStep ==
  ASSUME Inv, NEW s \in Services, Local(s), TypeOK', s \in in' => Ready(s)'
  PROVE  Inv'
<1>1. RecordsComplete' /\ (kind = "module" => ~overwritten)'
  BY DEF Inv, RecordsComplete, Numbers, Local
<1>2. ASSUME NEW t \in in', t # s PROVE Ready(t)'
  <2>1. t \in in /\ t \in Services /\ (t \in stale => t \in stale')
    BY <1>2 DEF Local, TypeOK
  <2>2. PICK n \in Nat : Base(t, n) /\ Begun(t, n)
    BY <2>1 DEF Inv, Ready
  <2>3. /\ position'[t] = position[t] /\ kept'[t] = kept[t] /\ emitted'[t] = emitted[t]
        /\ records' = records /\ (overwritten' <=> overwritten)
    BY <1>2, <2>1 DEF Local
  <2>4. Base(t, n)'
    BY <2>1, <2>2, <2>3 DEF Base, Numbers
  <2>5. Begun(t, n)'
    BY <2>2, <2>3 DEF Begun
  <2> QED
    BY <2>4, <2>5 DEF Ready
<1> QED
  BY <1>1, <1>2 DEF Inv

\* Only the position of s changes, to one that started from the same record.
LEMMA PositionStep ==
  ASSUME Inv, NEW s \in Services, NEW p \in Positions, s \in in,
         position' = [position EXCEPT ![s] = p],
         UNCHANGED <<kind, stored, in, stale, kept, emitted, records, overwritten>>,
         due' \in [Services -> Bals], changes' \in Nat,
         p.original # {},
         \A n \in Nat : \A e \in Seq(Jsons) :
           Continues(position[s], n, e) /\ Continues(kept[s].position, n, e)
             => Continues(p, n, e)
  PROVE  Inv'
<1>1. position' \in [Services -> Positions] /\ position'[s] = p
      /\ \A t \in Services \ {s} : position'[t] = position[t]
  BY DEF Inv, TypeOK
<1>2. \A t \in Services : position'[t].original # {} /\ kept'[t].position.original # {}
  BY <1>1 DEF Inv, TypeOK
<1>3. TypeOK'
  BY <1>1, <1>2 DEF Inv, TypeOK
<1>4. Local(s)
  BY <1>1 DEF Local
<1>5. Ready(s)'
  <2>1. PICK n \in Nat : Base(s, n) /\ Begun(s, n)
    BY DEF Inv, Ready
  <2>2. n + Len(emitted[s]) \in Nat /\ emitted[s] \in Seq(Jsons)
    BY DEF Inv, TypeOK
  <2>3. Continues(p, n + Len(emitted[s]), emitted[s])
    BY <2>1, <2>2 DEF Begun
  <2>4. Begun(s, n)'
    BY <1>1, <2>1, <2>3 DEF Begun
  <2>5. Base(s, n)'
    BY <2>1 DEF Base, Numbers
  <2> QED
    BY <2>4, <2>5 DEF Ready
<1> QED
  BY <1>3, <1>4, <1>5, LocalStep

-----------------------------------------------------------------------------
(* The steps                                                               *)

LEMMA InitialPosition ==
  /\ Initial \in Positions /\ Initial.original # {}
  /\ Initial.originalSequence = 0 /\ Initial.sequence = 0
  /\ \E o \in Jsons : Initial.original = {o} /\ o.sequence = 0
<1> DEFINE j == [owned |-> EmptyBalances, sequence |-> 0]
<1>1. j \in Jsons /\ j.sequence = 0
  BY EmptyType DEF Jsons
<1>2. Initial = [owned |-> j.owned, sequence |-> j.sequence,
                 original |-> {j}, originalSequence |-> j.sequence]
  BY <1>1, FreshObject DEF Initial
<1> HIDE DEF j
<1> QED
  BY <1>1, <1>2 DEF Positions, Jsons

LEMMA InitInv == Init => Inv
<1> SUFFICES ASSUME Init PROVE Inv
  OBVIOUS
<1>1. TypeOK
  <2>1. records \in Seq(Jsons) /\ emitted \in [Services -> Seq(Jsons)]
    BY DEF Init
  <2>2. /\ position \in [Services -> Positions] /\ due \in [Services -> Bals]
        /\ kept \in [Services -> [position : Positions, due : Bals]]
        /\ \A s \in Services : position[s].original # {} /\ kept[s].position.original # {}
    BY InitialPosition, EmptyType DEF Init
  <2> QED
    BY <2>1, <2>2 DEF Init, TypeOK
<1>2. RecordsComplete
  BY DEF Init, RecordsComplete, Numbers
<1> QED
  BY <1>1, <1>2 DEF Init, Inv

\* The object that is read continues the committed records.
LEMMA BeginStep ==
  ASSUME Inv, NEW s \in Services, Begin(s)
  PROVE  Inv'
<1> DEFINE p == Read(stored)
<1>1. PICK n \in Nat :
        /\ p \in Positions /\ p.original # {} /\ Continues(p, n, <<>>)
        /\ n = 0 \/ n \in Numbers(records)
        /\ ~overwritten => n = Len(records)
  <2>1. CASE records = <<>>
    <3>1. p = Initial /\ Len(records) = 0
      BY <2>1 DEF Inv, RecordsComplete, Read
    <3>2. Continues(p, 0, <<>>) /\ p \in Positions /\ p.original # {}
      BY <3>1, InitialPosition DEF Continues
    <3> QED
      BY <3>1, <3>2
  <2>2. CASE records # <<>>
    <3>1. /\ Len(records) \in DOMAIN records /\ records[Len(records)] \in Jsons
          /\ stored = {records[Len(records)]}
      <4>1. Len(records) \in DOMAIN records /\ records[Len(records)] \in Jsons
        BY <2>2 DEF Inv, TypeOK
      <4> QED
        BY <2>2, <4>1 DEF Inv, RecordsComplete, Last
    <3>2. PICK j \in Jsons : j = records[Len(records)]
      BY <3>1
    <3>3. p = [owned |-> j.owned, sequence |-> j.sequence,
               original |-> {j}, originalSequence |-> j.sequence]
      BY <3>1, <3>2, FreshObject DEF Read
    <3> HIDE DEF p
    <3>4. /\ p \in Positions /\ p.original # {}
          /\ j.sequence \in Nat /\ Continues(p, j.sequence, <<>>)
      BY <3>3 DEF Continues, Positions, Jsons
    <3>5. j.sequence \in Numbers(records)
      BY <3>1, <3>2 DEF Numbers
    <3>6. ~overwritten => j.sequence = Len(records)
      BY <3>1, <3>2 DEF Inv, RecordsComplete
    <3> QED
      BY <3>4, <3>5, <3>6
  <2> QED
    BY <2>1, <2>2
<1>2. Copy(p) = p
  BY <1>1, CopyIsSame
<1>3. /\ s \notin in /\ in' = in \cup {s} /\ stale' = stale \ {s}
      /\ position' = [position EXCEPT ![s] = p]
      /\ due' = [due EXCEPT ![s] = EmptyBalances]
      /\ kept' = [kept EXCEPT ![s] = [position |-> p, due |-> EmptyBalances]]
      /\ emitted' = [emitted EXCEPT ![s] = <<>>]
      /\ UNCHANGED <<kind, stored, records, overwritten, changes>>
  BY <1>2 DEF Begin
<1> HIDE DEF p
<1>4. /\ position' \in [Services -> Positions] /\ position'[s] = p
      /\ kept' \in [Services -> [position : Positions, due : Bals]] /\ kept'[s].position = p
      /\ due' \in [Services -> Bals]
      /\ \A t \in Services \ {s} : position'[t] = position[t] /\ kept'[t] = kept[t]
  BY <1>1, <1>3, EmptyType DEF Inv, TypeOK
<1>5. /\ emitted' \in [Services -> Seq(Jsons)] /\ emitted'[s] = <<>>
      /\ \A t \in Services \ {s} : emitted'[t] = emitted[t]
  <2> DEFINE T == Seq(Jsons)
  <2>1. <<>> \in T /\ emitted \in [Services -> T]
    BY DEF Inv, TypeOK
  <2> HIDE DEF T
  <2>2. emitted' \in [Services -> T] /\ emitted'[s] = <<>>
        /\ \A t \in Services \ {s} : emitted'[t] = emitted[t]
    BY <1>3, <2>1
  <2> QED
    BY <2>2 DEF T
<1>6. TypeOK'
  <2>1. \A t \in Services : position'[t].original # {} /\ kept'[t].position.original # {}
    BY <1>1, <1>4 DEF Inv, TypeOK
  <2> QED
    BY <1>3, <1>4, <1>5, <2>1 DEF Inv, TypeOK
<1>7. Local(s)
  BY <1>3, <1>4, <1>5 DEF Local
<1>8. Ready(s)'
  <2>1. n + Len(<<>>) = n
    OBVIOUS
  <2>2. Begun(s, n)'
    BY <1>1, <1>3, <1>4, <1>5, <2>1 DEF Begun
  <2>3. Base(s, n)'
    BY <1>1, <1>3 DEF Base, Numbers
  <2> QED
    BY <2>2, <2>3 DEF Ready
<1> QED
  BY <1>6, <1>7, <1>8, LocalStep

\* Changes of the balances leave the numbers alone.
LEMMA OwnedStep ==
  ASSUME Inv, NEW s \in Services, NEW bals \in Bals, s \in in, SetOwned(s, bals),
         UNCHANGED <<kind, stored, in, stale, kept, emitted, records, overwritten>>,
         due' \in [Services -> Bals], changes' \in Nat
  PROVE  Inv'
<1>1. PICK p : p = [position[s] EXCEPT !.owned = bals]
  OBVIOUS
<1>2. /\ p \in Positions /\ p.original = position[s].original
      /\ p.originalSequence = position[s].originalSequence /\ p.sequence = position[s].sequence
      /\ p.original # {} /\ position' = [position EXCEPT ![s] = p]
  <2>1. position[s] \in Positions /\ position[s].original # {}
    BY DEF Inv, TypeOK
  <2>2. position' = [position EXCEPT ![s] = p]
    BY <1>1 DEF SetOwned
  <2> QED
    BY <1>1, <2>1, <2>2 DEF Positions
<1>3. \A n \in Nat : \A e \in Seq(Jsons) : Continues(position[s], n, e) => Continues(p, n, e)
  BY <1>2 DEF Continues
<1> QED
  BY <1>2, <1>3, PositionStep

LEMMA ChangeSteps ==
  ASSUME Inv, NEW s \in Services, NEW id \in AssetIDs, NEW n \in Amounts,
         \/ Credit(s, id, n) \/ Withdraw(s, id, n) \/ Borrow(s, id, n)
         \/ TakeUpTo(s, id, n) \/ Charge(s, id, n)
  PROVE  Inv'
<1>1. /\ s \in in /\ changes' \in Nat
      /\ UNCHANGED <<kind, stored, in, stale, kept, emitted, records, overwritten>>
  BY DEF Credit, Withdraw, Borrow, TakeUpTo, Charge, Change, Inv, TypeOK
<1>2. n \in Int /\ position[s].owned \in Bals /\ due[s] \in Bals
  BY LedgerAssumption, Int64Type DEF Inv, TypeOK, Positions
<1>3. CASE Credit(s, id, n) \/ Withdraw(s, id, n) \/ Borrow(s, id, n)
  <2>1. PICK bals \in Bals : SetOwned(s, bals)
    BY <1>2, <1>3, AddType DEF Credit, Withdraw, Borrow
  <2>2. due' \in [Services -> Bals]
    BY <1>3 DEF Credit, Withdraw, Borrow, Inv, TypeOK
  <2> QED
    BY <1>1, <2>1, <2>2, OwnedStep
<1>4. CASE TakeUpTo(s, id, n)
  <2>1. PICK bals : bals = SubAmountToZero(position[s].owned, id, n)
    OBVIOUS
  <2>2. bals \in Bals /\ SetOwned(s, bals)
    BY <1>2, <1>4, <2>1, SubAmountToZeroType DEF TakeUpTo
  <2>3. due' \in [Services -> Bals]
    BY <1>4 DEF TakeUpTo, Inv, TypeOK
  <2> QED
    BY <1>1, <2>2, <2>3, OwnedStep
<1>5. CASE Charge(s, id, n)
  <2>1. SetOwned(s, position[s].owned)
    BY <1>5 DEF Charge, SetOwned, Inv, TypeOK, Positions
  <2>2. due' \in [Services -> Bals]
    BY <1>2, <1>5, AddType DEF Charge, Inv, TypeOK
  <2> QED
    BY <1>1, <1>2, <2>1, <2>2, OwnedStep
<1> QED
  BY <1>3, <1>4, <1>5

LEMMA RepayStep ==
  ASSUME Inv, NEW s \in Services, Repay(s)
  PROVE  Inv'
<1>1. PICK paid : paid = SubToZero(position[s].owned, due[s])
  OBVIOUS
<1>2. paid.bals \in Bals /\ paid.surplus \in Bals
  BY <1>1, SubToZeroType DEF Inv, TypeOK, Positions
<1>3. /\ s \in in /\ SetOwned(s, paid.bals) /\ due' = [due EXCEPT ![s] = paid.surplus]
      /\ UNCHANGED <<kind, stored, in, stale, kept, emitted, records, overwritten, changes>>
  BY <1>1 DEF Repay
<1>4. due' \in [Services -> Bals] /\ changes' \in Nat
  BY <1>2, <1>3 DEF Inv, TypeOK
<1> QED
  BY <1>2, <1>3, <1>4, OwnedStep

LEMMA SettleStep ==
  ASSUME Inv, NEW s \in Services, Settle(s)
  PROVE  Inv'
<1>1. PICK bals : bals = SubBals(position[s].owned, due[s])
  OBVIOUS
<1>2. bals \in Bals /\ EmptyBalances \in Bals
  BY <1>1, SubBalsType, EmptyType DEF Inv, TypeOK, Positions
<1>3. /\ s \in in /\ SetOwned(s, bals) /\ due' = [due EXCEPT ![s] = EmptyBalances]
      /\ UNCHANGED <<kind, stored, in, stale, kept, emitted, records, overwritten, changes>>
  BY <1>1 DEF Settle
<1>4. due' \in [Services -> Bals] /\ changes' \in Nat
  BY <1>2, <1>3 DEF Inv, TypeOK
<1> QED
  BY <1>2, <1>3, <1>4, OwnedStep

LEMMA NumberStep ==
  ASSUME Inv, NEW s \in Services, Number(s)
  PROVE  Inv'
<1>1. PICK p : p = UpdateSequence(position[s])
  OBVIOUS
<1>2. /\ s \in in /\ position' = [position EXCEPT ![s] = p]
      /\ UNCHANGED <<kind, stored, in, stale, due, kept, emitted, records, overwritten, changes>>
  BY <1>1 DEF Number
<1>3. position[s] \in Positions /\ position[s].original # {}
  BY DEF Inv, TypeOK
<1>4. /\ p \in Positions /\ p.original = position[s].original /\ p.original # {}
      /\ p.originalSequence = position[s].originalSequence
      /\ p.sequence = p.originalSequence + 1 \/ p = position[s]
  BY <1>1, <1>3, UpdatedPosition
<1>5. \A n \in Nat : \A e \in Seq(Jsons) : Continues(position[s], n, e) => Continues(p, n, e)
  BY <1>4 DEF Continues
<1>6. due' \in [Services -> Bals] /\ changes' \in Nat
  BY <1>2 DEF Inv, TypeOK
<1> QED
  BY <1>2, <1>4, <1>5, <1>6, PositionStep

\* The copy continues the records that were there when it was put aside, and
\* none has been added since.
LEMMA GoBackStep ==
  ASSUME Inv, NEW s \in Services, GoBack(s)
  PROVE  Inv'
<1>1. /\ kept[s].position \in Positions /\ kept[s].position.original # {}
      /\ kept[s].due \in Bals
  BY DEF Inv, TypeOK
<1>2. /\ s \in in /\ position' = [position EXCEPT ![s] = kept[s].position]
      /\ due' = [due EXCEPT ![s] = kept[s].due]
      /\ UNCHANGED <<kind, stored, in, stale, kept, emitted, records, overwritten, changes>>
  BY <1>1, CopyIsSame DEF GoBack
<1>3. due' \in [Services -> Bals] /\ changes' \in Nat
  BY <1>1, <1>2 DEF Inv, TypeOK
<1> QED
  BY <1>1, <1>2, <1>3, PositionStep

LEMMA KeepCopyStep ==
  ASSUME Inv, NEW s \in Services, KeepCopy(s)
  PROVE  Inv'
<1>1. position[s] \in Positions /\ position[s].original # {} /\ due[s] \in Bals
  BY DEF Inv, TypeOK
<1>2. /\ s \in in
      /\ kept' = [kept EXCEPT ![s] = [position |-> position[s], due |-> due[s]]]
      /\ UNCHANGED <<kind, stored, in, stale, position, due, emitted, records, overwritten, changes>>
  BY <1>1, CopyIsSame DEF KeepCopy
<1>3. /\ kept' \in [Services -> [position : Positions, due : Bals]]
      /\ kept'[s].position = position[s]
      /\ \A t \in Services \ {s} : kept'[t] = kept[t]
  BY <1>1, <1>2 DEF Inv, TypeOK
<1>4. TypeOK'
  <2>1. \A t \in Services : kept'[t].position.original # {}
    BY <1>1, <1>3 DEF Inv, TypeOK
  <2> QED
    BY <1>2, <1>3, <2>1 DEF Inv, TypeOK
<1>5. Local(s)
  BY <1>2, <1>3 DEF Local
<1>6. Ready(s)'
  <2>1. PICK n \in Nat : Base(s, n) /\ Begun(s, n)
    BY <1>2 DEF Inv, Ready
  <2>2. Base(s, n)'
    BY <1>2, <2>1 DEF Base, Numbers
  <2>3. Begun(s, n)'
    BY <1>2, <1>3, <2>1 DEF Begun
  <2> QED
    BY <2>2, <2>3 DEF Ready
<1> QED
  BY <1>4, <1>5, <1>6, LocalStep

\* What is pending ends with what is at hand.
LEMMA PendingRecords ==
  ASSUME Inv, NEW s \in Services
  PROVE  /\ Pending(s) \in Seq(Jsons)
         /\ IsModified(position[s]) => Pending(s) = Append(emitted[s], JSON(position[s]))
         /\ ~IsModified(position[s]) => Pending(s) = emitted[s]
<1>1. position[s] \in Positions /\ emitted[s] \in Seq(Jsons)
  BY DEF Inv, TypeOK
<1>2. PICK j \in Jsons : j = JSON(position[s])
  BY <1>1, JSONType
<1>3. IsModified(position[s]) => Pending(s) = Append(emitted[s], j)
  BY <1>1, <1>2 DEF Pending
<1>4. ~IsModified(position[s]) => Pending(s) = emitted[s]
  BY <1>1 DEF Pending
<1> QED
  BY <1>1, <1>2, <1>3, <1>4

\* A modified position that was given its number has the next one.
LEMMA PendingNumbered ==
  ASSUME Inv, NEW s \in Services, NEW n \in Nat, Begun(s, n), Numbered(position[s])
  PROVE  /\ \A i \in DOMAIN Pending(s) : Pending(s)[i].sequence = n + i
         /\ Pending(s) # <<>> => JSON(position[s]) = Pending(s)[Len(Pending(s))]
<1>1. emitted[s] \in Seq(Jsons) /\ Len(emitted[s]) \in Nat
  BY DEF Inv, TypeOK
<1>2. /\ \A i \in DOMAIN emitted[s] : emitted[s][i].sequence = n + i
      /\ Continues(position[s], n + Len(emitted[s]), emitted[s])
  BY DEF Begun
<1>3. CASE IsModified(position[s])
  <2>1. PICK j : j = JSON(position[s])
    OBVIOUS
  <2>2. j.sequence = n + Len(emitted[s]) + 1
    BY <1>2, <1>3, <2>1 DEF JSON, Continues, Numbered, NextSequence
  <2>3. Pending(s) = Append(emitted[s], j)
    BY <1>3, <2>1, PendingRecords
  <2>4. /\ Len(Pending(s)) = Len(emitted[s]) + 1 /\ DOMAIN Pending(s) = 1 .. (Len(emitted[s]) + 1)
        /\ DOMAIN emitted[s] = 1 .. Len(emitted[s])
        /\ Pending(s)[Len(emitted[s]) + 1] = j
        /\ \A i \in 1 .. Len(emitted[s]) : Pending(s)[i] = emitted[s][i]
    BY <1>1, <2>3
  <2>5. ASSUME NEW i \in DOMAIN Pending(s)
        PROVE  Pending(s)[i].sequence = n + i
    <3>1. CASE i = Len(emitted[s]) + 1
      BY <1>1, <2>2, <2>4, <3>1
    <3>2. CASE i # Len(emitted[s]) + 1
      <4>1. i \in 1 .. Len(emitted[s])
        BY <1>1, <2>4, <3>2
      <4> QED
        BY <1>2, <2>4, <4>1
    <3> QED
      BY <3>1, <3>2
  <2> QED
    BY <2>1, <2>4, <2>5
<1>4. CASE ~IsModified(position[s])
  <2>1. Pending(s) = emitted[s]
    BY <1>4, PendingRecords
  <2>2. position[s].original = {JSON(position[s])}
    BY <1>4 DEF IsModified
  <2>3. emitted[s] # <<>> => JSON(position[s]) = emitted[s][Len(emitted[s])]
    BY <1>2, <2>2 DEF Continues
  <2> QED
    BY <1>2, <2>1, <2>3
<1> QED
  BY <1>3, <1>4

LEMMA RecordStep ==
  ASSUME Inv, NEW s \in Services, Record(s)
  PROVE  Inv'
<1>1. PICK q : q = Snapshot(position[s])
  OBVIOUS
<1>2. PICK j : j = JSON(position[s])
  OBVIOUS
<1>3. /\ s \in in /\ IsModified(position[s]) /\ Numbered(position[s])
      /\ emitted' = [emitted EXCEPT ![s] = Pending(s)]
      /\ position' = [position EXCEPT ![s] = q]
      /\ kept' = [kept EXCEPT ![s] = [position |-> Copy(q), due |-> due[s]]]
      /\ UNCHANGED <<kind, stored, in, stale, due, records, overwritten, changes>>
  BY <1>1 DEF Record
<1>4. /\ q \in Positions /\ q.original = {j} /\ j \in Jsons
      /\ q.originalSequence = position[s].sequence /\ q.sequence = position[s].sequence
      /\ j.sequence = position[s].sequence /\ Copy(q) = q
  <2>1. position[s] \in Positions
    BY DEF Inv, TypeOK
  <2> QED
    BY <1>1, <1>2, <2>1, SnapshotPosition, CopyIsSame
<1>5. /\ position' \in [Services -> Positions] /\ position'[s] = q
      /\ kept' \in [Services -> [position : Positions, due : Bals]] /\ kept'[s].position = q
      /\ \A t \in Services \ {s} : position'[t] = position[t] /\ kept'[t] = kept[t]
  BY <1>3, <1>4 DEF Inv, TypeOK
<1>6. PICK e \in Seq(Jsons) : e = Pending(s) /\ e = Append(emitted[s], j)
  BY <1>2, <1>3, PendingRecords
<1>7. /\ emitted' \in [Services -> Seq(Jsons)] /\ emitted'[s] = e
      /\ \A t \in Services \ {s} : emitted'[t] = emitted[t]
  <2> DEFINE T == Seq(Jsons)
  <2>1. e \in T /\ emitted \in [Services -> T] /\ emitted' = [emitted EXCEPT ![s] = e]
    BY <1>3, <1>6 DEF Inv, TypeOK
  <2> HIDE DEF T
  <2>2. emitted' \in [Services -> T] /\ emitted'[s] = e
        /\ \A t \in Services \ {s} : emitted'[t] = emitted[t]
    BY <2>1
  <2> QED
    BY <2>2 DEF T
<1>8. TypeOK'
  <2>1. \A t \in Services : position'[t].original # {} /\ kept'[t].position.original # {}
    BY <1>4, <1>5 DEF Inv, TypeOK
  <2> QED
    BY <1>3, <1>5, <1>7, <2>1 DEF Inv, TypeOK
<1>9. Local(s)
  BY <1>3, <1>5, <1>7 DEF Local
<1>10. Ready(s)'
  <2>1. PICK n \in Nat : Base(s, n) /\ Begun(s, n)
    BY <1>3 DEF Inv, Ready
  <2>2. emitted[s] \in Seq(Jsons) /\ Len(emitted[s]) \in Nat
    BY DEF Inv, TypeOK
  <2>3. position[s].sequence = n + Len(emitted[s]) + 1
    BY <1>3, <2>1 DEF Begun, Continues, Numbered, NextSequence
  <2>4. /\ Len(e) = Len(emitted[s]) + 1 /\ e[Len(e)] = j /\ e # <<>>
    BY <1>6, <2>2
  <2>5. Continues(q, n + Len(e), e)
    BY <1>4, <2>2, <2>3, <2>4 DEF Continues
  <2>6. \A i \in DOMAIN e : e[i].sequence = n + i
    BY <1>3, <1>6, <2>1, PendingNumbered
  <2>7. Begun(s, n)'
    BY <1>5, <1>7, <2>5, <2>6 DEF Begun
  <2>8. Base(s, n)'
    BY <1>3, <2>1 DEF Base, Numbers
  <2> QED
    BY <2>7, <2>8 DEF Ready
<1> QED
  BY <1>8, <1>9, <1>10, LocalStep

\* The objects of a transaction that is over.
LEMMA LeaveType ==
  ASSUME Inv, NEW s \in Services, Leave(s)
  PROVE  /\ in' = in \ {s}
         /\ position' \in [Services -> Positions] /\ due' \in [Services -> Bals]
         /\ kept' \in [Services -> [position : Positions, due : Bals]]
         /\ emitted' \in [Services -> Seq(Jsons)]
         /\ \A t \in Services : position'[t].original # {} /\ kept'[t].position.original # {}
         /\ \A t \in Services \ {s} : /\ position'[t] = position[t] /\ kept'[t] = kept[t]
                                      /\ emitted'[t] = emitted[t]
<1>1. /\ position' \in [Services -> Positions] /\ due' \in [Services -> Bals]
      /\ kept' \in [Services -> [position : Positions, due : Bals]]
      /\ \A t \in Services : position'[t].original # {} /\ kept'[t].position.original # {}
      /\ \A t \in Services \ {s} : position'[t] = position[t] /\ kept'[t] = kept[t]
  BY InitialPosition, EmptyType DEF Leave, Inv, TypeOK
<1>2. emitted' \in [Services -> Seq(Jsons)] /\ \A t \in Services \ {s} : emitted'[t] = emitted[t]
  <2> DEFINE T == Seq(Jsons)
  <2>1. <<>> \in T /\ emitted \in [Services -> T] /\ emitted' = [emitted EXCEPT ![s] = <<>>]
    BY DEF Leave, Inv, TypeOK
  <2> HIDE DEF T
  <2>2. emitted' \in [Services -> T] /\ \A t \in Services \ {s} : emitted'[t] = emitted[t]
    BY <2>1
  <2> QED
    BY <2>2 DEF T
<1> QED
  BY <1>1, <1>2 DEF Leave

\* Records e that continue from the number n.
LEMMA Committed ==
  ASSUME NEW rs \in Seq(Jsons), NEW e \in Seq(Jsons), NEW n \in Nat,
         n = 0 \/ n \in Numbers(rs),
         \A m \in Numbers(rs) : m = 1 \/ m - 1 \in Numbers(rs),
         \A i \in DOMAIN e : e[i].sequence = n + i
  PROVE  /\ Numbers(rs) \subseteq Numbers(rs \o e)
         /\ \A m \in Numbers(rs \o e) : m = 1 \/ m - 1 \in Numbers(rs \o e)
         /\ n = Len(rs) /\ (\A i \in DOMAIN rs : rs[i].sequence = i)
              => \A i \in DOMAIN (rs \o e) : (rs \o e)[i].sequence = i
         /\ e # <<>> => rs \o e # <<>> /\ Last(rs \o e) = e[Len(e)]
<1>1. /\ Len(rs) \in Nat /\ Len(e) \in Nat
      /\ DOMAIN rs = 1 .. Len(rs) /\ DOMAIN e = 1 .. Len(e)
  OBVIOUS
<1>2. PICK all \in Seq(Jsons) : all = rs \o e
  <2>1. rs \o e \in Seq(Jsons)
    OBVIOUS
  <2> QED
    BY <2>1
<1>3. /\ Len(all) = Len(rs) + Len(e) /\ DOMAIN all = 1 .. (Len(rs) + Len(e))
      /\ \A i \in 1 .. Len(rs) : all[i] = rs[i]
      /\ \A i \in 1 .. Len(e) : all[Len(rs) + i] = e[i]
  BY <1>2
<1>4. ASSUME NEW i \in DOMAIN all
      PROVE  \/ i \in 1 .. Len(rs)
             \/ \E k \in 1 .. Len(e) : i = Len(rs) + k
  <2>1. CASE i <= Len(rs)
    BY <1>1, <1>3, <2>1
  <2>2. CASE i > Len(rs)
    <3>1. i - Len(rs) \in 1 .. Len(e) /\ i = Len(rs) + (i - Len(rs))
      BY <1>1, <1>3, <2>2
    <3> QED
      BY <3>1
  <2> QED
    BY <1>1, <1>3, <2>1, <2>2
<1>5. Numbers(rs) \subseteq Numbers(all)
  <2>1. ASSUME NEW i \in DOMAIN rs PROVE rs[i].sequence \in Numbers(all)
    <3>1. i \in DOMAIN all /\ all[i] = rs[i]
      BY <1>1, <1>3
    <3> QED
      BY <3>1 DEF Numbers
  <2> QED
    BY <2>1 DEF Numbers
<1>6. ASSUME NEW k \in 1 .. Len(e) PROVE n + k \in Numbers(all)
  <2>1. k \in Nat /\ 1 <= k /\ k <= Len(e)
    BY <1>1
  <2>2. Len(rs) + k \in 1 .. (Len(rs) + Len(e))
    BY <1>1, <2>1
  <2>3. Len(rs) + k \in DOMAIN all
    BY <1>3, <2>2
  <2>4. all[Len(rs) + k].sequence = n + k
    BY <1>1, <1>3
  <2> QED
    BY <2>3, <2>4 DEF Numbers
<1>7. ASSUME NEW i \in DOMAIN all, all[i].sequence # 1
      PROVE  all[i].sequence - 1 \in Numbers(all)
  <2>1. CASE i \in 1 .. Len(rs)
    <3>1. rs[i].sequence \in Numbers(rs) /\ all[i] = rs[i]
      BY <1>1, <1>3, <2>1 DEF Numbers
    <3> QED
      BY <1>5, <1>7, <3>1
  <2>2. ASSUME NEW k \in 1 .. Len(e), i = Len(rs) + k
        PROVE  all[i].sequence - 1 \in Numbers(all)
    <3>1. all[i].sequence = n + k /\ k \in Nat
      BY <1>1, <1>3, <2>2
    <3>2. CASE k = 1
      <4>1. n \in Numbers(rs) /\ (n + k) - 1 = n
        BY <1>7, <3>1, <3>2
      <4> QED
        BY <1>5, <3>1, <4>1
    <3>3. CASE k # 1
      <4>1. k - 1 \in 1 .. Len(e) /\ n + (k - 1) = (n + k) - 1
        BY <1>1, <3>3
      <4> QED
        BY <1>6, <3>1, <4>1
    <3> QED
      BY <3>2, <3>3
  <2> QED
    BY <1>4, <2>1, <2>2
<1>8. ASSUME n = Len(rs), \A i \in DOMAIN rs : rs[i].sequence = i,
             NEW i \in DOMAIN all
      PROVE  all[i].sequence = i
  <2>1. CASE i \in 1 .. Len(rs)
    <3>1. all[i] = rs[i] /\ i \in DOMAIN rs
      BY <1>1, <1>3, <2>1
    <3> QED
      BY <1>8, <3>1
  <2>2. ASSUME NEW k \in 1 .. Len(e), i = Len(rs) + k PROVE all[i].sequence = i
    <3>1. all[i] = e[k] /\ k \in DOMAIN e
      BY <1>1, <1>3, <2>2
    <3> QED
      BY <1>8, <2>2, <3>1
  <2> QED
    BY <1>4, <2>1, <2>2
<1>9. ASSUME e # <<>> PROVE all # <<>> /\ Last(all) = e[Len(e)]
  <2>1. Len(e) \in 1 .. Len(e)
    BY <1>1, <1>9
  <2> QED
    BY <1>1, <1>3, <2>1 DEF Last
<1>10. \A m \in Numbers(all) : m = 1 \/ m - 1 \in Numbers(all)
  BY <1>7 DEF Numbers
<1> QED
  BY <1>2, <1>5, <1>8, <1>9, <1>10

\* What is pending is committed: all others are stale from now on.
LEMMA SaveStep ==
  ASSUME Inv, NEW s \in Services, Save(s)
  PROVE  Inv'
<1>1. /\ s \in in /\ Pending(s) # <<>> /\ Numbered(position[s])
      /\ stored' = {JSON(position[s])} /\ records' = records \o Pending(s)
      /\ Leave(s) /\ stale' = in \ {s}
      /\ UNCHANGED <<kind, changes>>
  BY DEF Save
<1>2. /\ overwritten' \in BOOLEAN
      /\ ~overwritten' => ~overwritten /\ s \notin stale
      /\ kind = "module" => ~overwritten'
  BY DEF Save, Inv, TypeOK
<1>3. PICK n \in Nat : Base(s, n) /\ Begun(s, n)
  BY <1>1 DEF Inv, Ready
<1>4. PICK e \in Seq(Jsons) : e = Pending(s)
  BY PendingRecords
<1>5. PICK j \in Jsons : j = JSON(position[s])
  BY JSONType DEF Inv, TypeOK
<1>6. (\A i \in DOMAIN e : e[i].sequence = n + i) /\ e # <<>> /\ j = e[Len(e)]
  BY <1>1, <1>3, <1>4, <1>5, PendingNumbered
<1>7. /\ records \in Seq(Jsons)
      /\ n = 0 \/ n \in Numbers(records)
      /\ \A m \in Numbers(records) : m = 1 \/ m - 1 \in Numbers(records)
  BY <1>3 DEF Inv, TypeOK, RecordsComplete, Base
<1>8. /\ Numbers(records) \subseteq Numbers(records')
      /\ \A m \in Numbers(records') : m = 1 \/ m - 1 \in Numbers(records')
      /\ n = Len(records) /\ (\A i \in DOMAIN records : records[i].sequence = i)
           => \A i \in DOMAIN records' : records'[i].sequence = i
      /\ records' # <<>> /\ Last(records') = j
      /\ records' \in Seq(Jsons)
  <2>1. records' = records \o e
    BY <1>1, <1>4
  <2>2. records \o e \in Seq(Jsons)
    BY <1>7
  <2>3. /\ Numbers(records) \subseteq Numbers(records \o e)
        /\ \A m \in Numbers(records \o e) : m = 1 \/ m - 1 \in Numbers(records \o e)
        /\ n = Len(records) /\ (\A i \in DOMAIN records : records[i].sequence = i)
             => \A i \in DOMAIN (records \o e) : (records \o e)[i].sequence = i
        /\ records \o e # <<>> /\ Last(records \o e) = e[Len(e)]
    BY <1>6, <1>7, Committed
  <2> QED
    BY <1>6, <2>1, <2>2, <2>3
<1>9. ~overwritten' => \A i \in DOMAIN records' : records'[i].sequence = i
  BY <1>2, <1>3, <1>8 DEF Base, Inv, RecordsComplete
<1>10. RecordsComplete'
  BY <1>1, <1>2, <1>5, <1>8, <1>9 DEF RecordsComplete
<1>11. TypeOK'
  BY <1>1, <1>2, <1>5, <1>8, LeaveType DEF Inv, TypeOK
<1>12. ASSUME NEW t \in in' PROVE Ready(t)'
  <2>1. t \in in /\ t \in Services \ {s} /\ t \in stale'
    BY <1>1, <1>12, LeaveType DEF Inv, TypeOK
  <2>2. PICK m \in Nat : Base(t, m) /\ Begun(t, m)
    BY <2>1 DEF Inv, Ready
  <2>3. Base(t, m)'
    BY <1>8, <2>1, <2>2 DEF Base
  <2>4. position'[t] = position[t] /\ kept'[t] = kept[t] /\ emitted'[t] = emitted[t]
    BY <1>1, <2>1, LeaveType
  <2>5. Begun(t, m)'
    BY <2>2, <2>4 DEF Begun
  <2> QED
    BY <2>3, <2>5 DEF Ready
<1> QED
  BY <1>1, <1>2, <1>10, <1>11, <1>12 DEF Inv

LEMMA EndStep ==
  ASSUME Inv, NEW s \in Services, End(s)
  PROVE  Inv'
<1>1. /\ Leave(s) /\ stale' = stale \ {s}
      /\ UNCHANGED <<kind, stored, records, overwritten, changes>>
  BY DEF End
<1>2. TypeOK'
  BY <1>1, LeaveType DEF Inv, TypeOK
<1>3. Local(s) /\ s \notin in'
  BY <1>1, LeaveType DEF Local
<1> QED
  BY <1>2, <1>3, LocalStep

-----------------------------------------------------------------------------
(* The theorem                                                             *)

LEMMA NextInv == Inv /\ [Next]_vars => Inv'
<1> SUFFICES ASSUME Inv, [Next]_vars PROVE Inv'
  OBVIOUS
<1>1. CASE UNCHANGED vars
  <2>1. UNCHANGED <<kind, stored, in, stale, position, due, kept, emitted, records, overwritten, changes>>
    BY <1>1 DEF vars
  <2>2. TypeOK' /\ RecordsComplete'
    BY <2>1 DEF Inv, TypeOK, RecordsComplete, Numbers
  <2>3. ASSUME NEW s \in in' PROVE Ready(s)'
    <3>1. PICK n \in Nat : Base(s, n) /\ Begun(s, n)
      BY <2>1, <2>3 DEF Inv, Ready
    <3>2. Base(s, n)' /\ Begun(s, n)'
      BY <2>1, <3>1 DEF Base, Numbers, Begun
    <3> QED
      BY <3>2 DEF Ready
  <2>4. (kind = "module" => ~overwritten)'
    BY <2>1 DEF Inv
  <2> QED
    BY <2>2, <2>3, <2>4 DEF Inv
<1>2. ASSUME NEW s \in Services,
             \/ Begin(s) \/ Repay(s) \/ Settle(s) \/ KeepCopy(s) \/ GoBack(s)
             \/ Number(s) \/ Record(s) \/ Save(s) \/ End(s)
      PROVE  Inv'
  BY <1>2, BeginStep, RepayStep, SettleStep, KeepCopyStep, GoBackStep, NumberStep,
     RecordStep, SaveStep, EndStep
<1>3. ASSUME NEW s \in Services, NEW id \in AssetIDs, NEW n \in Amounts,
             \/ Credit(s, id, n) \/ Withdraw(s, id, n) \/ Borrow(s, id, n)
             \/ TakeUpTo(s, id, n) \/ Charge(s, id, n)
      PROVE  Inv'
  BY <1>3, ChangeSteps
<1> QED
  BY <1>1, <1>2, <1>3 DEF Next

\* For any services, and whatever copies, snapshots and prints there are: no
\* number is left out of the records of all transactions, the last of them is what
\* Redis holds, and none is repeated before a stale position was stored, never of
\* the module.
THEOREM RecordsNumberedWithoutGap == Spec => [](TypeOK /\ RecordsComplete)
<1>1. Init => Inv
  BY InitInv
<1>2. Inv /\ [Next]_vars => Inv'
  BY NextInv
<1>3. Inv => TypeOK /\ RecordsComplete
  BY DEF Inv
<1> QED
  BY <1>1, <1>2, <1>3, PTL DEF Spec

\* The sequence numbers of src/ledger/types/position.go:196-232, whatever is copied,
\* printed or gone back to in between.
THEOREM RecordsAreComplete == Spec => []RecordsComplete
BY RecordsNumberedWithoutGap, PTL

-----------------------------------------------------------------------------
(* What the changes take                                                   *)

\* Nothing is owed to a position: what is due was charged, and paid in part.
NothingOwedTo ==
  \A s \in Services, id \in AssetIDs : due[s][id] >= 0 /\ kept[s].due[id] >= 0

LEMMA EmptyOwes == \A id \in AssetIDs : EmptyBalances[id] >= 0
BY DEF EmptyBalances

\* A step that leaves what is due alone.
LEMMA DueUntouched ==
  ASSUME Inv, NothingOwedTo, UNCHANGED due, NEW s \in Services,
         kept' = kept \/ \E p : kept' = [kept EXCEPT ![s] = [position |-> p, due |-> due[s]]]
  PROVE  NothingOwedTo'
<1>1. CASE kept' = kept
  BY <1>1 DEF NothingOwedTo
<1>2. CASE kept' # kept
  <2>1. PICK p : kept' = [kept EXCEPT ![s] = [position |-> p, due |-> due[s]]]
    BY <1>2
  <2>2. \A t \in Services : kept'[t].due = IF t = s THEN due[s] ELSE kept[t].due
    BY <2>1 DEF Inv, TypeOK
  <2> QED
    BY <2>2 DEF NothingOwedTo
<1> QED
  BY <1>1, <1>2

\* A step that changes what is due from one position.
LEMMA DueStep ==
  ASSUME Inv, NothingOwedTo, NEW s \in Services, NEW bals,
         \A id \in AssetIDs : bals[id] >= 0,
         due' = [due EXCEPT ![s] = bals],
         kept' = kept \/ \E p : kept' = [kept EXCEPT ![s] = [position |-> p, due |-> bals]]
  PROVE  NothingOwedTo'
<1>1. \A t \in Services : due'[t] = IF t = s THEN bals ELSE due[t]
  BY DEF Inv, TypeOK
<1>2. \A t \in Services : kept'[t].due \in {kept[t].due} \cup (IF t = s THEN {bals} ELSE {})
  <2>1. CASE kept' = kept
    BY <2>1
  <2>2. CASE kept' # kept
    <3>1. PICK p : kept' = [kept EXCEPT ![s] = [position |-> p, due |-> bals]]
      BY <2>2
    <3> QED
      BY <3>1 DEF Inv, TypeOK
  <2> QED
    BY <2>1, <2>2
<1> QED
  BY <1>1, <1>2 DEF NothingOwedTo

\* SubToZero takes from each asset what is there of it.
LEMMA SubToZeroTakes ==
  ASSUME NEW bals \in Bals, NEW subs \in Bals, NEW id \in AssetIDs, subs[id] >= 0
  PROVE  /\ SubToZero(bals, subs).bals[id] = bals[id] - Smaller(bals[id], subs[id])
         /\ SubToZero(bals, subs).surplus[id] = subs[id] - Smaller(bals[id], subs[id])
         /\ SubToZero(bals, subs).surplus[id] >= 0
<1>1. PICK n \in Int64 : n = subs[id]
  BY DEF Bals
<1>2. /\ SubBalToZero(bals, id, n).bals[id] = bals[id] - Smaller(bals[id], n)
      /\ SubBalToZero(bals, id, n).surplus = n - Smaller(bals[id], n)
      /\ 0 <= Smaller(bals[id], n) /\ Smaller(bals[id], n) <= n
  BY <1>1, SubBalToZeroTakes
<1>3. /\ SubToZero(bals, subs).bals[id] = SubBalToZero(bals, id, n).bals[id]
      /\ SubToZero(bals, subs).surplus[id] = SubBalToZero(bals, id, n).surplus
  BY <1>1 DEF SubToZero
<1>4. n \in Int /\ Smaller(bals[id], n) \in Int
  BY <1>1, Int64Type DEF Smaller, Bals
<1>5. n - Smaller(bals[id], n) >= 0
  BY <1>2, <1>4
<1> QED
  BY <1>1, <1>2, <1>3, <1>5

\* The amounts that are due stay not negative.
LEMMA NextDue == Inv /\ NothingOwedTo /\ [Next]_vars => NothingOwedTo'
<1> SUFFICES ASSUME Inv, NothingOwedTo, [Next]_vars PROVE NothingOwedTo'
  OBVIOUS
<1>1. CASE UNCHANGED vars
  BY <1>1 DEF vars, NothingOwedTo
<1>2. ASSUME NEW s \in Services, Begin(s) PROVE NothingOwedTo'
  BY <1>2, EmptyOwes, DueStep DEF Begin
<1>3. ASSUME NEW s \in Services, Settle(s) PROVE NothingOwedTo'
  BY <1>3, EmptyOwes, DueStep DEF Settle
<1>4. ASSUME NEW s \in Services, Repay(s) PROVE NothingOwedTo'
  <2>1. PICK paid : paid = SubToZero(position[s].owned, due[s])
    OBVIOUS
  <2>2. position[s].owned \in Bals /\ due[s] \in Bals
    BY DEF Inv, TypeOK, Positions
  <2>3. \A id \in AssetIDs : paid.surplus[id] >= 0
    BY <2>1, <2>2, SubToZeroTakes DEF NothingOwedTo
  <2>4. due' = [due EXCEPT ![s] = paid.surplus] /\ kept' = kept
    BY <1>4, <2>1 DEF Repay
  <2> QED
    BY <2>3, <2>4, DueStep
<1>5. ASSUME NEW s \in Services, GoBack(s) PROVE NothingOwedTo'
  <2>1. \A id \in AssetIDs : kept[s].due[id] >= 0
    BY DEF NothingOwedTo
  <2> QED
    BY <1>5, <2>1, DueStep DEF GoBack
<1>6. ASSUME NEW s \in Services,
             KeepCopy(s) \/ Number(s) \/ Record(s)
      PROVE  NothingOwedTo'
  <2>1. /\ UNCHANGED due
        /\ kept' = kept \/ \E p : kept' = [kept EXCEPT ![s] = [position |-> p, due |-> due[s]]]
    BY <1>6 DEF KeepCopy, Number, Record
  <2> QED
    BY <2>1, DueUntouched
<1>7. ASSUME NEW s \in Services, NEW id \in AssetIDs, NEW n \in Amounts,
             Credit(s, id, n) \/ Withdraw(s, id, n) \/ Borrow(s, id, n) \/ TakeUpTo(s, id, n)
      PROVE  NothingOwedTo'
  <2>1. UNCHANGED <<due, kept>>
    BY <1>7 DEF Credit, Withdraw, Borrow, TakeUpTo, Change
  <2> QED
    BY <1>7, <2>1, DueUntouched
<1>8. ASSUME NEW s \in Services, NEW id \in AssetIDs, NEW n \in Amounts, Charge(s, id, n)
      PROVE  NothingOwedTo'
  <2>1. PICK bals : bals = AddAmount(due[s], id, n)
    OBVIOUS
  <2>2. due' = [due EXCEPT ![s] = bals] /\ kept' = kept /\ due[s][id] + n \in Int64
    BY <1>8, <2>1 DEF Charge, Change
  <2>3. bals = [due[s] EXCEPT ![id] = due[s][id] + n]
    BY <2>1, <2>2, WrapExact DEF AddAmount
  <2>4. due[s] \in Bals /\ due[s][id] \in Int /\ n \in Nat
    <3>1. due[s] \in Bals
      BY DEF Inv, TypeOK
    <3>2. due[s][id] \in Int64
      BY <3>1 DEF Bals
    <3>3. due[s][id] \in Int
      BY <3>2, Int64Type
    <3>4. n \in Nat
      BY LedgerAssumption
    <3> QED
      BY <3>1, <3>3, <3>4
  <2>5. \A a \in AssetIDs : bals[a] >= 0
    BY <2>3, <2>4 DEF NothingOwedTo, Bals
  <2> QED
    BY <2>2, <2>5, DueStep
<1>9. ASSUME NEW s \in Services, Save(s) \/ End(s) PROVE NothingOwedTo'
  BY <1>9, EmptyOwes, DueStep DEF Save, End, Leave
<1> QED
  BY <1>1, <1>2, <1>3, <1>4, <1>5, <1>6, <1>7, <1>8, <1>9 DEF Next

\* What is taken from a position that is charged, settled or drawn on, for every
\* width of the amounts: SubToZero and SubAmountToZero take the smaller of what is
\* there and what is asked for, and SubBals takes everything, to the unit unless
\* the int64 wraps around.
THEOREM TakesWhatIsThereTheorem == Spec => TakesWhatIsThere
<1>1. Init => NothingOwedTo
  <2> SUFFICES ASSUME Init, NEW s \in Services, NEW id \in AssetIDs
               PROVE  due[s][id] >= 0 /\ kept[s].due[id] >= 0
    BY DEF NothingOwedTo
  <2>1. due[s] = EmptyBalances /\ kept[s].due = EmptyBalances
    BY DEF Init
  <2> QED
    BY <2>1, EmptyOwes
<1>2. ASSUME Inv, NothingOwedTo, NEW s \in Services, NEW id \in AssetIDs
      PROVE  /\ position[s] \in Positions /\ position[s].owned \in Bals /\ due[s] \in Bals
             /\ position \in [Services -> Positions] /\ due \in [Services -> Bals]
             /\ due[s][id] >= 0 /\ due[s][id] \in Int64
             /\ \A n : Takes(s, id, n) = Smaller(position[s].owned[id], n)
  BY <1>2 DEF Inv, TypeOK, Positions, Bals, NothingOwedTo, Takes, There, Smaller
<1>3. ASSUME Inv, NothingOwedTo, NEW s \in Services, NEW id \in AssetIDs, Repay(s)
      PROVE  /\ position'[s].owned[id] = position[s].owned[id] - Takes(s, id, due[s][id])
             /\ due'[s][id] = due[s][id] - Takes(s, id, due[s][id])
  <2>1. PICK paid : paid = SubToZero(position[s].owned, due[s])
    OBVIOUS
  <2>2. /\ paid.bals[id] = position[s].owned[id] - Takes(s, id, due[s][id])
        /\ paid.surplus[id] = due[s][id] - Takes(s, id, due[s][id])
    BY <1>2, <1>3, <2>1, SubToZeroTakes
  <2>3. SetOwned(s, paid.bals) /\ due' = [due EXCEPT ![s] = paid.surplus]
    BY <1>3, <2>1 DEF Repay
  <2>4. position'[s].owned = paid.bals /\ due'[s] = paid.surplus
    BY <1>2, <1>3, <2>3 DEF SetOwned, Positions
  <2> QED
    BY <2>2, <2>4
<1>4. ASSUME Inv, NothingOwedTo, NEW s \in Services, NEW id \in AssetIDs, NEW n \in Amounts,
             TakeUpTo(s, id, n)
      PROVE  position'[s].owned[id] = position[s].owned[id] - Takes(s, id, n)
  <2>1. PICK bals : bals = SubAmountToZero(position[s].owned, id, n)
    OBVIOUS
  <2>2. n \in Int64 /\ n >= 0
    BY LedgerAssumption
  <2>3. bals[id] = position[s].owned[id] - Takes(s, id, n)
    BY <1>2, <1>4, <2>1, <2>2, SubBalToZeroTakes
  <2>4. SetOwned(s, bals)
    BY <1>4, <2>1 DEF TakeUpTo
  <2>5. position'[s].owned = bals
    BY <1>2, <1>4, <2>4 DEF SetOwned, Positions
  <2> QED
    BY <2>3, <2>5
<1>5. ASSUME Inv, NothingOwedTo, NEW s \in Services, NEW id \in AssetIDs, Settle(s)
      PROVE  (position'[s].owned[id] + due[s][id] - position[s].owned[id]) % 2 ^ Bits = 0
  <2>1. PICK bals : bals = SubBals(position[s].owned, due[s])
    OBVIOUS
  <2>2. PICK a \in Int64, b \in Int64 : a = position[s].owned[id] /\ b = due[s][id] /\ b >= 0
    BY <1>2, <1>5 DEF Bals
  <2>3. a \in Int /\ b \in Int /\ -b \in Int64 /\ a + -b = a - b
    <3>1. PICK h \in Nat \ {0} : h = 2 ^ (Bits - 1)
      BY LedgerAssumption
    <3> QED
      BY <2>2, <3>1 DEF Int64
  <2>4. Wrap(-b) = -b
    BY <2>3, WrapExact
  <2>5. bals[id] = Wrap(a - b)
    BY <2>1, <2>2, <2>3, <2>4 DEF SubBals, AddBals, Invert
  <2>6. position'[s].owned = bals
    BY <1>2, <1>5, <2>1 DEF Settle, SetOwned, Positions
  <2> QED
    BY <2>2, <2>5, <2>6, WrapDifference
<1>6. Inv /\ NothingOwedTo =>
        [\A s \in Services, id \in AssetIDs :
           /\ Repay(s) =>
                /\ position'[s].owned[id] = position[s].owned[id] - Takes(s, id, due[s][id])
                /\ due'[s][id] = due[s][id] - Takes(s, id, due[s][id])
           /\ \A n \in Amounts : TakeUpTo(s, id, n) =>
                position'[s].owned[id] = position[s].owned[id] - Takes(s, id, n)
           /\ Settle(s) =>
                (position'[s].owned[id] + due[s][id] - position[s].owned[id]) % 2 ^ Bits = 0]_vars
  BY <1>3, <1>4, <1>5
<1> QED
  BY <1>1, <1>6, InitInv, NextInv, NextDue, PTL DEF Spec, TakesWhatIsThere
=============================================================================
