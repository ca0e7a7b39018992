---------------------------- MODULE BalanceMath ----------------------------
(***************************************************************************)
(* Balances, src/ledger/types/balances_math.go: an amount for every asset  *)
(* ID, an int64 whose arithmetic wraps around.  An asset that is not in    *)
(* the Go map has amount zero; the empty asset ID, which the operations    *)
(* ignore, is left out.                                                    *)
(***************************************************************************)
EXTENDS Integers

CONSTANTS AssetIDs,
          Bits   \* the width of an int64

Int64 == -(2 ^ (Bits - 1)) .. 2 ^ (Bits - 1) - 1

\* The int64 with the same bits.
Wrap(n) == ((n + 2 ^ (Bits - 1)) % (2 ^ Bits)) - 2 ^ (Bits - 1)

EmptyBalances == [id \in AssetIDs |-> 0]

AddAmount(bals, id, n) == [bals EXCEPT ![id] = Wrap(@ + n)]
SubAmount(bals, id, n) == AddAmount(bals, id, Wrap(-n))

\* The least int64 is its own inverse.
Invert(bals) == [id \in AssetIDs |-> Wrap(-bals[id])]
AddBals(bals, add) == [id \in AssetIDs |-> Wrap(bals[id] + add[id])]
SubBals(bals, sub) == AddBals(bals, Invert(sub))

HasAtLeast(bals, id, n) ==
  n = 0 \/ (IF n < 0 THEN bals[id] <= n ELSE bals[id] >= n)

\* SafeSub returns no error.
CanSub(bals, id, n) == n >= 0 /\ HasAtLeast(bals, id, n)

\* Mutant of SubBalToZero: a debt is paid like a balance.
SubBalToZeroFromDebt(bals, id, sub) ==
  LET naive == Wrap(bals[id] - sub)
  IN  IF naive < 0
      THEN [bals |-> [bals EXCEPT ![id] = 0], surplus |-> Wrap(-naive)]
      ELSE [bals |-> SubAmount(bals, id, sub), surplus |-> 0]

\* The amount sub of asset id is subtracted as far as it is there; surplus is
\* what could not be.
SubBalToZero(bals, id, sub) ==
  LET naive == Wrap(bals[id] - sub)
  IN  CASE bals[id] <= 0 -> [bals |-> bals, surplus |-> sub]
        [] bals[id] > 0 /\ naive < 0 ->
             [bals |-> [bals EXCEPT ![id] = 0], surplus |-> Wrap(-naive)]
        [] bals[id] > 0 /\ naive >= 0 ->
             [bals |-> SubAmount(bals, id, sub), surplus |-> 0]

\* As far as it is there; nothing is returned.
SubAmountToZero(bals, id, n) ==
  CASE bals[id] <= 0 \/ n <= 0 -> bals
    [] bals[id] > 0 /\ n > 0 /\ bals[id] <= n -> SubAmount(bals, id, bals[id])
    [] bals[id] > n /\ n > 0 -> SubAmount(bals, id, n)

\* Every asset of subs in turn; they do not disturb each other.
SubToZero(bals, subs) ==
  [bals    |-> [id \in AssetIDs |-> SubBalToZero(bals, id, subs[id]).bals[id]],
   surplus |-> [id \in AssetIDs |-> SubBalToZero(bals, id, subs[id]).surplus]]
=============================================================================
