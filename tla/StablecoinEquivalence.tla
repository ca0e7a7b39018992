----------------------- MODULE StablecoinEquivalence -----------------------
(***************************************************************************)
(* Simple stablecoin equivalence, src/helpers/users.go, on a position,     *)
(* src/ledger/types/position.go: ActivateStablecoinEquivalence turns       *)
(* stablecoins a user owns into the one that is needed, and                *)
(* CleanupStablecoinEquivalence turns them back.  In between the services  *)
(* credit, debit, lock and unlock the assets of the position.              *)
(*                                                                         *)
(* Amounts are integers in the smallest unit of their asset; one dollar is *)
(* 10^decimals units.  Go maps are ranged over in any order.               *)
(***************************************************************************)
EXTENDS AssetData

CONSTANTS Starts,        \* the Owned balances a position may begin with
          Amounts,       \* the amounts of the services' requests
          MaxRequests    \* bound: requests of the services other than the two

\* The second conjunct is arithmetic that holds for all decimals.
ASSUME EquivalenceAssumption ==
  /\ Starts \subseteq [Assets -> Int] /\ Amounts \subseteq Nat /\ MaxRequests \in Nat
  /\ \A a, b \in Assets :
       /\ 10 ^ Decimals[a] \in Nat \ {0}
       /\ Decimals[a] >= Decimals[b] =>
            LET n == 10 ^ (Decimals[a] - Decimals[b])
            IN  n \in Nat \ {0} /\ 10 ^ Decimals[a] = 10 ^ Decimals[b] * n

VARIABLES owned, locked, sseq,  \* the Balances of the position
          pc,         \* "idle", or "activate" within ActivateStablecoinEquivalence
          target,     \* balanceRequired.Asset
          required,   \* balanceRequired.Amt()
          toConvert,  \* dollarsToConvert
          converted,  \* dollarsConverted
          todo,       \* assets the loop has still to look at
          requests,
          net         \* kept for the properties: what Owned would be without
                      \* stablecoin equivalence

request == <<target, required, toConvert, converted, todo>>
vars == <<owned, locked, sseq, pc, request, requests, net>>

Zero == [a \in Assets |-> 0]

Init ==
  /\ owned \in Starts
  /\ locked = Zero
  /\ sseq = Zero
  /\ pc = "idle"
  /\ target \in Assets
  /\ required = 0
  /\ toConvert = 0
  /\ converted = 0
  /\ todo = {}
  /\ requests = 0
  /\ net = owned

-----------------------------------------------------------------------------
(* Balances and decimals                                                   *)

AddAmount(bals, a, n) == [bals EXCEPT ![a] = @ + n]
SubAmount(bals, a, n) == AddAmount(bals, a, -n)
HasAtLeast(bals, a, n) == n = 0 \/ (IF n < 0 THEN bals[a] <= n ELSE bals[a] >= n)
\* SafeSub returns no error.
CanSub(bals, a, n) == n >= 0 /\ HasAtLeast(bals, a, n)

exp10(x) == IF x > 0 THEN 10 ^ x ELSE 1

\* Go's integer division.
Quotient(n, m) == IF n >= 0 THEN n \div m ELSE -((-n) \div m)

applyDecimalsThenRound(n, x, roundUp) ==
  LET result == Quotient(n, exp10(x))
  IN  IF roundUp /\ result * exp10(x) < n THEN result + 1 ELSE result

-----------------------------------------------------------------------------
(* The services                                                            *)

Request ==
  /\ pc = "idle"
  /\ requests < MaxRequests
  /\ requests' = requests + 1
  /\ UNCHANGED <<sseq, pc, request>>

Credit(a, n) ==
  /\ Request
  /\ owned' = AddAmount(owned, a, n)
  /\ net' = AddAmount(net, a, n)
  /\ UNCHANGED locked

\* What is locked is not available.
Debit(a, n) ==
  /\ Request
  /\ CanSub(owned, a, n + locked[a])
  /\ owned' = SubAmount(owned, a, n)
  /\ net' = SubAmount(net, a, n)
  /\ UNCHANGED locked

Lock(a, n) ==
  /\ Request
  /\ CanSub(owned, a, n + locked[a])
  /\ locked' = AddAmount(locked, a, n)
  /\ UNCHANGED <<owned, net>>

Unlock(a, n) ==
  /\ Request
  /\ CanSub(locked, a, n)
  /\ locked' = SubAmount(locked, a, n)
  /\ UNCHANGED <<owned, net>>

-----------------------------------------------------------------------------
(* ActivateStablecoinEquivalence                                           *)

\* The position is returned as it is unless a currency is short.
Activate(a, n) ==
  /\ pc = "idle"
  /\ a \in Currencies
  /\ ~HasAtLeast(owned, a, n)
  /\ pc' = "activate"
  /\ target' = a
  /\ required' = n
  /\ toConvert' = applyDecimalsThenRound(n - owned[a], Decimals[a], TRUE)
  /\ converted' = 0
  /\ todo' = {b \in Assets : owned[b] > 0}
  /\ UNCHANGED <<owned, locked, sseq, requests, net>>

\* Mutant of Dollars: the goal is overshot.
DollarsUncapped(b) == applyDecimalsThenRound(owned[b], Decimals[b], FALSE)

\* Whole dollars of b that can be converted without overshooting the goal.
Dollars(b) == Min({applyDecimalsThenRound(owned[b], Decimals[b], FALSE),
                   toConvert - converted})

Skipped(b) == b \notin Currencies \/ b = target \/ Dollars(b) <= 0

\* continue: the asset cannot be converted, or there is less than a dollar.
SkipAsset(b) ==
  /\ pc = "activate"
  /\ b \in todo /\ converted < toConvert
  /\ Skipped(b) \/ ~CanSub(owned, b, Dollars(b) * exp10(Decimals[b]))
  /\ todo' = todo \ {b}
  /\ UNCHANGED <<owned, locked, sseq, pc, target, required, toConvert, converted,
                 requests, net>>

Gain(b) == Dollars(b) * exp10(Decimals[target])
Loss(b) == Dollars(b) * exp10(Decimals[b])

\* Mutant of ConvertAsset: the loss is not remembered.
ConvertAssetGainOnly(b) ==
  /\ pc = "activate"
  /\ b \in todo /\ converted < toConvert
  /\ ~Skipped(b) /\ CanSub(owned, b, Loss(b))
  /\ owned' = AddAmount(SubAmount(owned, b, Loss(b)), target, Gain(b))
  /\ sseq' = AddAmount(sseq, target, Gain(b))
  /\ converted' = converted + Dollars(b)
  /\ todo' = todo \ {b}
  /\ UNCHANGED <<locked, pc, target, required, toConvert, requests, net>>

ConvertAsset(b) ==
  /\ pc = "activate"
  /\ b \in todo /\ converted < toConvert
  /\ ~Skipped(b) /\ CanSub(owned, b, Loss(b))
  /\ owned' = AddAmount(SubAmount(owned, b, Loss(b)), target, Gain(b))
  /\ sseq' = AddAmount(SubAmount(sseq, b, Loss(b)), target, Gain(b))
  /\ converted' = converted + Dollars(b)
  /\ todo' = todo \ {b}
  /\ UNCHANGED <<locked, pc, target, required, toConvert, requests, net>>

\* Enough is converted, or no asset is left.
Finished == todo = {} \/ converted >= toConvert

ActivateReturns ==
  /\ pc = "activate"
  /\ Finished
  /\ pc' = "idle"
  /\ required' = 0 /\ toConvert' = 0 /\ converted' = 0 /\ todo' = {}
  /\ UNCHANGED <<owned, locked, sseq, target, requests, net>>

-----------------------------------------------------------------------------
(* CleanupStablecoinEquivalence, with the asset a gained and the asset b    *)
(* lost; the position is returned as it is when nothing can be converted.   *)

\* At the precision of the asset with fewer decimals.
ToConvertBack(a, b) ==
  LET least == Min({Decimals[a], Decimals[b]})
  IN  Min({applyDecimalsThenRound(owned[a], Decimals[a] - least, FALSE),
           applyDecimalsThenRound(sseq[a], Decimals[a] - least, FALSE),
           applyDecimalsThenRound(-sseq[b], Decimals[b] - least, FALSE)})

LossBack(a, b) == ToConvertBack(a, b) * exp10(Decimals[a] - Min({Decimals[a], Decimals[b]}))
\* Mutant of GainBack: the precision of the other asset.
GainBackAsLoss(a, b) == LossBack(a, b)
GainBack(a, b) == ToConvertBack(a, b) * exp10(Decimals[b] - Min({Decimals[a], Decimals[b]}))

Cleanup(a, b) ==
  /\ pc = "idle"
  /\ sseq[a] > 0 /\ sseq[b] < 0
  /\ {a, b} \subseteq Currencies
  /\ ToConvertBack(a, b) > 0
  /\ CanSub(owned, a, LossBack(a, b))
  /\ owned' = AddAmount(SubAmount(owned, a, LossBack(a, b)), b, GainBack(a, b))
  /\ sseq' = AddAmount(SubAmount(sseq, a, LossBack(a, b)), b, GainBack(a, b))
  /\ UNCHANGED <<locked, pc, request, requests, net>>

-----------------------------------------------------------------------------
Next ==
  \/ ActivateReturns
  \/ \E a \in Assets :
       \/ SkipAsset(a) \/ ConvertAsset(a)
       \/ \E n \in Amounts : Credit(a, n) \/ Debit(a, n) \/ Lock(a, n) \/ Unlock(a, n)
                               \/ Activate(a, n)
       \/ \E b \in Assets : Cleanup(a, b)

Spec == Init /\ [][Next]_vars

-----------------------------------------------------------------------------
(* Properties                                                              *)

Balances == [Assets -> Int]

\* The variables have their types; the loop converts no more than it set out to.
TypeOK ==
  /\ owned \in Balances /\ sseq \in Balances /\ net \in Balances
  /\ locked \in [Assets -> Nat]
  /\ pc \in {"idle", "activate"}
  /\ target \in Assets /\ todo \subseteq Assets
  /\ required \in Nat
  /\ toConvert \in Nat /\ converted \in 0 .. toConvert
  /\ requests \in 0 .. MaxRequests

Value(bals) == SumFunction([a \in Currencies |-> bals[a] * exp10(Precision - Decimals[a])])

\* position.go: "Assets are lost and gained 1:1, so the sum of positive and
\* negative amounts after decimals will always be 0", also between the
\* conversions of one call, and only currencies take part.
SseqSumsToZero ==
  /\ Value(sseq) = 0
  /\ \A a \in Assets \ Currencies : sseq[a] = 0

\* position.go: SSEQ holds the "effects of simple stablecoin equivalence on user
\* balance": it is the difference between what the user owns and what the
\* services have credited and debited, whatever was converted back and forth.
SseqExplainsOwned == \A a \in Assets : owned[a] = net[a] + sseq[a]

\* The balance is filled "until it reaches a given amount of stablecoins" or no
\* other stablecoin has a dollar left, and by less than a dollar too much.
ActivateFills ==
  pc = "activate" /\ Finished =>
    /\ \/ owned[target] >= required
       \/ \A b \in Currencies \ {target} : owned[b] < exp10(Decimals[b])
    /\ owned[target] < required + exp10(Decimals[target])

\* Currencies that count the same: conversion takes them 1:1 at any price and
\* weight.
Interchangeable ==
  \A a, b \in Currencies :
    /\ Prices[a] = 1 /\ CollateralWeights[a] \in 1 .. One
    /\ CollateralWeights[a] = CollateralWeights[b]
    /\ LiquidationThresholds[a] = LiquidationThresholds[b]
    /\ LiquidationThresholds[a] <= One

Equity(bals) == ExactCollateralValue(bals) - ExactBorrowedValue(bals)
WithinLimit(bals) == ExactBorrowedValue(bals) <= ExactBorrowLimit(bals)
NotLiquidated(bals) == ExactBorrowedValue(bals) <= ExactLiquidationThreshold(bals)

\* By AssetData's own measures a conversion, forth or back and also between two
\* assets of its loop, keeps what a position is worth, and never makes one
\* exceed its borrow limit or its liquidation threshold.
ConversionKeepsSolvent ==
  [][Interchangeable /\ requests' = requests =>
       /\ Equity(owned') = Equity(owned)
       /\ WithinLimit(owned) => WithinLimit(owned')
       /\ NotLiquidated(owned) => NotLiquidated(owned')]_vars
=============================================================================
