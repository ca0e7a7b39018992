----------------------------- MODULE AssetData -----------------------------
(***************************************************************************)
(* helpers.AssetData, src/helpers/asset.go: the parameters of the          *)
(* registered assets, and the values in USD of the balances of a position. *)
(*                                                                         *)
(* The code computes with float64.  Here prices are whole dollars, weights *)
(* and thresholds whole percents, and a value is an exact integer: percents*)
(* of the smallest unit of the asset with the most decimals.               *)
(***************************************************************************)
EXTENDS Integers, FiniteSets, FiniteSetsExt, Functions

CONSTANTS Assets,        \* the registered assets
          Currencies,    \* those with isCurrency
          Decimals, Prices, CollateralWeights, LiquidationThresholds

\* What RegisterAsset and UpdatePrice accept.
ASSUME RegistryAssumption ==
  /\ IsFiniteSet(Assets) /\ Assets # {} /\ Currencies \subseteq Assets
  /\ Decimals \in [Assets -> Nat] /\ Prices \in [Assets -> Nat]
  /\ CollateralWeights \in [Assets -> Nat]
  /\ LiquidationThresholds \in [Assets -> Nat]

One == 100
Precision == Max({Decimals[a] : a \in Assets})

\* Mutant of GetAssetValueInUSD: the decimals are forgotten.
GetAssetValueOfUnits(amt, a, multiplier) == Prices[a] * amt * multiplier

GetAssetValueInUSD(amt, a, multiplier) ==
  Prices[a] * amt * multiplier * 10 ^ (Precision - Decimals[a])

Positive(bals) == {a \in Assets : bals[a] > 0}
Negative(bals) == {a \in Assets : bals[a] < 0}

\* Of the balances owned; an asset with weight zero needs no price, and counts
\* for nothing either way.
ExactBorrowLimit(owned) ==
  SumFunction([a \in Positive(owned) |->
                 GetAssetValueInUSD(owned[a], a, CollateralWeights[a])])

ExactLiquidationThreshold(owned) ==
  SumFunction([a \in Positive(owned) |->
                 GetAssetValueInUSD(owned[a], a, LiquidationThresholds[a])])

ExactBorrowedValue(owned) ==
  SumFunction([a \in Negative(owned) |-> GetAssetValueInUSD(-owned[a], a, One)])

\* At full value, of the assets meant for collateral.
ExactCollateralValue(owned) ==
  SumFunction([a \in {c \in Positive(owned) : CollateralWeights[c] # 0} |->
                 GetAssetValueInUSD(owned[a], a, One)])
=============================================================================
