---------------------- MODULE MCStablecoinEquivalence ----------------------
(* Instances of StablecoinEquivalence for TLC. *)
EXTENDS StablecoinEquivalence, TLC

CONSTANTS USDY, USDC, EURX, Bond

\* Currencies of different and of equal precision, and a bond.
MCDecimals == USDY :> 1 @@ USDC :> 0 @@ EURX :> 1 @@ Bond :> 0

\* Whole dollars and percents.
MCPrices == [a \in Assets |-> IF a = Bond THEN 3 ELSE 1]
MCWeights == [a \in Assets |-> IF a = Bond THEN 50 ELSE 80]
MCThresholds == [a \in Assets |-> IF a = Bond THEN 60 ELSE 90]

\* Also less than a dollar, and a user who owes a stablecoin.
MCStarts ==
  {USDY :> 0 @@ USDC :> 2 @@ EURX :> 15 @@ Bond :> 3,
   USDY :> 21 @@ USDC :> 0 @@ EURX :> 4 @@ Bond :> 0,
   USDY :> 12 @@ USDC :> -1 @@ EURX :> 9 @@ Bond :> 1}
=============================================================================
