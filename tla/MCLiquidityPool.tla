-------------------------- MODULE MCLiquidityPool --------------------------
(* An instance of LiquidityPool for TLC. *)
EXTENDS LiquidityPool, TLC

CONSTANTS p1, p2

Symmetric == Permutations(Providers)
=============================================================================
