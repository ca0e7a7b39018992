-------------------------- MODULE MCPositionLedger --------------------------
(* Instances of PositionLedger for TLC. *)
EXTENDS PositionLedger, TLC

CONSTANTS s1, s2

Symmetric == Permutations(Services)
=============================================================================
