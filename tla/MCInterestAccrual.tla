------------------------- MODULE MCInterestAccrual -------------------------
(* Instances of InterestAccrual for TLC. *)
EXTENDS InterestAccrual, TLC

CONSTANTS a1, a2, u1, u2

\* A batch of both users, and a single one.
BothAndOne == {<<u1, u2>>, <<u1>>}

Symmetric == Permutations(Accruers)
=============================================================================
