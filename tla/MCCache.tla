------------------------------ MODULE MCCache ------------------------------
(* Instances of Cache for TLC. *)
EXTENDS Cache, TLC

CONSTANTS t1, t2
=============================================================================
