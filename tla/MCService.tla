------------------------------ MODULE MCService ------------------------------
(* Instances of Service for TLC. *)
EXTENDS Service, TLC

CONSTANTS app, metrics, c1, c2

maxMessages == [l \in {app, metrics} |-> IF l = app THEN 1 ELSE 3]
=============================================================================
