--------------------------- MODULE MCOptimisticTx ---------------------------
(* Instances of OptimisticTx for TLC. *)
EXTENDS OptimisticTx, TLC

CONSTANTS c1, c2, c3, k1, k2, k3, k4

\* c1 and c2 share k1 and k2, which no TxPipelined reader writes; c1 and c3
\* share k3 and k4, which c3 reads by TxPipelined.
OverlappingFootprint ==
  c1 :> {k1, k2, k3, k4} @@ c2 :> {k1, k2} @@ c3 :> {k3, k4}

\* Every client updates two keys.
SharedFootprint == [c \in Clients |-> {k1, k2}]
=============================================================================
