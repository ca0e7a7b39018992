---------------------------- MODULE MCConsumerLag ----------------------------
(* The cache and CollectConsumerLag beside it, for TLC. *)
EXTENDS ConsumerLag, TLC

CONSTANTS t1, t2
=============================================================================
