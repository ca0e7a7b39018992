------------------------- MODULE MCMigrationParser -------------------------
(* An instance of MigrationParser for TLC. *)
EXTENDS MigrationParser
=============================================================================
