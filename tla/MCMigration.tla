---------------------------- MODULE MCMigration ----------------------------
(* Instances of Migration for TLC. *)
EXTENDS Migration, TLC

CONSTANTS r1, r2

Create == [ddl |-> TRUE, once |-> FALSE]   \* CREATE TABLE IF NOT EXISTS
Alter == [ddl |-> TRUE, once |-> TRUE]     \* ALTER TABLE ADD COLUMN
Update == [ddl |-> FALSE, once |-> FALSE]  \* UPDATE
Insert == [ddl |-> FALSE, once |-> TRUE]   \* INSERT of a row with a key

\* Three files: repeatable statements, one DDL that is not, one DML that is not.
MixedFiles ==
  <<[version |-> 1, stmts |-> <<Create, Update>>],
    [version |-> 2, stmts |-> <<Alter>>],
    [version |-> 5, stmts |-> <<Insert, Create>>]>>
=============================================================================
