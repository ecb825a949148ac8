--------------------------- MODULE MCMigrationGate ---------------------------
(* An instance of MigrationGate for TLC.                                     *)
EXTENDS MigrationGate

CONSTANTS k1, k2
=============================================================================
