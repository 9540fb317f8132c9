---------------------------- MODULE MCMigrations ----------------------------
(***************************************************************************)
(* Migrations with three instances.                                        *)
(***************************************************************************)
EXTENDS Migrations

CONSTANTS a, b, c

ThreeInstances == {a, b, c}
=============================================================================
