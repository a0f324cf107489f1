---------------------------- MODULE MCMigration ----------------------------
(***************************************************************************)
(* Instances of Migration for TLC.  Every action treats the pages one by   *)
(* one and leaves convergence open, so one page, sent and dirtied again in *)
(* each of two iterations, stands for all of them.                         *)
(***************************************************************************)
EXTENDS Migration
=============================================================================
