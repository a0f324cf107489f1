----------------------------- MODULE MCVirtioPci ----------------------------
(***************************************************************************)
(* VirtioPci for TLC.                                                      *)
(***************************************************************************)
EXTENDS VirtioPci
=============================================================================
