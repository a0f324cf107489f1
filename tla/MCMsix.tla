------------------------------- MODULE MCMsix -------------------------------
(***************************************************************************)
(* Msix for TLC.                                                           *)
(***************************************************************************)
EXTENDS Msix
=============================================================================
