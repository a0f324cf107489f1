--------------------------- MODULE MCVirtioPause ----------------------------
(***************************************************************************)
(* Small instances of VirtioPause.                                         *)
(***************************************************************************)
EXTENDS VirtioPause
=============================================================================
