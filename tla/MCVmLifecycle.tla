--------------------------- MODULE MCVmLifecycle ----------------------------
(***************************************************************************)
(* VmLifecycle for TLC.                                                    *)
(***************************************************************************)
EXTENDS VmLifecycle
=============================================================================
