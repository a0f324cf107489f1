--------------------------- MODULE MCMemTransfer ----------------------------
(***************************************************************************)
(* MemTransfer for TLC.                                                    *)
(***************************************************************************)
EXTENDS MemTransfer
=============================================================================
