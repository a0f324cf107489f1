------------------------------ MODULE MCVcpus -------------------------------
(***************************************************************************)
(* Small instances of Vcpus.                                               *)
(***************************************************************************)
EXTENDS Vcpus
=============================================================================
