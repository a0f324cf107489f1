---------------------------- MODULE MCRangeLock -----------------------------
(***************************************************************************)
(* Three threads on a disk of six addresses: three ranges can be held at   *)
(* once with gaps between them, a long request can overlap all of them,    *)
(* and a range can end at the largest address or overflow.                 *)
(***************************************************************************)
EXTENDS RangeLock
=============================================================================
