---------------------------- MODULE MCDiskMirror ----------------------------
(***************************************************************************)
(* Instances of DiskMirror for TLC.  Two queues are needed for a mirror    *)
(* that is installed, drained or switched on one queue and not yet on the  *)
(* other; two blocks for a copy that is behind a write on one block and    *)
(* past it on the other; two writes for one that overwrites another.       *)
(***************************************************************************)
EXTENDS DiskMirror
=============================================================================
