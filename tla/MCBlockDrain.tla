---------------------------- MODULE MCBlockDrain ----------------------------
(***************************************************************************)
(* Small instances of BlockDrain.                                          *)
(***************************************************************************)
EXTENDS BlockDrain

CONSTANTS q1, q2

\* One queue of two descriptors, for batches and the cap, and one of one.
MCQueueSize == [q \in Queues |-> IF q = q1 THEN 2 ELSE 1]
=============================================================================
