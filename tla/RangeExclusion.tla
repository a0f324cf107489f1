--------------------------- MODULE RangeExclusion ---------------------------
(***************************************************************************)
(* What the range lock of a disk mirror promises to its users, with        *)
(* nothing of how it keeps the promise: a party owns a set of byte         *)
(* addresses, and no address has two owners.  The copy worker and the      *)
(* virtqueue workers of a mirror are the parties.                          *)
(***************************************************************************)
EXTENDS Naturals

CONSTANTS Parties, \* threads that lock ranges
          MaxU64   \* the largest u64

VARIABLE held \* held[p]: the addresses party p owns

Init == held = [p \in Parties |-> {}]

Acquire(p) ==
    /\ held[p] = {}
    /\ \E S \in (SUBSET (0 .. MaxU64)) \ {{}} :
         /\ \A q \in Parties : S \cap held[q] = {}
         /\ held' = [held EXCEPT ![p] = S]

Release(p) ==
    /\ held[p] # {}
    /\ held' = [held EXCEPT ![p] = {}]

Next == \E p \in Parties : Acquire(p) \/ Release(p)

Spec == Init /\ [][Next]_held
=============================================================================
