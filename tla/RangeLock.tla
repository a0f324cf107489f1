----------------------------- MODULE RangeLock ------------------------------
(***************************************************************************)
(* RangeLockManager of block/src/mirror.rs: a mutex-protected ordered map  *)
(* of held ranges, start -> end (exclusive), and a condition variable.     *)
(* The copy worker and the virtqueue workers of a mirror take a range      *)
(* before they submit I/O and hold it until the I/O has completed.         *)
(*                                                                         *)
(* The mutex makes every step below atomic.  A thread that finds its range *)
(* taken sleeps on the condition variable; it runs again when a release    *)
(* notifies it, or spuriously.                                             *)
(***************************************************************************)
EXTENDS Naturals

CONSTANTS Parties, \* threads that lock ranges
          MaxU64   \* the largest u64

ASSUME MaxU64Assumption == MaxU64 \in Nat

VARIABLES ranges, \* the BTreeMap: a function from held starts to their ends
          pc,     \* where each party is in lock_range and its guard's life
          req     \* the range each party waits for or holds

lockVars == <<ranges, pc, req>>

Addr == 0 .. MaxU64

\* The request of a party that holds and waits for nothing.
NoRange == [start |-> 0, end |-> 0]

\* `offset.checked_add(length)` succeeds and `length` is not zero.
ValidRange(offset, length) == length # 0 /\ offset + length <= MaxU64

\* Mutant: the last entry of the whole map is looked at.
LastOfAllOverlaps(r, start, end) ==
    \E s \in DOMAIN r : (\A t \in DOMAIN r : t <= s) /\ s < end /\ r[s] > start

\* `ranges.range(..end).next_back()` is the entry with the greatest start
\* below end; only that entry's end is compared with start.
OverlapsAny(r, start, end) ==
    \E s \in DOMAIN r :
        /\ s < end
        /\ \A t \in DOMAIN r : t < end => t <= s
        /\ r[s] > start

Insert(r, start, end) ==
    [s \in DOMAIN r \cup {start} |-> IF s = start THEN end ELSE r[s]]

Remove(r, start) == [s \in DOMAIN r \ {start} |-> r[s]]
-----------------------------------------------------------------------------
LockInit ==
    /\ ranges = [s \in {} |-> 0]
    /\ pc = [p \in Parties |-> "idle"]
    /\ req = [p \in Parties |-> NoRange]

\* lock_range is entered: an empty or overflowing range is an error and the
\* caller goes on without a guard; otherwise it contends for the mutex.
CallLockRange(p, offset, length) ==
    /\ pc[p] = "idle"
    /\ IF ValidRange(offset, length)
       THEN /\ pc' = [pc EXCEPT ![p] = "checking"]
            /\ req' = [req EXCEPT ![p] = [start |-> offset, end |-> offset + length]]
       ELSE UNCHANGED <<pc, req>>
    /\ UNCHANGED ranges

\* wait_while evaluates its condition with the mutex held: it sleeps if the
\* range overlaps a held one, otherwise lock_range inserts and returns.
WaitWhile(p) ==
    /\ pc[p] = "checking"
    /\ IF OverlapsAny(ranges, req[p].start, req[p].end)
       THEN /\ pc' = [pc EXCEPT ![p] = "asleep"]
            /\ UNCHANGED ranges
       ELSE /\ pc' = [pc EXCEPT ![p] = "holding"]
            /\ ranges' = Insert(ranges, req[p].start, req[p].end)
    /\ UNCHANGED req

\* Condvar::wait may return without a notification.
SpuriousWake(p) ==
    /\ pc[p] = "asleep"
    /\ pc' = [pc EXCEPT ![p] = "checking"]
    /\ UNCHANGED <<ranges, req>>

\* Mutant: the release does not notify.
NotifyNone(f) == f

\* notify_all: every thread that sleeps on the condition variable runs again.
NotifyAll(f) == [q \in Parties |-> IF f[q] = "asleep" THEN "checking" ELSE f[q]]

\* Dropping the guard calls release.
Release(p) ==
    /\ pc[p] = "holding"
    /\ ranges' = Remove(ranges, req[p].start)
    /\ pc' = NotifyAll([pc EXCEPT ![p] = "idle"])
    /\ req' = [req EXCEPT ![p] = NoRange]

LockNext ==
    \E p \in Parties :
        \/ \E offset, length \in Addr : CallLockRange(p, offset, length)
        \/ WaitWhile(p)
        \/ SpuriousWake(p)
        \/ Release(p)

LockSpec == LockInit /\ [][LockNext]_lockVars
-----------------------------------------------------------------------------
Range == [start : Addr, end : Addr]

(***************************************************************************)
(* Types: the map holds u64 starts and ends.                               *)
(***************************************************************************)
LockTypeOK ==
    /\ DOMAIN ranges \subseteq Addr
    /\ ranges \in [DOMAIN ranges -> Addr]
    /\ pc \in [Parties -> {"idle", "checking", "asleep", "holding"}]
    /\ req \in [Parties -> Range]

\* Two half-open ranges [s, e) and [t, f) have an address in common.
Overlap(s, e, t, f) == s < f /\ t < e

\* What overlaps_any is documented to answer: some held range overlaps.
OverlapsSome(r, start, end) ==
    \E s \in DOMAIN r : Overlap(s, r[s], start, end)

(***************************************************************************)
(* No two parties hold overlapping ranges (lock_range: "Blocks while any   *)
(* held range overlaps"), although overlaps_any looks at one entry only.   *)
(***************************************************************************)
Exclusion ==
    \A p, q \in Parties :
        p # q /\ pc[p] = "holding" /\ pc[q] = "holding"
            => ~Overlap(req[p].start, req[p].end, req[q].start, req[q].end)

(***************************************************************************)
(* The map is exactly the set of guards alive: release removes by start    *)
(* only, so an entry overwritten by another thread's insert would free a   *)
(* range that is still in use.                                             *)
(***************************************************************************)
MapIsGuards ==
    /\ \A p \in Parties :
         pc[p] = "holding" =>
            /\ req[p].start \in DOMAIN ranges
            /\ ranges[req[p].start] = req[p].end
    /\ \A s \in DOMAIN ranges :
         \E p \in Parties : pc[p] = "holding" /\ req[p].start = s

(***************************************************************************)
(* No wake-up is lost: a thread sleeps only while a range that overlaps    *)
(* its own is held, so the release of that range will notify it.           *)
(***************************************************************************)
NoLostWakeup ==
    \A p \in Parties :
        pc[p] = "asleep" => OverlapsSome(ranges, req[p].start, req[p].end)

(***************************************************************************)
(* The range lock implements RangeExclusion: the addresses party p owns    *)
(* are those of the map entry its guard points at.                         *)
(***************************************************************************)
heldBar == [p \in Parties |->
              IF pc[p] = "holding"
              THEN {a \in Addr : req[p].start <= a /\ a < ranges[req[p].start]}
              ELSE {}]

Abstract == INSTANCE RangeExclusion WITH held <- heldBar

ImplementsExclusion == Abstract!Spec
=============================================================================
