---------------------------- MODULE MirrorProofs ----------------------------
(***************************************************************************)
(* Proofs about the disk mirror and its range lock.                        *)
(*                                                                         *)
(* RangeLock, for every set of threads and every width of the addresses:   *)
(* the one-entry test of overlaps_any answers for all entries, held ranges *)
(* are disjoint, no wake-up is lost, and the range lock implements         *)
(* RangeExclusion.                                                         *)
(*                                                                         *)
(* DiskMirror, for every number of queues, blocks and writes: a mirror     *)
(* reported as Ready is in sync, a cancelled mirror lets go of its         *)
(* destination, the queues serve one disk, no write is lost, and no phase  *)
(* transition panics.                                                      *)
(*                                                                         *)
(* The two are separate specifications without a common variable;          *)
(* DiskMirror takes the lock of a block in one step.                       *)
(*                                                                         *)
(* The invariant of DiskMirror has two halves.  Shapes ties the control    *)
(* state together: what the call under way has checked and acknowledged,   *)
(* what the commands in the slots and in the workers say, which backend    *)
(* each queue has, and who holds which range lock.  Contents relates the   *)
(* data: source and destination behind the copy worker (Sync), every       *)
(* request in one place, and what the guest may read (ImageIsLegal).  The  *)
(* order of its part of the module: the parts of the invariant, the frame  *)
(* of every variable, the effects of the steps on records, types, one      *)
(* lemma per part, theorems.                                               *)
(***************************************************************************)
EXTENDS DiskMirror, RangeLock, WellFoundedInduction, TLAPS

-----------------------------------------------------------------------------
(***************************************************************************)
(* RangeLock: the map of held ranges and those who wait for it.            *)
(***************************************************************************)
(***************************************************************************)
(* Every set of naturals with an element below a bound has a greatest      *)
(* element below it: next_back() finds an entry whenever there is one.     *)
(***************************************************************************)
LEMMA GreatestBelow ==
    ASSUME NEW D \in SUBSET Nat, NEW end \in Nat, \E s \in D : s < end
    PROVE  \E s \in D : s < end /\ \A t \in D : t < end => t <= s
<1> DEFINE Below == {s \in D : s < end}
           T == {end - s : s \in Below}
<1>1. T \subseteq Nat /\ T # {}
  OBVIOUS
<1>2. PICK x \in T : \A y \in T : ~(<<y, x>> \in OpToRel(<, Nat))
  BY <1>1, NatLessThanWellFounded, WFMin, Zenon
<1>3. \A y \in T : ~(y < x)
  BY <1>1, <1>2 DEF OpToRel
<1>4. PICK s \in Below : x = end - s
  OBVIOUS
<1>5. \A t \in D : t < end => t <= s
  <2> SUFFICES ASSUME NEW t \in D, t < end PROVE t <= s
    OBVIOUS
  <2>1. end - t \in T
    OBVIOUS
  <2>2. ~(end - t < end - s)
    BY <1>3, <1>4, <2>1
  <2> QED
    BY <2>2
<1> QED
  BY <1>5

\* A map of non-empty, pairwise disjoint ranges.
DisjointRanges(r) ==
    /\ DOMAIN r \subseteq Nat
    /\ \A s \in DOMAIN r : r[s] \in Nat /\ s < r[s]
    /\ \A s, t \in DOMAIN r : s # t => ~Overlap(s, r[s], t, r[t])

(***************************************************************************)
(* overlaps_any compares one entry's end with the request, and on a map of *)
(* disjoint ranges that answers whether any entry overlaps.                *)
(***************************************************************************)
THEOREM OverlapsAnyIsExact ==
    ASSUME NEW r, DisjointRanges(r),
           NEW start \in Nat, NEW end \in Nat, start < end
    PROVE  OverlapsAny(r, start, end) <=> OverlapsSome(r, start, end)
<1>1. OverlapsAny(r, start, end) => OverlapsSome(r, start, end)
  BY DEF OverlapsAny, OverlapsSome, Overlap, DisjointRanges
<1>2. ASSUME OverlapsSome(r, start, end) PROVE OverlapsAny(r, start, end)
  <2>1. PICK t \in DOMAIN r : t < end /\ start < r[t]
    BY <1>2 DEF OverlapsSome, Overlap
  <2>2. PICK s \in DOMAIN r : s < end /\ \A u \in DOMAIN r : u < end => u <= s
    BY <2>1, GreatestBelow DEF DisjointRanges
  <2>3. t <= s
    BY <2>1, <2>2
  <2>4. CASE t = s
    BY <2>1, <2>2, <2>4 DEF OverlapsAny
  <2>5. CASE t # s
    <3>1. r[t] <= s
      BY <2>3, <2>5 DEF DisjointRanges, Overlap
    <3>2. start < r[s]
      BY <2>1, <3>1 DEF DisjointRanges
    <3> QED
      BY <2>2, <3>2 DEF OverlapsAny
  <2> QED
    BY <2>4, <2>5
<1> QED
  BY <1>1, <1>2
-----------------------------------------------------------------------------
\* Only a party that waits or holds has a range, and the range is not empty.
NonEmptyReq == \A p \in Parties : pc[p] # "idle" => req[p].start < req[p].end

(***************************************************************************)
(* The inductive invariant.  NonEmptyReq is what lock_range's early        *)
(* returns establish, and MapIsGuards ties the map to the requests: with   *)
(* it, disjoint guards make a map on which overlaps_any is exact.          *)
(***************************************************************************)
LockInv ==
    /\ LockTypeOK
    /\ NonEmptyReq
    /\ MapIsGuards
    /\ Exclusion
    /\ NoLostWakeup

LEMMA MapIsDisjoint == LockInv => DisjointRanges(ranges)
<1> SUFFICES ASSUME LockInv PROVE DisjointRanges(ranges)
  OBVIOUS
<1> USE MaxU64Assumption DEF LockInv, Addr, Range
<1>1. DOMAIN ranges \subseteq Nat /\ \A s \in DOMAIN ranges : ranges[s] \in Nat
  BY DEF LockTypeOK
<1>2. ASSUME NEW s \in DOMAIN ranges PROVE s < ranges[s]
  <2>1. PICK p \in Parties : pc[p] = "holding" /\ req[p].start = s
    BY DEF MapIsGuards
  <2>2. ranges[s] = req[p].end
    BY <2>1 DEF MapIsGuards
  <2> QED
    BY <2>1, <2>2 DEF NonEmptyReq
<1>3. ASSUME NEW s \in DOMAIN ranges, NEW t \in DOMAIN ranges, s # t
      PROVE  ~Overlap(s, ranges[s], t, ranges[t])
  <2>1. PICK p \in Parties : pc[p] = "holding" /\ req[p].start = s
    BY DEF MapIsGuards
  <2>2. PICK q \in Parties : pc[q] = "holding" /\ req[q].start = t
    BY DEF MapIsGuards
  <2>3. p # q
    BY <1>3, <2>1, <2>2
  <2>4. ranges[s] = req[p].end /\ ranges[t] = req[q].end
    BY <2>1, <2>2 DEF MapIsGuards
  <2> QED
    BY <2>1, <2>2, <2>3, <2>4 DEF Exclusion
<1> QED
  BY <1>1, <1>2, <1>3 DEF DisjointRanges

\* A thread that passes the test in lock_range overlaps no guard.
LEMMA GrantedIsFree ==
    ASSUME LockInv, NEW p \in Parties, pc[p] = "checking",
           ~OverlapsAny(ranges, req[p].start, req[p].end)
    PROVE  /\ req[p].start \notin DOMAIN ranges
           /\ \A q \in Parties :
                pc[q] = "holding" =>
                  ~Overlap(req[q].start, req[q].end, req[p].start, req[p].end)
<1> USE MaxU64Assumption DEF LockInv, Addr, Range
<1>1. /\ req[p].start \in Nat /\ req[p].end \in Nat
      /\ req[p].start < req[p].end
  BY DEF LockTypeOK, NonEmptyReq
<1>2. ~OverlapsSome(ranges, req[p].start, req[p].end)
  BY <1>1, MapIsDisjoint, OverlapsAnyIsExact
<1>3. req[p].start \notin DOMAIN ranges
  BY <1>1, <1>2, MapIsDisjoint DEF OverlapsSome, Overlap, DisjointRanges
<1>4. ASSUME NEW q \in Parties, pc[q] = "holding"
      PROVE  ~Overlap(req[q].start, req[q].end, req[p].start, req[p].end)
  BY <1>2, <1>4 DEF OverlapsSome, MapIsGuards
<1> QED
  BY <1>3, <1>4

LEMMA LockInvInit == LockInit => LockInv
BY MaxU64Assumption DEF LockInit, LockInv, LockTypeOK, NonEmptyReq, MapIsGuards,
   Exclusion, NoLostWakeup, NoRange, Addr, Range

LEMMA CallLockRangeKeeps ==
    ASSUME LockInv, NEW p \in Parties, NEW offset \in Addr, NEW length \in Addr,
           CallLockRange(p, offset, length)
    PROVE  LockInv'
<1> USE MaxU64Assumption DEF LockInv, CallLockRange
<1>1. CASE ~ValidRange(offset, length)
  BY <1>1 DEF LockTypeOK, NonEmptyReq, MapIsGuards, Exclusion, NoLostWakeup,
              OverlapsSome
<1>2. CASE ValidRange(offset, length)
  <2>1. LockTypeOK'
    BY <1>2 DEF LockTypeOK, ValidRange, Addr, Range
  <2>2. \A q \in Parties : q # p => pc'[q] = pc[q] /\ req'[q] = req[q]
    BY <1>2 DEF LockTypeOK
  <2>3. pc'[p] = "checking" /\ req'[p].start < req'[p].end /\ pc[p] = "idle"
    BY <1>2 DEF LockTypeOK, ValidRange, Addr
  <2>4. NonEmptyReq'
    BY <2>2, <2>3 DEF NonEmptyReq
  <2>5. MapIsGuards' /\ Exclusion' /\ NoLostWakeup'
    BY <2>2, <2>3 DEF MapIsGuards, Exclusion, NoLostWakeup, OverlapsSome
  <2> QED
    BY <2>1, <2>4, <2>5
<1> QED
  BY <1>1, <1>2

LEMMA WaitWhileKeeps ==
    ASSUME LockInv, NEW p \in Parties, WaitWhile(p)
    PROVE  LockInv'
<1> USE MaxU64Assumption DEF LockInv, WaitWhile
<1>0. /\ req[p].start \in Addr /\ req[p].end \in Addr
      /\ req[p].start < req[p].end /\ pc[p] = "checking"
      /\ \A q \in Parties : q # p => pc'[q] = pc[q]
  BY DEF LockTypeOK, NonEmptyReq, Range
<1>1. CASE OverlapsAny(ranges, req[p].start, req[p].end)
  <2>1. pc'[p] = "asleep"
    BY <1>1 DEF LockTypeOK
  <2>2. OverlapsSome(ranges, req[p].start, req[p].end)
    BY <1>0, <1>1, MapIsDisjoint, OverlapsAnyIsExact DEF Addr
  <2>3. LockTypeOK' /\ NonEmptyReq' /\ MapIsGuards' /\ Exclusion'
    BY <1>0, <1>1, <2>1 DEF LockTypeOK, NonEmptyReq, MapIsGuards, Exclusion
  <2>4. NoLostWakeup'
    BY <1>0, <1>1, <2>1, <2>2 DEF NoLostWakeup, OverlapsSome
  <2> QED
    BY <2>3, <2>4
<1>2. CASE ~OverlapsAny(ranges, req[p].start, req[p].end)
  <2>1. pc'[p] = "holding"
    BY <1>2 DEF LockTypeOK
  <2>2. /\ req[p].start \notin DOMAIN ranges
        /\ \A q \in Parties :
             pc[q] = "holding" =>
               ~Overlap(req[q].start, req[q].end, req[p].start, req[p].end)
    BY <1>0, <1>2, GrantedIsFree
  <2>3. /\ DOMAIN ranges' = DOMAIN ranges \cup {req[p].start}
        /\ ranges'[req[p].start] = req[p].end
        /\ \A s \in DOMAIN ranges : ranges'[s] = ranges[s]
    BY <1>2, <2>2 DEF Insert
  <2>4. LockTypeOK'
    <3>1. ranges' \in [DOMAIN ranges \cup {req[p].start} -> Addr]
      BY <1>0, <1>2 DEF Insert, LockTypeOK
    <3>2. pc' \in [Parties -> {"idle", "checking", "asleep", "holding"}]
      BY <1>2 DEF LockTypeOK
    <3> QED
      BY <1>0, <2>3, <3>1, <3>2 DEF LockTypeOK
  <2>5. NonEmptyReq'
    BY <1>0, <1>2 DEF NonEmptyReq
  <2>6. MapIsGuards'
    BY <1>0, <2>1, <2>2, <2>3 DEF MapIsGuards
  <2>7. Exclusion'
    BY <1>0, <2>1, <2>2 DEF Exclusion, Overlap
  <2>8. NoLostWakeup'
    BY <1>0, <2>1, <2>3 DEF NoLostWakeup, OverlapsSome
  <2> QED
    BY <2>4, <2>5, <2>6, <2>7, <2>8
<1> QED
  BY <1>1, <1>2

LEMMA ReleaseKeeps ==
    ASSUME LockInv, NEW p \in Parties, Release(p)
    PROVE  LockInv'
<1> USE MaxU64Assumption DEF LockInv
<1>1. /\ pc' \in [Parties -> {"idle", "checking", "asleep", "holding"}]
      /\ pc'[p] = "idle" /\ pc[p] = "holding" /\ req'[p] = NoRange
      /\ \A q \in Parties : pc'[q] # "asleep"
      /\ \A q \in Parties : q # p => req'[q] = req[q]
      /\ \A q \in Parties : q # p /\ pc[q] = "holding" => pc'[q] = "holding"
      /\ \A q \in Parties : q # p /\ pc'[q] = "holding" => pc[q] = "holding"
      /\ \A q \in Parties : q # p /\ pc'[q] # "idle" => pc[q] # "idle"
  BY DEF Release, NotifyAll, LockTypeOK
<1>2. /\ DOMAIN ranges' = DOMAIN ranges \ {req[p].start}
      /\ \A s \in DOMAIN ranges' : ranges'[s] = ranges[s]
  BY DEF Release, Remove
<1>3. LockTypeOK'
  <2>1. ranges' \in [DOMAIN ranges \ {req[p].start} -> Addr]
    BY DEF Release, Remove, LockTypeOK
  <2>2. NoRange \in Range
    BY DEF NoRange, Range, Addr
  <2>3. req' \in [Parties -> Range]
    BY <2>2 DEF Release, LockTypeOK
  <2> QED
    BY <1>1, <1>2, <2>1, <2>3 DEF LockTypeOK
<1>4. NonEmptyReq'
  BY <1>1 DEF NonEmptyReq
<1>5. \A q \in Parties :
        q # p /\ pc[q] = "holding" => req[q].start # req[p].start
  BY <1>1 DEF Exclusion, NonEmptyReq, Overlap, LockTypeOK, Range, Addr
<1>6. MapIsGuards'
  <2>1. ASSUME NEW q \in Parties, pc'[q] = "holding"
        PROVE  /\ req'[q].start \in DOMAIN ranges'
               /\ ranges'[req'[q].start] = req'[q].end
    <3>1. q # p
      BY <1>1, <2>1
    <3>2. pc[q] = "holding" /\ req'[q] = req[q]
      BY <1>1, <2>1, <3>1
    <3>3. req[q].start \in DOMAIN ranges /\ ranges[req[q].start] = req[q].end
      BY <3>2 DEF MapIsGuards
    <3> QED
      BY <1>2, <1>5, <3>1, <3>2, <3>3
  <2>2. ASSUME NEW s \in DOMAIN ranges'
        PROVE  \E q \in Parties : pc'[q] = "holding" /\ req'[q].start = s
    <3>1. s \in DOMAIN ranges /\ s # req[p].start
      BY <1>2
    <3>2. PICK q \in Parties : pc[q] = "holding" /\ req[q].start = s
      BY <3>1 DEF MapIsGuards
    <3> QED
      BY <1>1, <3>1, <3>2
  <2> QED
    BY <2>1, <2>2 DEF MapIsGuards
<1>7. Exclusion'
  BY <1>1 DEF Exclusion
<1>8. NoLostWakeup'
  BY <1>1 DEF NoLostWakeup
<1> QED
  BY <1>3, <1>4, <1>6, <1>7, <1>8

LEMMA LockInvNext == LockInv /\ [LockNext]_lockVars => LockInv'
<1> SUFFICES ASSUME LockInv, [LockNext]_lockVars PROVE LockInv'
  OBVIOUS
<1>1. ASSUME NEW p \in Parties, NEW offset \in Addr, NEW length \in Addr,
             CallLockRange(p, offset, length)
      PROVE  LockInv'
  BY <1>1, CallLockRangeKeeps
<1>2. ASSUME NEW p \in Parties, WaitWhile(p) PROVE LockInv'
  BY <1>2, WaitWhileKeeps
<1>3. ASSUME NEW p \in Parties, SpuriousWake(p) PROVE LockInv'
  BY <1>3 DEF LockInv, SpuriousWake, LockTypeOK, NonEmptyReq, MapIsGuards,
              Exclusion, NoLostWakeup, OverlapsSome
<1>4. ASSUME NEW p \in Parties, Release(p) PROVE LockInv'
  BY <1>4, ReleaseKeeps
<1>5. CASE UNCHANGED lockVars
  BY <1>5 DEF lockVars, LockInv, LockTypeOK, NonEmptyReq, MapIsGuards, Exclusion,
              NoLostWakeup, OverlapsSome
<1> QED
  BY <1>1, <1>2, <1>3, <1>4, <1>5 DEF LockNext

(***************************************************************************)
(* The invariant holds in every reachable state, for every set of threads. *)
(***************************************************************************)
THEOREM LockInvHolds == LockSpec => []LockInv
BY LockInvInit, LockInvNext, PTL DEF LockSpec

(***************************************************************************)
(* Guards never overlap: the copy worker and the guest writes of a mirror  *)
(* cannot be on the same bytes at once.                                    *)
(***************************************************************************)
THEOREM GuardsExclude == LockSpec => []Exclusion
<1>1. LockInv => Exclusion
  BY DEF LockInv
<1> QED
  BY LockInvHolds, <1>1, PTL

(***************************************************************************)
(* The map is the set of live guards, so a release frees its own range.    *)
(***************************************************************************)
THEOREM MapMatchesGuards == LockSpec => []MapIsGuards
<1>1. LockInv => MapIsGuards
  BY DEF LockInv
<1> QED
  BY LockInvHolds, <1>1, PTL

(***************************************************************************)
(* A sleeping thread always has a conflicting guard to wait for.           *)
(***************************************************************************)
THEOREM SleepersHaveAConflict == LockSpec => []NoLostWakeup
<1>1. LockInv => NoLostWakeup
  BY DEF LockInv
<1> QED
  BY LockInvHolds, <1>1, PTL
-----------------------------------------------------------------------------
\* What a party owns, from its own request (MapIsGuards makes it the entry's).
LEMMA OwnedAddresses ==
    ASSUME LockInv, NEW p \in Parties
    PROVE  heldBar[p] = IF pc[p] = "holding"
                        THEN {a \in Addr : req[p].start <= a /\ a < req[p].end}
                        ELSE {}
BY DEF LockInv, MapIsGuards, heldBar

LEMMA OwnedIsNotEmpty ==
    ASSUME LockInv, NEW p \in Parties, pc[p] = "holding"
    PROVE  heldBar[p] # {}
<1>1. req[p].start \in {a \in Addr : req[p].start <= a /\ a < req[p].end}
  BY MaxU64Assumption DEF LockInv, NonEmptyReq, LockTypeOK, Range, Addr
<1> QED
  BY <1>1, OwnedAddresses

LEMMA StepRefines ==
    ASSUME LockInv, LockInv', [LockNext]_lockVars
    PROVE  [Abstract!Next]_heldBar
<1> USE MaxU64Assumption
<1>0. heldBar' = [p \in Parties |->
                    IF pc'[p] = "holding"
                    THEN {a \in Addr : req'[p].start <= a /\ a < req'[p].end}
                    ELSE {}]
  BY DEF LockInv, MapIsGuards, heldBar
<1>1. heldBar = [p \in Parties |->
                    IF pc[p] = "holding"
                    THEN {a \in Addr : req[p].start <= a /\ a < req[p].end}
                    ELSE {}]
  BY DEF LockInv, MapIsGuards, heldBar
<1>2. ASSUME NEW p \in Parties, NEW offset \in Addr, NEW length \in Addr,
             CallLockRange(p, offset, length)
      PROVE  heldBar' = heldBar
  BY <1>0, <1>1, <1>2 DEF CallLockRange, LockInv, LockTypeOK
<1>3. ASSUME NEW p \in Parties, WaitWhile(p)
      PROVE  [Abstract!Next]_heldBar
  <2>1. CASE OverlapsAny(ranges, req[p].start, req[p].end)
    <3>1. heldBar' = heldBar
      BY <1>0, <1>1, <1>3, <2>1 DEF WaitWhile, LockInv, LockTypeOK
    <3> QED
      BY <3>1
  <2>2. CASE ~OverlapsAny(ranges, req[p].start, req[p].end)
    <3> DEFINE S == {a \in Addr : req[p].start <= a /\ a < req[p].end}
    <3>1. /\ pc[p] = "checking" /\ pc' = [pc EXCEPT ![p] = "holding"]
          /\ req' = req
      BY <1>3, <2>2 DEF WaitWhile
    <3>2. heldBar[p] = {}
      BY <1>1, <3>1
    <3>3. heldBar' = [heldBar EXCEPT ![p] = S]
      BY <1>0, <1>1, <3>1 DEF LockInv, LockTypeOK
    <3>4. S # {}
      <4>1. req[p].start \in S
        BY <3>1 DEF LockInv, NonEmptyReq, LockTypeOK, Range, Addr
      <4> QED
        BY <4>1
    <3>5. ASSUME NEW q \in Parties PROVE S \cap heldBar[q] = {}
      <4>1. CASE pc[q] # "holding"
        BY <1>1, <4>1
      <4>2. CASE pc[q] = "holding"
        <5>1. ~Overlap(req[q].start, req[q].end, req[p].start, req[p].end)
          BY <2>2, <3>1, <4>2, GrantedIsFree
        <5>2. heldBar[q] = {a \in Addr : req[q].start <= a /\ a < req[q].end}
          BY <1>1, <4>2
        <5> QED
          BY <5>1, <5>2 DEF Overlap, LockInv, LockTypeOK, Range, Addr
      <4> QED
        BY <4>1, <4>2
    <3>6. S \in (SUBSET (0 .. MaxU64)) \ {{}}
      BY <3>4 DEF Addr
    <3>7. Abstract!Acquire(p)
      BY <3>2, <3>3, <3>5, <3>6 DEF Abstract!Acquire
    <3> QED
      BY <3>7 DEF Abstract!Next
  <2> QED
    BY <2>1, <2>2
<1>4. ASSUME NEW p \in Parties, SpuriousWake(p)
      PROVE  heldBar' = heldBar
  BY <1>0, <1>1, <1>4 DEF SpuriousWake, LockInv, LockTypeOK
<1>5. ASSUME NEW p \in Parties, Release(p)
      PROVE  Abstract!Next
  <2>1. heldBar[p] # {}
    BY <1>5, OwnedIsNotEmpty DEF Release
  <2>2. heldBar' = [heldBar EXCEPT ![p] = {}]
    BY <1>0, <1>1, <1>5 DEF Release, NotifyAll, LockInv, LockTypeOK
  <2>3. Abstract!Release(p)
    BY <2>1, <2>2 DEF Abstract!Release
  <2> QED
    BY <2>3 DEF Abstract!Next
<1>6. CASE UNCHANGED lockVars
  <2>1. heldBar' = heldBar
    BY <1>6 DEF lockVars, heldBar
  <2> QED
    BY <2>1
<1> QED
  BY <1>2, <1>3, <1>4, <1>5, <1>6 DEF LockNext

(***************************************************************************)
(* The range lock implements the promise its users rely on.                *)
(***************************************************************************)
THEOREM RangeLockImplementsExclusion == LockSpec => ImplementsExclusion
<1>1. LockInit => Abstract!Init
  BY DEF LockInit, Abstract!Init, heldBar
<1> QED
  BY <1>1, LockInvHolds, StepRefines, PTL DEF LockSpec, ImplementsExclusion, Abstract!Spec
-----------------------------------------------------------------------------
(***************************************************************************)
(* DiskMirror: queue workers, copy worker and block API.                   *)
(***************************************************************************)
\* The phases in which a mirror keeps its destination in sync.
Alive == {"Running", "Ready"}

Quiet(q) == slot[q] = NoCommand /\ pending[q] = NoCommand

\* A device without workers has nothing under way.
InactiveIsEmpty ==
    ~active => \A q \in Queues :
        /\ job[q].pc = "idle" /\ inflight[q] = {} /\ avail[q] = <<>>
        /\ ~kick[q] /\ ~compEvt[q] /\ ~cmdEvt[q]
        /\ Quiet(q) /\ ~stopped[q]

\* What a worker that mirrors a request has in its hands.
JobShape ==
    \A q \in Queues :
        /\ job[q].pc \in {"lock", "io"} => backend[q].kind = "mirror" /\ job[q].req \in Reqs
        /\ job[q].pc = "lock" => ~backend[q].bypass
        /\ job[q].pc = "io" => /\ job[q].sio # "none" /\ job[q].dio # "none"
                               /\ job[q].dio = "skipped" => backend[q].bypass

\* A stalled queue has drained, and a worker defers requests to a command.
StallShape ==
    \A q \in Queues :
        /\ stopped[q] => job[q].pc = "idle" /\ inflight[q] = {}
        /\ pending[q] # NoCommand => job[q].pc = "idle"

\* A backend that bypasses the destination belongs to a mirror that failed.
BackendShape ==
    \A q \in Queues :
        /\ backend[q].kind = "source" <=> backend[q].mirror = 0
        /\ backend[q].mirror <= started
        /\ backend[q].bypass => /\ backend[q].kind = "mirror"
                                /\ phase[backend[q].mirror] \notin Alive

\* A mirrored write is queued only when it has completed.
MirroredShape ==
    \A q \in Queues :
        backend[q].kind = "mirror" /\ ~backend[q].bypass =>
            \A r \in inflight[q] : result[r] # "pending"

\* What a command in a slot or in a worker says.
CommandOK(c) ==
    /\ c.kind = "none" => c = NoCommand
    /\ c.kind \in {"install", "complete"} => c.mirror \in 1 .. started
    /\ c.kind = "complete" => api = "completeSwap" /\ c.mirror = handle /\ c.live
    /\ c.kind = "install" => phase[c.mirror] \in {"Running", "Failed"}

CommandShape ==
    \A q \in Queues : /\ CommandOK(slot[q]) /\ CommandOK(pending[q])
                      /\ pending[q].live => slot[q] = NoCommand

\* The phase of a mirror, and who owns it.
PhaseShape ==
    \A g \in Mirrors :
        /\ phase[g] = "none" <=> g > started
        /\ phase[g] = "Ready" => handle = g
        /\ phase[g] = "Completing" => handle = g /\ api = "completeSwap"
        /\ phase[g] = "Completed" => disk = g
        /\ phase[g] = "Running" =>
             handle = g \/ (g = started /\ api \in {"install", "rollback"})

\* The call that is under way.
CallShape ==
    /\ handle <= started /\ (handle # 0 => disk = 0)
    /\ api \in {"install", "rollback"} =>
         /\ started # 0 /\ handle = 0 /\ disk = 0
         /\ phase[started] \in {"Running", "Failed"}
    /\ api \in {"completeDrain", "switch", "completeSwap", "cancelDrain",
                "cancelRevert", "dropJoin"} => handle # 0
    /\ api = "completeDrain" => phase[handle] \in {"Ready", "Failed"}
    /\ api = "switch" => phase[handle] = "Ready"
    /\ api = "completeSwap" => phase[handle] = "Completing"
    /\ api = "cancelDrain" =>
         phase[handle] \in {"Running", "Ready", "Failed", "Cancelling"}
    /\ api \in {"cancelRevert", "dropJoin"} => phase[handle] = "Cancelling"
    /\ api = "cancelJoin" => /\ handle = 0 /\ disk = 0 /\ copy.mirror # 0
                             /\ phase[copy.mirror] = "Cancelling"
    /\ api \in {"dropJoin", "dropped"} => ~active
    /\ disk # 0 => /\ handle = 0 /\ api \in {"idle", "dropped"} /\ disk <= started
                   /\ phase[disk] = "Completed"

\* The copy worker.
CopyShape ==
    /\ api # "cancelJoin" => copy.mirror = handle
    /\ copy.mirror <= started
    /\ copy.pc = "none" <=> copy.mirror = 0
    /\ copy.pc \in {"lock", "read", "write"} => copy.block <= NBlocks
    /\ copy.pc = "flush" => copy.block > NBlocks
    /\ copy.pc = "finish" => copy.block > NBlocks \/ phase[copy.mirror] # "Running"
    /\ copy.pc = "done" => phase[copy.mirror] # "Running"
    /\ copy.mirror # 0 /\ phase[copy.mirror] \in {"Ready", "Completing"} =>
         copy.block > NBlocks /\ copy.pc = "done"

\* Queue q mirrors a write to block b with the destination of mirror g.
Writes(q, g, b) ==
    job[q].pc = "io" /\ backend[q].mirror = g /\ target[job[q].req] = b

\* The copy worker is at block b of mirror g.
CopiesBlock(g, b) ==
    copy.pc \in {"read", "write"} /\ copy.mirror = g /\ copy.block = b

\* Who holds a range.
LockShape ==
    \A g \in Mirrors, b \in Blocks :
        /\ lock[g][b] = CopyParty <=> CopiesBlock(g, b)
        /\ \A q \in Queues : lock[g][b] = q <=> Writes(q, g, b)

\* A command that the call under way waits for.
Awaited(c) ==
    c.live =>
        /\ api = "install" => c.kind = "install" /\ c.mirror = started
        /\ api \in {"completeDrain", "cancelDrain"} => c.kind = "drain"
        /\ api = "completeSwap" => c.kind = "complete"
        /\ api \in {"revert", "cancelRevert"} => c.kind = "cancel"

\* Queue q carried out what the call waits for.
Done(q) ==
    /\ Quiet(q)
    /\ api = "install" => backend[q].kind = "mirror" /\ backend[q].mirror = started
    /\ api \in {"completeDrain", "cancelDrain"} => stopped[q]
    /\ api = "completeSwap" => backend[q] = DestinationBackend(handle) /\ ~stopped[q]
    /\ api \in {"revert", "cancelRevert"} => backend[q] = PlainBackend(disk)

Acknowledged ==
    api \in {"install", "completeDrain", "completeSwap", "cancelDrain",
             "cancelRevert", "revert"} =>
        /\ acks \subseteq Senders
        /\ \A q \in acks : Done(q)
        /\ \A q \in Queues : Awaited(slot[q]) /\ Awaited(pending[q])

\* A mirror that is alive has all queues.
AliveIsMirrored ==
    handle # 0 /\ phase[handle] \in Alive /\ active =>
        \A q \in Queues : /\ backend[q] = MirrorBackend(handle)
                          /\ slot[q].kind \in {"none", "drain", "resume"}
                          /\ pending[q].kind \in {"none", "drain", "resume"}

\* The switch-over.
Switching ==
    /\ api = "switch" /\ active => \A q \in Queues : stopped[q] /\ Quiet(q)
    /\ api = "completeSwap" /\ active =>
         \A q \in Queues : /\ pending[q] = NoCommand
                           /\ slot[q] # NoCommand => stopped[q] /\ slot[q].kind = "complete"
    /\ \A q \in Queues : backend[q].kind = "destination" =>
         disk # 0 \/ (api = "completeSwap" /\ q \in acks)
    /\ disk # 0 /\ active =>
         \A q \in Queues : backend[q] = DestinationBackend(disk) /\ Quiet(q) /\ ~stopped[q]
    /\ ~active => \A p, q \in Queues :
         backend[p].kind = "destination" => backend[q].kind = "destination"

\* As long as no queue fails to swap, those that have not are stalled.
NoneLeft ==
    "complete" \notin Faults /\ api = "completeSwap" /\ active =>
        \A q \in Queues \ acks : stopped[q] /\ slot[q] # NoCommand

\* No queue is left on a cancelled mirror.
Cancelled ==
    \A g \in Mirrors : phase[g] = "Cancelling" /\ handle # g /\ active =>
       \A q \in Queues : backend[q].mirror # g

\* Source and destination of mirror g agree behind the copy worker, except where
\* a write is under way.
InSync(g) ==
    /\ \A b \in Blocks : b < copy.block /\ lock[g][b] = Free => src[b] = dst[g][b]
    /\ copy.pc = "write" => copy.buffer = src[copy.block]
    /\ \A q \in Queues : job[q].pc = "io" /\ target[job[q].req] < copy.block =>
         /\ job[q].sio = "ok" => src[target[job[q].req]] = job[q].req
         /\ job[q].dio = "ok" => dst[g][target[job[q].req]] = job[q].req

Sync == handle # 0 /\ phase[handle] \in Alive => InSync(handle)

\* Unless a queue loses its command, none mirrors while its mirror is cancelled.
NoPanic ==
    Faults \cap {"timeout", "cancel", "complete"} = {} =>
        /\ crash # "transition"
        /\ handle # 0 /\ phase[handle] = "Cancelling" /\ active =>
             /\ api \in {"idle", "cancelDrain", "cancelRevert"} /\ (api # "idle" => ~ackErr)
             /\ \A q \in Queues : /\ backend[q].kind = "mirror" => stopped[q]
                                  /\ slot[q].kind \in {"none", "drain", "cancel"}
                                  /\ pending[q].kind \in {"none", "drain", "cancel"}
                                  /\ api = "idle" => slot[q] = NoCommand

\* A request that queue q holds: in flight, or being mirrored.
Held(q) ==
    inflight[q] \cup (IF job[q].pc \in {"lock", "io"} THEN {job[q].req} ELSE {})

\* Every request is in one place.
RequestsAreDistinct ==
    /\ \A q \in Queues : \A r \in Held(q) : r <= posted /\ r \notin finished
    /\ \A q \in Queues : \A i \in DOMAIN avail[q] :
         /\ avail[q][i] <= posted /\ avail[q][i] \notin finished
         /\ \A p \in Queues : avail[q][i] \notin Held(p)
         /\ \A p \in Queues : \A j \in DOMAIN avail[p] :
              avail[p][j] = avail[q][i] => p = q /\ i = j
    /\ \A p, q \in Queues : p # q => Held(p) \cap Held(q) = {}
    /\ \A q \in Queues : job[q].pc \in {"lock", "io"} => job[q].req \notin inflight[q]
    /\ \A r \in finished : r <= posted

\* What the guest reads and writes: the source, or the destination as soon as the
\* queues are switched over.
Image ==
    IF disk # 0 THEN dst[disk]
    ELSE IF api = "completeSwap" THEN dst[handle] ELSE src

\* Requests of queue q that have reached the disk and are not yet acknowledged.
Executed(q) ==
    {r \in inflight[q] : result[r] = "ok"}
        \cup (IF job[q].pc = "io" /\ job[q].sio = "ok" THEN {job[q].req} ELSE {})

\* A write overwrites only data that was settled when it was submitted, and a
\* write under way may be read.
OverIsSettled == \A r \in Reqs : over[r] \subseteq finished \cup {0}

HeldIsLegal == \A q \in Queues : \A r \in Held(q) : r \in legal[target[r]]

\* The source holds no write that has not been submitted.
SourceIsSubmitted ==
    \A b \in Blocks :
        /\ src[b] <= posted
        /\ \A q \in Queues : /\ job[q].pc = "lock" => src[b] # job[q].req
                             /\ \A i \in DOMAIN avail[q] : src[b] # avail[q][i]

\* As long as no queue fails to swap, what the guest reads is legal.
ImageIsLegal ==
    "complete" \notin Faults =>
        /\ \A b \in Blocks : Image[b] \in legal[b]
        /\ ~active /\ api = "completeSwap" => \A b \in Blocks : src[b] \in legal[b]
        /\ \A q \in Queues : \A r \in Executed(q) : Image[target[r]] \notin over[r]
-----------------------------------------------------------------------------
(***************************************************************************)
(* Frames: the steps that can change each variable.                        *)
(***************************************************************************)
\* The steps that change src or dst.
LEMMA DiskFrame ==
  ASSUME Next
  PROVE  \/ UNCHANGED <<src, dst>>
         \/ \E q \in Queues : SourceIo(q) \/ DestinationIo(q)
         \/ \E q \in Queues, r \in Reqs : HostCompletes(q, r)
         \/ CopyWrite \/ ResetDevice \/ DropBlock
  BY ZenonT(60) DEF Next, Worker, HostIo, Copy, ApiStep, Terminated, vars, QueueAvail, Submit,
      LockRange, SourceSubmitFails, DestinationSubmitFails, WaitForCompletions, Completion,
      BlockCommand, GuestWrite, CopyNext, CopyLock, CopyRead, CopyFails, CopyFlush, CopyFinish,
      StartMirror, CompleteMirror, CancelMirror, InstallAcked, InstallFails, Rollback, RevertEnds,
      DrainFails, CompleteDrained, Switch, CompleteSwapped, CompleteSwapFails, CancelDrained,
      CancelRevertFails, CancelReverted, CancelJoined, DropJoined, ActivateDevice, diskVars, notApi

\* The steps that change phase.
LEMMA PhaseFrame ==
  ASSUME Next
  PROVE  \/ UNCHANGED <<phase>>
         \/ \E q \in Queues : DestinationSubmitFails(q) \/ WaitForCompletions(q)
         \/ CopyFails \/ CopyFinish \/ StartMirror \/ Rollback \/ Switch \/ CompleteSwapped
              \/ CancelDrained \/ DropBlock
  BY ZenonT(60) DEF Next, Worker, HostIo, Copy, ApiStep, Terminated, vars, QueueAvail, Submit,
      LockRange, SourceSubmitFails, Completion, BlockCommand, SourceIo, DestinationIo,
      HostCompletes, GuestWrite, CopyNext, CopyLock, CopyRead, CopyWrite, CopyFlush,
      CompleteMirror, CancelMirror, InstallAcked, InstallFails, RevertEnds, DrainFails,
      CompleteDrained, CompleteSwapFails, CancelRevertFails, CancelReverted, CancelJoined,
      DropJoined, ResetDevice, ActivateDevice, stateVars

\* The steps that change lock.
LEMMA LockFrame ==
  ASSUME Next
  PROVE  \/ UNCHANGED <<lock>>
         \/ \E q \in Queues : LockRange(q) \/ WaitForCompletions(q)
         \/ CopyLock \/ CopyWrite \/ CopyFails
  BY ZenonT(60) DEF Next, Worker, HostIo, Copy, ApiStep, Terminated, vars, QueueAvail, Submit,
      SourceSubmitFails, DestinationSubmitFails, Completion, BlockCommand, SourceIo, DestinationIo,
      HostCompletes, GuestWrite, CopyNext, CopyRead, CopyFlush, CopyFinish, StartMirror,
      CompleteMirror, CancelMirror, InstallAcked, InstallFails, Rollback, RevertEnds, DrainFails,
      CompleteDrained, Switch, CompleteSwapped, CompleteSwapFails, CancelDrained,
      CancelRevertFails, CancelReverted, CancelJoined, DropJoined, ResetDevice, ActivateDevice,
      DropBlock, stateVars, notApi, ProcessQueueComplete, JoinWorkers

\* The steps that change acks or ackErr.
LEMMA AckFrame ==
  ASSUME Next
  PROVE  \/ UNCHANGED <<acks, ackErr>>
         \/ \E q \in Queues : Completion(q) \/ BlockCommand(q)
         \/ StartMirror \/ CompleteMirror \/ CancelMirror \/ Rollback \/ DrainFails
              \/ CompleteDrained \/ Switch \/ CancelDrained
  BY ZenonT(60) DEF Next, Worker, HostIo, Copy, ApiStep, Terminated, vars, QueueAvail, Submit,
      LockRange, SourceSubmitFails, DestinationSubmitFails, WaitForCompletions, SourceIo,
      DestinationIo, HostCompletes, GuestWrite, CopyNext, CopyLock, CopyRead, CopyWrite, CopyFails,
      CopyFlush, CopyFinish, InstallAcked, InstallFails, RevertEnds, CompleteSwapped,
      CompleteSwapFails, CancelRevertFails, CancelReverted, CancelJoined, DropJoined, ResetDevice,
      ActivateDevice, DropBlock, ackVars, notCopy, AckFails

\* The steps that change active.
LEMMA ActiveFrame ==
  ASSUME Next
  PROVE  \/ UNCHANGED <<active>>
         \/ ResetDevice \/ ActivateDevice \/ DropBlock
  BY ZenonT(60) DEF Next, Worker, HostIo, Copy, ApiStep, Terminated, vars, QueueAvail, Submit,
      LockRange, SourceSubmitFails, DestinationSubmitFails, WaitForCompletions, Completion,
      BlockCommand, SourceIo, DestinationIo, HostCompletes, GuestWrite, CopyNext, CopyLock,
      CopyRead, CopyWrite, CopyFails, CopyFlush, CopyFinish, StartMirror, CompleteMirror,
      CancelMirror, InstallAcked, InstallFails, Rollback, RevertEnds, DrainFails, CompleteDrained,
      Switch, CompleteSwapped, CompleteSwapFails, CancelDrained, CancelRevertFails, CancelReverted,
      CancelJoined, DropJoined, blockVars, notCopy

\* The steps that change handle.
LEMMA HandleFrame ==
  ASSUME Next
  PROVE  \/ UNCHANGED <<handle>>
         \/ InstallAcked \/ CompleteSwapped \/ CancelReverted \/ DropJoined
  BY ZenonT(60) DEF Next, Worker, HostIo, Copy, ApiStep, Terminated, vars, QueueAvail, Submit,
      LockRange, SourceSubmitFails, DestinationSubmitFails, WaitForCompletions, Completion,
      BlockCommand, SourceIo, DestinationIo, HostCompletes, GuestWrite, CopyNext, CopyLock,
      CopyRead, CopyWrite, CopyFails, CopyFlush, CopyFinish, StartMirror, CompleteMirror,
      CancelMirror, InstallFails, Rollback, RevertEnds, DrainFails, CompleteDrained, Switch,
      CompleteSwapFails, CancelDrained, CancelRevertFails, CancelJoined, ResetDevice,
      ActivateDevice, DropBlock, blockVars, notCopy

\* The steps that change started.
LEMMA StartedFrame ==
  ASSUME Next
  PROVE  \/ UNCHANGED <<started>>
         \/ StartMirror
  BY ZenonT(60) DEF Next, Worker, HostIo, Copy, ApiStep, Terminated, vars, QueueAvail, Submit,
      LockRange, SourceSubmitFails, DestinationSubmitFails, WaitForCompletions, Completion,
      BlockCommand, SourceIo, DestinationIo, HostCompletes, GuestWrite, CopyNext, CopyLock,
      CopyRead, CopyWrite, CopyFails, CopyFlush, CopyFinish, CompleteMirror, CancelMirror,
      InstallAcked, InstallFails, Rollback, RevertEnds, DrainFails, CompleteDrained, Switch,
      CompleteSwapped, CompleteSwapFails, CancelDrained, CancelRevertFails, CancelReverted,
      CancelJoined, DropJoined, ResetDevice, ActivateDevice, DropBlock, blockVars, notCopy

\* The steps that change disk.
LEMMA DiskImageFrame ==
  ASSUME Next
  PROVE  \/ UNCHANGED <<disk>>
         \/ CompleteSwapped
  BY ZenonT(60) DEF Next, Worker, HostIo, Copy, ApiStep, Terminated, vars, QueueAvail, Submit,
      LockRange, SourceSubmitFails, DestinationSubmitFails, WaitForCompletions, Completion,
      BlockCommand, SourceIo, DestinationIo, HostCompletes, GuestWrite, CopyNext, CopyLock,
      CopyRead, CopyWrite, CopyFails, CopyFlush, CopyFinish, StartMirror, CompleteMirror,
      CancelMirror, InstallAcked, InstallFails, Rollback, RevertEnds, DrainFails, CompleteDrained,
      Switch, CompleteSwapFails, CancelDrained, CancelRevertFails, CancelReverted, CancelJoined,
      DropJoined, ResetDevice, ActivateDevice, DropBlock, blockVars, notCopy, JoinWorkers

\* The steps that change api.
LEMMA ApiFrame ==
  ASSUME Next
  PROVE  \/ UNCHANGED <<api>>
         \/ StartMirror \/ CompleteMirror \/ CancelMirror \/ InstallAcked \/ InstallFails
              \/ Rollback \/ RevertEnds \/ DrainFails \/ CompleteDrained \/ Switch
              \/ CompleteSwapped \/ CancelDrained \/ CancelRevertFails \/ CancelReverted
              \/ CancelJoined \/ DropJoined \/ DropBlock
  BY ZenonT(60) DEF Next, Worker, HostIo, Copy, ApiStep, Terminated, vars, QueueAvail, Submit,
      LockRange, SourceSubmitFails, DestinationSubmitFails, WaitForCompletions, Completion,
      BlockCommand, SourceIo, DestinationIo, HostCompletes, GuestWrite, CopyNext, CopyLock,
      CopyRead, CopyWrite, CopyFails, CopyFlush, CopyFinish, CompleteSwapFails, ResetDevice,
      ActivateDevice, notCopy

\* The steps that change job.
LEMMA JobFrame ==
  ASSUME Next
  PROVE  \/ UNCHANGED <<job>>
         \/ \E q \in Queues : QueueAvail(q) \/ Submit(q) \/ LockRange(q) \/ SourceSubmitFails(q)
              \/ DestinationSubmitFails(q) \/ WaitForCompletions(q) \/ Completion(q)
              \/ BlockCommand(q) \/ SourceIo(q) \/ DestinationIo(q)
  BY ZenonT(60) DEF Next, Worker, HostIo, Copy, ApiStep, Terminated, vars, HostCompletes,
      GuestWrite, CopyNext, CopyLock, CopyRead, CopyWrite, CopyFails, CopyFlush, CopyFinish,
      StartMirror, CompleteMirror, CancelMirror, InstallAcked, InstallFails, Rollback, RevertEnds,
      DrainFails, CompleteDrained, Switch, CompleteSwapped, CompleteSwapFails, CancelDrained,
      CancelRevertFails, CancelReverted, CancelJoined, DropJoined, ResetDevice, ActivateDevice,
      DropBlock, notCopy, notApi, JoinWorkers

\* The steps that change backend.
LEMMA BackendFrame ==
  ASSUME Next
  PROVE  \/ UNCHANGED <<backend>>
         \/ \E q \in Queues : DestinationSubmitFails(q) \/ WaitForCompletions(q)
              \/ Completion(q) \/ BlockCommand(q)
         \/ ActivateDevice
  BY ZenonT(60) DEF Next, Worker, HostIo, Copy, ApiStep, Terminated, vars, QueueAvail, Submit,
      LockRange, SourceSubmitFails, SourceIo, DestinationIo, HostCompletes, GuestWrite, CopyNext,
      CopyLock, CopyRead, CopyWrite, CopyFails, CopyFlush, CopyFinish, StartMirror, CompleteMirror,
      CancelMirror, InstallAcked, InstallFails, Rollback, RevertEnds, DrainFails, CompleteDrained,
      Switch, CompleteSwapped, CompleteSwapFails, CancelDrained, CancelRevertFails, CancelReverted,
      CancelJoined, DropJoined, ResetDevice, DropBlock, notCopy, notApi, RevertQueues

\* The steps that change posted.
LEMMA PostedFrame ==
  ASSUME Next
  PROVE  \/ UNCHANGED <<posted>>
         \/ \E q \in Queues, b \in Blocks : GuestWrite(q, b)
  BY ZenonT(60) DEF Next, Worker, HostIo, Copy, ApiStep, Terminated, vars, QueueAvail, Submit,
      LockRange, SourceSubmitFails, DestinationSubmitFails, WaitForCompletions, Completion,
      BlockCommand, SourceIo, DestinationIo, HostCompletes, CopyNext, CopyLock, CopyRead,
      CopyWrite, CopyFails, CopyFlush, CopyFinish, StartMirror, CompleteMirror, CancelMirror,
      InstallAcked, InstallFails, Rollback, RevertEnds, DrainFails, CompleteDrained, Switch,
      CompleteSwapped, CompleteSwapFails, CancelDrained, CancelRevertFails, CancelReverted,
      CancelJoined, DropJoined, ResetDevice, ActivateDevice, DropBlock, guestVars, notCopy, notApi

\* The steps that change target.
LEMMA TargetFrame ==
  ASSUME Next
  PROVE  \/ UNCHANGED <<target>>
         \/ \E q \in Queues, b \in Blocks : GuestWrite(q, b)
  BY ZenonT(60) DEF Next, Worker, HostIo, Copy, ApiStep, Terminated, vars, QueueAvail, Submit,
      LockRange, SourceSubmitFails, DestinationSubmitFails, WaitForCompletions, Completion,
      BlockCommand, SourceIo, DestinationIo, HostCompletes, CopyNext, CopyLock, CopyRead,
      CopyWrite, CopyFails, CopyFlush, CopyFinish, StartMirror, CompleteMirror, CancelMirror,
      InstallAcked, InstallFails, Rollback, RevertEnds, DrainFails, CompleteDrained, Switch,
      CompleteSwapped, CompleteSwapFails, CancelDrained, CancelRevertFails, CancelReverted,
      CancelJoined, DropJoined, ResetDevice, ActivateDevice, DropBlock, guestVars, notCopy, notApi,
      ProcessQueueComplete, JoinWorkers

\* The steps that change avail.
LEMMA AvailFrame ==
  ASSUME Next
  PROVE  \/ UNCHANGED <<avail>>
         \/ \E q \in Queues : Submit(q)
         \/ \E q \in Queues, b \in Blocks : GuestWrite(q, b)
         \/ ResetDevice \/ DropBlock
  BY ZenonT(60) DEF Next, Worker, HostIo, Copy, ApiStep, Terminated, vars, QueueAvail, LockRange,
      SourceSubmitFails, DestinationSubmitFails, WaitForCompletions, Completion, BlockCommand,
      SourceIo, DestinationIo, HostCompletes, CopyNext, CopyLock, CopyRead, CopyWrite, CopyFails,
      CopyFlush, CopyFinish, StartMirror, CompleteMirror, CancelMirror, InstallAcked, InstallFails,
      Rollback, RevertEnds, DrainFails, CompleteDrained, Switch, CompleteSwapped,
      CompleteSwapFails, CancelDrained, CancelRevertFails, CancelReverted, CancelJoined,
      DropJoined, ActivateDevice, ringVars, notCopy, notApi

\* The steps that change inflight.
LEMMA InflightFrame ==
  ASSUME Next
  PROVE  \/ UNCHANGED <<inflight>>
         \/ \E q \in Queues : Submit(q) \/ WaitForCompletions(q) \/ Completion(q)
         \/ ResetDevice \/ DropBlock
  BY ZenonT(60) DEF Next, Worker, HostIo, Copy, ApiStep, Terminated, vars, QueueAvail, LockRange,
      SourceSubmitFails, DestinationSubmitFails, BlockCommand, SourceIo, DestinationIo,
      HostCompletes, GuestWrite, CopyNext, CopyLock, CopyRead, CopyWrite, CopyFails, CopyFlush,
      CopyFinish, StartMirror, CompleteMirror, CancelMirror, InstallAcked, InstallFails, Rollback,
      RevertEnds, DrainFails, CompleteDrained, Switch, CompleteSwapped, CompleteSwapFails,
      CancelDrained, CancelRevertFails, CancelReverted, CancelJoined, DropJoined, ActivateDevice,
      requestVars, notCopy, notApi

\* The steps that change result.
LEMMA ResultFrame ==
  ASSUME Next
  PROVE  \/ UNCHANGED <<result>>
         \/ \E q \in Queues : Submit(q) \/ WaitForCompletions(q)
         \/ \E q \in Queues, r \in Reqs : HostCompletes(q, r)
  BY ZenonT(60) DEF Next, Worker, HostIo, Copy, ApiStep, Terminated, vars, QueueAvail, LockRange,
      SourceSubmitFails, DestinationSubmitFails, Completion, BlockCommand, SourceIo, DestinationIo,
      GuestWrite, CopyNext, CopyLock, CopyRead, CopyWrite, CopyFails, CopyFlush, CopyFinish,
      StartMirror, CompleteMirror, CancelMirror, InstallAcked, InstallFails, Rollback, RevertEnds,
      DrainFails, CompleteDrained, Switch, CompleteSwapped, CompleteSwapFails, CancelDrained,
      CancelRevertFails, CancelReverted, CancelJoined, DropJoined, ResetDevice, ActivateDevice,
      DropBlock, requestVars, notCopy, notApi, ProcessQueueComplete, JoinWorkers

\* The steps that change kick.
LEMMA KickFrame ==
  ASSUME Next
  PROVE  \/ UNCHANGED <<kick>>
         \/ \E q \in Queues : QueueAvail(q)
         \/ \E q \in Queues, b \in Blocks : GuestWrite(q, b)
         \/ ResetDevice \/ DropBlock
  BY ZenonT(60) DEF Next, Worker, HostIo, Copy, ApiStep, Terminated, vars, Submit, LockRange,
      SourceSubmitFails, DestinationSubmitFails, WaitForCompletions, Completion, BlockCommand,
      SourceIo, DestinationIo, HostCompletes, CopyNext, CopyLock, CopyRead, CopyWrite, CopyFails,
      CopyFlush, CopyFinish, StartMirror, CompleteMirror, CancelMirror, InstallAcked, InstallFails,
      Rollback, RevertEnds, DrainFails, CompleteDrained, Switch, CompleteSwapped,
      CompleteSwapFails, CancelDrained, CancelRevertFails, CancelReverted, CancelJoined,
      DropJoined, ActivateDevice, ringVars, notCopy, notApi

\* The steps that change compEvt.
LEMMA CompEvtFrame ==
  ASSUME Next
  PROVE  \/ UNCHANGED <<compEvt>>
         \/ \E q \in Queues : WaitForCompletions(q) \/ Completion(q)
         \/ \E q \in Queues, r \in Reqs : HostCompletes(q, r)
         \/ ResetDevice \/ DropBlock
  BY ZenonT(60) DEF Next, Worker, HostIo, Copy, ApiStep, Terminated, vars, QueueAvail, Submit,
      LockRange, SourceSubmitFails, DestinationSubmitFails, BlockCommand, SourceIo, DestinationIo,
      GuestWrite, CopyNext, CopyLock, CopyRead, CopyWrite, CopyFails, CopyFlush, CopyFinish,
      StartMirror, CompleteMirror, CancelMirror, InstallAcked, InstallFails, Rollback, RevertEnds,
      DrainFails, CompleteDrained, Switch, CompleteSwapped, CompleteSwapFails, CancelDrained,
      CancelRevertFails, CancelReverted, CancelJoined, DropJoined, ActivateDevice, requestVars,
      notCopy, notApi

\* The steps that change cmdEvt.
LEMMA CmdEvtFrame ==
  ASSUME Next
  PROVE  \/ UNCHANGED <<cmdEvt>>
         \/ \E q \in Queues : BlockCommand(q)
         \/ StartMirror \/ CompleteMirror \/ CancelMirror \/ Rollback \/ DrainFails
              \/ CompleteDrained \/ Switch \/ CancelDrained \/ ResetDevice \/ DropBlock
  BY ZenonT(60) DEF Next, Worker, HostIo, Copy, ApiStep, Terminated, vars, QueueAvail, Submit,
      LockRange, SourceSubmitFails, DestinationSubmitFails, WaitForCompletions, Completion,
      SourceIo, DestinationIo, HostCompletes, GuestWrite, CopyNext, CopyLock, CopyRead, CopyWrite,
      CopyFails, CopyFlush, CopyFinish, InstallAcked, InstallFails, RevertEnds, CompleteSwapped,
      CompleteSwapFails, CancelRevertFails, CancelReverted, CancelJoined, DropJoined,
      ActivateDevice, commandVars, notCopy

\* The steps that change slot or pending.
LEMMA CommandFrame ==
  ASSUME Next
  PROVE  \/ UNCHANGED <<slot, pending>>
         \/ \E q \in Queues : Completion(q) \/ BlockCommand(q)
         \/ StartMirror \/ CompleteMirror \/ CancelMirror \/ Rollback \/ DrainFails
              \/ CompleteDrained \/ Switch \/ CancelDrained \/ ResetDevice \/ DropBlock
  BY ZenonT(60) DEF Next, Worker, HostIo, Copy, ApiStep, Terminated, vars, QueueAvail, Submit,
      LockRange, SourceSubmitFails, DestinationSubmitFails, WaitForCompletions, SourceIo,
      DestinationIo, HostCompletes, GuestWrite, CopyNext, CopyLock, CopyRead, CopyWrite, CopyFails,
      CopyFlush, CopyFinish, InstallAcked, InstallFails, RevertEnds, CompleteSwapped,
      CompleteSwapFails, CancelRevertFails, CancelReverted, CancelJoined, DropJoined,
      ActivateDevice, commandVars, notCopy

\* The steps that change stopped.
LEMMA StopFrame ==
  ASSUME Next
  PROVE  \/ UNCHANGED <<stopped>>
         \/ \E q \in Queues : Completion(q) \/ BlockCommand(q)
         \/ ResetDevice \/ DropBlock
  BY ZenonT(60) DEF Next, Worker, HostIo, Copy, ApiStep, Terminated, vars, QueueAvail, Submit,
      LockRange, SourceSubmitFails, DestinationSubmitFails, WaitForCompletions, SourceIo,
      DestinationIo, HostCompletes, GuestWrite, CopyNext, CopyLock, CopyRead, CopyWrite, CopyFails,
      CopyFlush, CopyFinish, StartMirror, CompleteMirror, CancelMirror, InstallAcked, InstallFails,
      Rollback, RevertEnds, DrainFails, CompleteDrained, Switch, CompleteSwapped,
      CompleteSwapFails, CancelDrained, CancelRevertFails, CancelReverted, CancelJoined,
      DropJoined, ActivateDevice, notCopy, notApi

\* The steps that change copy.
LEMMA CopyFrame ==
  ASSUME Next
  PROVE  \/ UNCHANGED <<copy>>
         \/ CopyNext \/ CopyLock \/ CopyRead \/ CopyWrite \/ CopyFails \/ CopyFlush
              \/ CopyFinish \/ InstallAcked \/ CompleteSwapped \/ CancelJoined \/ DropJoined
  BY ZenonT(60) DEF Next, Worker, HostIo, Copy, ApiStep, Terminated, vars, QueueAvail, Submit,
      LockRange, SourceSubmitFails, DestinationSubmitFails, WaitForCompletions, Completion,
      BlockCommand, SourceIo, DestinationIo, HostCompletes, GuestWrite, StartMirror,
      CompleteMirror, CancelMirror, InstallFails, Rollback, RevertEnds, DrainFails,
      CompleteDrained, Switch, CompleteSwapFails, CancelDrained, CancelRevertFails, CancelReverted,
      ResetDevice, ActivateDevice, DropBlock

\* The steps that change calls.
LEMMA CallsFrame ==
  ASSUME Next
  PROVE  \/ UNCHANGED <<calls>>
         \/ CompleteMirror \/ CancelMirror
  BY ZenonT(60) DEF Next, Worker, HostIo, Copy, ApiStep, Terminated, vars, QueueAvail, Submit,
      LockRange, SourceSubmitFails, DestinationSubmitFails, WaitForCompletions, Completion,
      BlockCommand, SourceIo, DestinationIo, HostCompletes, GuestWrite, CopyNext, CopyLock,
      CopyRead, CopyWrite, CopyFails, CopyFlush, CopyFinish, StartMirror, InstallAcked,
      InstallFails, Rollback, RevertEnds, DrainFails, CompleteDrained, Switch, CompleteSwapped,
      CompleteSwapFails, CancelDrained, CancelRevertFails, CancelReverted, CancelJoined,
      DropJoined, ResetDevice, ActivateDevice, DropBlock, notCopy

\* The steps that change faults.
LEMMA FaultsFrame ==
  ASSUME Next
  PROVE  \/ UNCHANGED <<faults>>
         \/ \E q \in Queues : SourceSubmitFails(q) \/ DestinationSubmitFails(q) \/ Completion(q)
              \/ BlockCommand(q) \/ SourceIo(q) \/ DestinationIo(q)
         \/ \E q \in Queues, r \in Reqs : HostCompletes(q, r)
         \/ CopyFails \/ InstallAcked \/ InstallFails \/ Rollback \/ RevertEnds \/ DrainFails
              \/ CompleteDrained \/ CompleteSwapFails \/ CancelDrained \/ CancelRevertFails
  BY ZenonT(60) DEF Next, Worker, HostIo, Copy, ApiStep, Terminated, vars, QueueAvail, Submit,
      LockRange, WaitForCompletions, GuestWrite, CopyNext, CopyLock, CopyRead, CopyWrite,
      CopyFlush, CopyFinish, StartMirror, CompleteMirror, CancelMirror, Switch, CompleteSwapped,
      CancelReverted, CancelJoined, DropJoined, ResetDevice, ActivateDevice, DropBlock

\* The steps that change crash.
LEMMA CrashFrame ==
  ASSUME Next
  PROVE  \/ UNCHANGED <<crash>>
         \/ \E q \in Queues : DestinationSubmitFails(q) \/ WaitForCompletions(q)
         \/ Rollback \/ Switch \/ CompleteSwapped \/ CompleteSwapFails \/ CancelDrained \/ DropBlock
  BY ZenonT(60) DEF Next, Worker, HostIo, Copy, ApiStep, Terminated, vars, QueueAvail, Submit,
      LockRange, SourceSubmitFails, Completion, BlockCommand, SourceIo, DestinationIo,
      HostCompletes, GuestWrite, CopyNext, CopyLock, CopyRead, CopyWrite, CopyFails, CopyFlush,
      CopyFinish, StartMirror, CompleteMirror, CancelMirror, InstallAcked, InstallFails,
      RevertEnds, DrainFails, CompleteDrained, CancelRevertFails, CancelReverted, CancelJoined,
      DropJoined, ResetDevice, ActivateDevice, notCopy

\* The steps that change finished.
LEMMA FinishedFrame ==
  ASSUME Next
  PROVE  \/ UNCHANGED <<finished>>
         \/ \E q \in Queues : SourceSubmitFails(q) \/ Completion(q)
         \/ ResetDevice \/ DropBlock
  BY ZenonT(60) DEF Next, Worker, HostIo, Copy, ApiStep, Terminated, vars, QueueAvail, Submit,
      LockRange, DestinationSubmitFails, WaitForCompletions, BlockCommand, SourceIo, DestinationIo,
      HostCompletes, GuestWrite, CopyNext, CopyLock, CopyRead, CopyWrite, CopyFails, CopyFlush,
      CopyFinish, StartMirror, CompleteMirror, CancelMirror, InstallAcked, InstallFails, Rollback,
      RevertEnds, DrainFails, CompleteDrained, Switch, CompleteSwapped, CompleteSwapFails,
      CancelDrained, CancelRevertFails, CancelReverted, CancelJoined, DropJoined, ActivateDevice,
      historyVars, notCopy, notApi

\* The steps that change over.
LEMMA OverFrame ==
  ASSUME Next
  PROVE  \/ UNCHANGED <<over>>
         \/ \E q \in Queues : Submit(q)
  BY ZenonT(60) DEF Next, Worker, HostIo, Copy, ApiStep, Terminated, vars, QueueAvail, LockRange,
      SourceSubmitFails, DestinationSubmitFails, WaitForCompletions, Completion, BlockCommand,
      SourceIo, DestinationIo, HostCompletes, GuestWrite, CopyNext, CopyLock, CopyRead, CopyWrite,
      CopyFails, CopyFlush, CopyFinish, StartMirror, CompleteMirror, CancelMirror, InstallAcked,
      InstallFails, Rollback, RevertEnds, DrainFails, CompleteDrained, Switch, CompleteSwapped,
      CompleteSwapFails, CancelDrained, CancelRevertFails, CancelReverted, CancelJoined,
      DropJoined, ResetDevice, ActivateDevice, DropBlock, historyVars, notCopy, notApi,
      ProcessQueueComplete, JoinWorkers

\* The steps that change legal.
LEMMA LegalFrame ==
  ASSUME Next
  PROVE  \/ UNCHANGED <<legal>>
         \/ \E q \in Queues : Submit(q) \/ SourceSubmitFails(q) \/ Completion(q)
  BY ZenonT(60) DEF Next, Worker, HostIo, Copy, ApiStep, Terminated, vars, QueueAvail, LockRange,
      DestinationSubmitFails, WaitForCompletions, BlockCommand, SourceIo, DestinationIo,
      HostCompletes, GuestWrite, CopyNext, CopyLock, CopyRead, CopyWrite, CopyFails, CopyFlush,
      CopyFinish, StartMirror, CompleteMirror, CancelMirror, InstallAcked, InstallFails, Rollback,
      RevertEnds, DrainFails, CompleteDrained, Switch, CompleteSwapped, CompleteSwapFails,
      CancelDrained, CancelRevertFails, CancelReverted, CancelJoined, DropJoined, ResetDevice,
      ActivateDevice, DropBlock, historyVars, notCopy, notApi, JoinWorkers
-----------------------------------------------------------------------------
(***************************************************************************)
(* What the steps do to the records, queue by queue.                       *)
(***************************************************************************)
\* A call stages a command of this kind, or drops or keeps what is there.
Staging(kind, g, live) ==
    \A q \in Queues :
        \/ /\ active /\ slot'[q] = [kind |-> kind, mirror |-> g, live |-> live]
           /\ pending'[q] = Orphan(pending[q])
        \/ slot'[q] = Orphan(slot[q]) /\ pending'[q] = Orphan(pending[q])
        \/ slot'[q] = NoCommand /\ pending'[q] \in {pending[q], Orphan(pending[q])}
        \/ slot'[q] = slot[q] /\ pending'[q] = pending[q]

\* Queue q looks at its command and leaves it for later.
Defers(q) ==
    /\ backend'[q] = backend[q] /\ (stopped'[q] <=> stopped[q]) /\ UNCHANGED <<acks, ackErr>>
    /\ job'[q].pc = "submit" => ~stopped[q] /\ pending'[q] = NoCommand
    /\ \/ slot'[q] = slot[q] /\ pending'[q] = pending[q]
       \/ slot'[q] = NoCommand /\ pending'[q] = slot[q] /\ inflight[q] # {}

\* Queue q applies cmd.
Applies(q, cmd) ==
    /\ cmd # NoCommand /\ inflight'[q] = {} /\ pending'[q] = NoCommand
    /\ \/ cmd = slot[q] /\ slot'[q] = NoCommand
       \/ cmd = pending[q] /\ slot'[q] = slot[q]
    /\ stopped'[q] <=> cmd.kind = "drain"
    /\ job'[q].pc = AfterCommand(cmd)
    /\ \/ /\ cmd.kind \notin Swaps /\ backend'[q] = backend[q]
          /\ acks' = IF cmd.live THEN acks \cup {q} ELSE acks
          /\ ackErr' => ackErr
       \/ /\ cmd.kind \in Swaps /\ backend'[q] = NewBackend(cmd)
          /\ acks' = IF cmd.live THEN acks \cup {q} ELSE acks
          /\ ackErr' => ackErr
       \/ /\ cmd.kind \in Swaps /\ cmd.kind \in Faults
          /\ backend'[q] = backend[q] /\ acks' = acks

\* A completion or a command event of queue q.
Handles(q) ==
    /\ job[q].pc = "idle" /\ job'[q].pc \in {"idle", "submit"}
    /\ inflight'[q] \subseteq inflight[q]
    /\ Defers(q) \/ Applies(q, slot[q]) \/ Applies(q, pending[q])
    /\ \A p \in Queues \ {q} :
         /\ job'[p] = job[p] /\ backend'[p] = backend[p] /\ inflight'[p] = inflight[p]
         /\ slot'[p] = slot[p] /\ pending'[p] = pending[p]
         /\ stopped'[p] <=> stopped[p]

\* A command that nobody waits for keeps its kind.
LEMMA OrphanFacts ==
    ASSUME NEW c \in Commands
    PROVE  /\ Orphan(c) \in Commands /\ Orphan(c).kind = c.kind
           /\ Orphan(c).mirror = c.mirror /\ Orphan(c).live = FALSE
           /\ c = NoCommand => Orphan(c) = NoCommand
           /\ Orphan(c) = NoCommand => c.kind = "none"
  <1>1. /\ Orphan(c).kind = c.kind /\ Orphan(c).mirror = c.mirror
        /\ Orphan(c) = NoCommand => c.kind = "none"
    BY SMT DEF Orphan, Commands, NoCommand
  <1>2. Orphan(c).live = FALSE /\ Orphan(c) \in Commands
    BY Zenon DEF Orphan, Commands
  <1>3. ASSUME c = NoCommand PROVE Orphan(c) = NoCommand
    BY <1>3, Zenon DEF Orphan, Commands, NoCommand
  <1> QED BY <1>1, <1>2, <1>3

\* What each call puts into the slots.
LEMMA StagingSteps ==
    ASSUME CommandTypes
    PROVE  /\ StartMirror => Staging("install", started', TRUE)
           /\ CompleteMirror \/ CancelMirror => Staging("drain", handle, TRUE)
           /\ Rollback \/ CompleteDrained \/ CancelDrained => Staging("cancel", 0, TRUE)
           /\ DrainFails => Staging("resume", handle, FALSE)
           /\ Switch => Staging("complete", handle, TRUE)
  <1>1. ASSUME NEW kind, NEW g, Stage(kind, g) PROVE Staging(kind, g, TRUE)
    BY <1>1 DEF Stage, Staging, Senders
  <1>2. ASSUME NEW kind, NEW g, NEW live, StageOver(kind, g, live) PROVE Staging(kind, g, live)
    BY <1>2 DEF StageOver, Staging, Senders
  <1>3. ASSUME NEW then, NEW giveUp, RevertQueues(then, giveUp) PROVE Staging("cancel", 0, TRUE)
    <2>1. CASE StageOver("cancel", 0, TRUE)
      BY <2>1, <1>2
    <2>2. CASE slot' = [q \in Queues |-> IF q \in Senders THEN NoCommand ELSE slot[q]] /\ pending' = pending
      BY <2>2 DEF Staging
    <2> QED BY <1>3, <2>1, <2>2 DEF RevertQueues
  <1>4. CompleteDrained => Staging("cancel", 0, TRUE)
    <2>1. ASSUME slot' = slot, pending' = pending PROVE Staging("cancel", 0, TRUE)
      BY <2>1 DEF Staging
    <2> QED BY <1>3, <2>1 DEF CompleteDrained, commandVars
  <1> QED
    BY <1>1, <1>2, <1>3, <1>4
    DEF StartMirror, CompleteMirror, CancelMirror, Rollback, CancelDrained, DrainFails, Switch

\* What the two event handlers that apply commands do, queue by queue.
LEMMA HandlesSteps ==
    ASSUME JobTypes, CommandTypes, RequestTypes, BackendTypes, NEW q \in Queues,
           Completion(q) \/ BlockCommand(q)
    PROVE  Handles(q)
  <1> DEFINE Elsewhere ==
        \A p \in Queues \ {q} :
          /\ job'[p] = job[p] /\ backend'[p] = backend[p] /\ inflight'[p] = inflight[p]
          /\ slot'[p] = slot[p] /\ pending'[p] = pending[p]
          /\ stopped'[p] <=> stopped[p]
  <1>1. ASSUME NEW cmd, ApplyCommand(q, cmd)
        PROVE  /\ pending'[q] = NoCommand /\ job'[q].pc = AfterCommand(cmd)
               /\ stopped'[q] <=> cmd.kind = "drain"
               /\ \/ /\ cmd.kind \notin Swaps /\ backend'[q] = backend[q]
                     /\ acks' = IF cmd.live THEN acks \cup {q} ELSE acks
                     /\ ackErr' => ackErr
                  \/ /\ cmd.kind \in Swaps /\ backend'[q] = NewBackend(cmd)
                     /\ acks' = IF cmd.live THEN acks \cup {q} ELSE acks
                     /\ ackErr' => ackErr
                  \/ /\ cmd.kind \in Swaps /\ cmd.kind \in Faults
                     /\ backend'[q] = backend[q] /\ acks' = acks
               /\ \A p \in Queues \ {q} :
                    /\ job'[p] = job[p] /\ backend'[p] = backend[p]
                    /\ pending'[p] = pending[p]
                    /\ stopped'[p] <=> stopped[p]
    BY <1>1 DEF ApplyCommand, Acknowledge, Fault, ackVars, JobTypes, Jobs, CommandTypes,
        BackendTypes
  <1>2. ASSUME NEW cmd PROVE AfterCommand(cmd) \in {"idle", "submit"}
    BY DEF AfterCommand
  <1>3. CASE Completion(q)
    <2>1. CASE pending[q] # NoCommand /\ inflight'[q] = {}
      BY <1>1, <1>2, <1>3, <2>1
      DEF Completion, At, ProcessQueueComplete, Handles, Applies, RequestTypes
    <2>2. CASE ~(pending[q] # NoCommand /\ inflight'[q] = {})
      BY <1>3, <2>2
      DEF Completion, At, ProcessQueueComplete, Handles, Defers, RequestTypes, ackVars,
          SubmitOrDefer, Deferred, JobTypes, Jobs
    <2> QED BY <2>1, <2>2
  <1>4. CASE BlockCommand(q)
    <2> DEFINE cmd == IF slot[q] # NoCommand THEN slot[q] ELSE pending[q]
    <2>1. CASE cmd # NoCommand /\ inflight[q] = {}
      BY <1>1, <1>2, <1>4, <2>1
      DEF BlockCommand, At, Handles, Applies, requestVars, CommandTypes
    <2>2. CASE ~(cmd # NoCommand /\ inflight[q] = {})
      BY <1>4, <2>2
      DEF BlockCommand, At, Handles, Defers, requestVars, ackVars, CommandTypes
    <2> QED BY <2>1, <2>2
  <1> QED BY <1>3, <1>4

\* A failure of queue q reaches the phase, or panics.
Fails(q) ==
    /\ job[q].pc = "io"
    /\ \A p \in Queues : /\ backend'[p].kind = backend[p].kind
                         /\ backend'[p].mirror = backend[p].mirror
    /\ \A p \in Queues \ {q} : backend'[p] = backend[p]
    /\ \/ backend' = backend /\ phase' = phase /\ crash' = crash
       \/ /\ backend'[q].bypass /\ crash' = crash
          /\ phase' = [phase EXCEPT ![backend[q].mirror] = "Failed"]
          /\ phase[backend[q].mirror] \in {"Running", "Ready", "Failed"}
       \/ /\ backend'[q].bypass /\ crash' = "transition"
          /\ phase' = phase
          /\ phase[backend[q].mirror] \notin {"Running", "Ready", "Failed"}

\* A mirror that fails bypasses the destination on the queue that noticed.
LEMMA FailsSteps ==
    ASSUME BackendTypes, NEW q \in Queues, DestinationSubmitFails(q) \/ WaitForCompletions(q)
    PROVE  Fails(q)
  <1>1. job[q].pc = "io" /\ (Fail(q) \/ UNCHANGED <<phase, backend, crash>>)
    BY DEF DestinationSubmitFails, WaitForCompletions, At
  <1>2. CASE UNCHANGED <<phase, backend, crash>>
    BY <1>1, <1>2 DEF Fails
  <1>3. CASE Fail(q)
    <2>1. backend' = [backend EXCEPT ![q].bypass = TRUE]
      BY <1>3 DEF Fail
    <2>2. backend'[q].bypass
      BY <2>1, Zenon DEF BackendTypes, Backends
    <2>3. /\ \A p \in Queues : /\ backend'[p].kind = backend[p].kind
                               /\ backend'[p].mirror = backend[p].mirror
          /\ \A p \in Queues \ {q} : backend'[p] = backend[p]
      BY <2>1 DEF BackendTypes, Backends
    <2> QED BY <1>1, <1>3, <2>2, <2>3 DEF Fail, TransitionToPhase, Allowed, Fails
  <1> QED BY <1>1, <1>2, <1>3

\* The backends that commands install.
LEMMA NewBackends ==
    /\ PlainBackend(disk).mirror = disk /\ ~PlainBackend(disk).bypass
    /\ PlainBackend(disk).kind = IF disk = 0 THEN "source" ELSE "destination"
    /\ \A g : /\ MirrorBackend(g).kind = "mirror" /\ MirrorBackend(g).mirror = g
              /\ ~MirrorBackend(g).bypass
              /\ DestinationBackend(g).kind = "destination" /\ DestinationBackend(g).mirror = g
              /\ ~DestinationBackend(g).bypass
    /\ \A cmd : /\ cmd.kind = "install" => NewBackend(cmd) = MirrorBackend(cmd.mirror)
                /\ cmd.kind = "complete" => NewBackend(cmd) = DestinationBackend(cmd.mirror)
                /\ cmd.kind = "cancel" => NewBackend(cmd) = PlainBackend(disk)
  BY DEF PlainBackend, SourceBackend, DestinationBackend, MirrorBackend, NewBackend

\* How the phase of a mirror changes.
LEMMA PhaseEffects ==
    ASSUME TypeOK, Next, NEW g \in Mirrors, phase'[g] # phase[g]
    PROVE  \/ /\ phase'[g] = "Failed" /\ phase[g] \in Alive
              /\ CopyFails \/ Rollback
                 \/ \E q \in Queues : DestinationSubmitFails(q) \/ WaitForCompletions(q)
           \/ phase'[g] = "Ready" /\ phase[g] = "Running" /\ g = copy.mirror /\ CopyFinish
           \/ phase'[g] = "Running" /\ g = started' /\ StartMirror
           \/ phase'[g] = "Completing" /\ phase[g] = "Ready" /\ g = handle /\ Switch
           \/ phase'[g] = "Completed" /\ phase[g] = "Completing" /\ g = handle /\ CompleteSwapped
           \/ /\ phase'[g] = "Cancelling" /\ phase[g] \in Alive \cup {"Failed"} /\ g = handle
              /\ CancelDrained \/ DropBlock
  <1>0. PhaseTypes BY DEF TypeOK
  <1>1. ASSUME NEW h, NEW to, TransitionToPhase(h, to)
        PROVE  g = h /\ phase'[g] = to /\ Allowed(phase[g], to) /\ phase[g] # to
    BY <1>0, <1>1 DEF TransitionToPhase, PhaseTypes
  <1>2. ASSUME NEW h, NEW to, FinishCopy(h, to)
        PROVE  g = h /\ phase'[g] = to /\ Allowed(phase[g], to) /\ phase[g] # to
    BY <1>0, <1>2 DEF FinishCopy, PhaseTypes
  <1>3. ASSUME NEW q \in Queues, DestinationSubmitFails(q) \/ WaitForCompletions(q)
        PROVE  phase'[g] = "Failed" /\ phase[g] \in Alive
    BY <1>1, <1>3 DEF DestinationSubmitFails, WaitForCompletions, Fail, Allowed, Alive
  <1>4. CASE StartMirror
    BY <1>0, <1>4 DEF StartMirror, PhaseTypes
  <1>5. CASE CopyFails \/ CopyFinish
    BY <1>2, <1>5 DEF CopyFails, CopyFinish, Allowed, Alive
  <1>6. CASE Rollback \/ Switch \/ CompleteSwapped \/ CancelDrained \/ DropBlock
    BY <1>1, <1>6 DEF Rollback, Switch, CompleteSwapped, CancelDrained, DropBlock, Allowed, Alive
  <1> QED BY <1>3, <1>4, <1>5, <1>6, PhaseFrame
-----------------------------------------------------------------------------
(***************************************************************************)
(* Types.                                                                  *)
(***************************************************************************)
\* Requests and the initial contents are data.
LEMMA DataFacts == 0 \in Data /\ Junk \in Data /\ Reqs \subseteq Data /\ 0 .. NReqs \subseteq Data
  BY ConstantsAssumption DEF Data, Junk, Reqs

\* Every step keeps DiskTypes.
LEMMA DiskTyped ==
    ASSUME TypeOK, Next
    PROVE  DiskTypes'
  <1> USE DEF DiskTypes
  <1>0. DiskTypes BY DEF TypeOK
  <1>3. ASSUME NEW q \in Queues PROVE job[q].req \in Data
    BY DataFacts DEF TypeOK, JobTypes, Jobs
  <1>4. ASSUME NEW q \in Queues, SourceIo(q) PROVE DiskTypes'
    BY <1>0, <1>3, <1>4 DEF SourceIo
  <1>5. ASSUME NEW q \in Queues, DestinationIo(q) PROVE DiskTypes'
    <2>1. \/ dst' = dst
          \/ dst' = [dst EXCEPT ![backend[q].mirror][target[job[q].req]] = job[q].req]
      BY <1>5 DEF DestinationIo
    <2>2. src' = src
      BY <1>5 DEF DestinationIo
    <2> QED BY <1>0, <1>3, <2>1, <2>2
  <1>6. ASSUME NEW q \in Queues, NEW r \in Reqs, HostCompletes(q, r) PROVE DiskTypes'
    <2>1. \/ UNCHANGED <<src, dst>>
          \/ dst' = [dst EXCEPT ![backend[q].mirror][target[r]] = r] /\ src' = src
          \/ src' = [src EXCEPT ![target[r]] = r] /\ dst' = dst
      BY <1>6 DEF HostCompletes, diskVars
    <2>2. r \in Data
      BY DataFacts
    <2> QED BY <1>0, <2>1, <2>2
  <1>7. CASE CopyWrite
    <2>1. copy.buffer \in Data
      BY DEF TypeOK, CopyTypes, Copies
    <2>2. dst' = [dst EXCEPT ![copy.mirror][copy.block] = copy.buffer] /\ src' = src
      BY <1>7 DEF CopyWrite
    <2> QED BY <1>0, <2>1, <2>2
  <1>8. CASE JoinWorkers
    <2>1. ASSUME NEW d \in [Blocks -> Data]
          PROVE  [dst EXCEPT ![disk] = d] \in [Mirrors -> [Blocks -> Data]]
      BY <1>0
    <2> QED BY <1>0, <1>8, <2>1 DEF JoinWorkers
  <1>9. ResetDevice \/ DropBlock => JoinWorkers
    BY DEF ResetDevice, DropBlock
  <1>10. CASE UNCHANGED <<src, dst>>
    BY <1>0, <1>10
  <1> QED BY <1>4, <1>5, <1>6, <1>7, <1>8, <1>9, <1>10, DiskFrame

\* Every step keeps PhaseTypes.
LEMMA PhaseTyped ==
    ASSUME TypeOK, Next
    PROVE  PhaseTypes'
  <1>1. ASSUME NEW g, NEW to \in Phases PROVE [phase EXCEPT ![g] = to] \in [Mirrors -> Phases]
    BY DEF TypeOK, PhaseTypes
  <1>2. ASSUME NEW g, NEW to \in Phases, TransitionToPhase(g, to) PROVE PhaseTypes'
    BY <1>1, <1>2 DEF TransitionToPhase, TypeOK, PhaseTypes
  <1>3. ASSUME NEW g, NEW to \in Phases, FinishCopy(g, to) PROVE PhaseTypes'
    BY <1>3 DEF FinishCopy, TypeOK, PhaseTypes
  <1>4. /\ "Running" \in Phases /\ "Ready" \in Phases /\ "Completing" \in Phases
        /\ "Completed" \in Phases /\ "Cancelling" \in Phases /\ "Failed" \in Phases
    BY DEF Phases
  <1>5. ASSUME NEW q \in Queues, DestinationSubmitFails(q) \/ WaitForCompletions(q)
        PROVE  PhaseTypes'
    BY <1>2, <1>4, <1>5 DEF DestinationSubmitFails, WaitForCompletions, Fail, TypeOK, PhaseTypes
  <1>6. CASE UNCHANGED phase
    BY <1>6 DEF TypeOK, PhaseTypes
  <1>7. CASE CopyFails \/ CopyFinish
    BY <1>3, <1>4, <1>7 DEF CopyFails, CopyFinish
  <1>8. CASE StartMirror
    BY <1>1, <1>4, <1>8 DEF StartMirror, PhaseTypes
  <1>9. CASE Rollback \/ Switch \/ CompleteSwapped \/ CancelDrained \/ DropBlock
    BY <1>2, <1>4, <1>6, <1>9 DEF Rollback, Switch, CompleteSwapped, CancelDrained, DropBlock
  <1> QED BY <1>5, <1>6, <1>7, <1>8, <1>9, PhaseFrame

\* Every step keeps LockTypes.
LEMMA LockTyped ==
    ASSUME TypeOK, Next
    PROVE  LockTypes'
  <1>0. LockTypes BY DEF TypeOK
  <1>1. ASSUME NEW g, NEW b, NEW v \in {Free, CopyParty} \cup Queues,
               lock' = [lock EXCEPT ![g][b] = v]
        PROVE  LockTypes'
    BY <1>0, <1>1 DEF LockTypes
  <1>2. ASSUME NEW q \in Queues, LockRange(q) \/ WaitForCompletions(q) PROVE LockTypes'
    <2>1. \/ lock' = [lock EXCEPT ![backend[q].mirror][target[job[q].req]] = q]
          \/ lock' = [lock EXCEPT ![backend[q].mirror][target[job[q].req]] = Free]
      BY <1>2 DEF LockRange, WaitForCompletions, Unlocked
    <2> QED BY <1>1, <2>1
  <1>3. CASE UNCHANGED lock
    BY <1>3 DEF TypeOK, LockTypes
  <1>4. CASE CopyLock \/ CopyWrite \/ CopyFails
    <2>1. \/ lock' = lock
          \/ lock' = [lock EXCEPT ![copy.mirror][copy.block] = CopyParty]
          \/ lock' = [lock EXCEPT ![copy.mirror][copy.block] = Free]
      BY <1>4 DEF CopyLock, CopyWrite, CopyFails, Unlocked
    <2> QED BY <1>1, <1>3, <2>1
  <1> QED BY <1>2, <1>3, <1>4, LockFrame

\* Every step keeps ApiTypes.
LEMMA ApiTyped ==
    ASSUME TypeOK, Next
    PROVE  ApiTypes'
  <1> USE DEF ApiTypes
  <1>0. ApiTypes BY DEF TypeOK
  <1>1. acks' \in SUBSET Queues
    <2>1. ASSUME NEW q \in Queues, Completion(q) \/ BlockCommand(q) PROVE acks' \in SUBSET Queues
      BY <1>0, <2>1 DEF Completion, BlockCommand, ApplyCommand, Acknowledge, ackVars
    <2> QED
      BY <1>0, <2>1, AckFrame
      DEF StartMirror, CompleteMirror, CancelMirror, Rollback, DrainFails, CompleteDrained,
          Switch, CancelDrained, RevertQueues, Stage, StageOver, ackVars
  <1>2. ackErr' \in BOOLEAN
    <2>1. ASSUME NEW q \in Queues, Completion(q) \/ BlockCommand(q) PROVE ackErr' \in BOOLEAN
      BY <1>0, <2>1 DEF Completion, BlockCommand, ApplyCommand, Acknowledge, ackVars
    <2> QED
      BY <1>0, <2>1, AckFrame
      DEF StartMirror, CompleteMirror, CancelMirror, Rollback, DrainFails, CompleteDrained,
          Switch, CancelDrained, RevertQueues, Stage, StageOver, ackVars
  <1>3. active' \in BOOLEAN
    BY <1>0, ActiveFrame DEF ResetDevice, ActivateDevice, DropBlock
  <1>4. started' \in 0 .. MaxMirrors
    BY <1>0, StartedFrame, ConstantsAssumption DEF StartMirror, ApiAt
  <1>5. handle' \in 0 .. MaxMirrors /\ disk' \in 0 .. MaxMirrors
    BY <1>0, HandleFrame, DiskImageFrame, ConstantsAssumption
    DEF InstallAcked, CompleteSwapped, CancelReverted, DropJoined, CompletedDisk
  <1>6. api' \in {"idle", "install", "rollback", "revert", "completeDrain", "switch",
                  "completeSwap", "cancelDrain", "cancelRevert", "cancelJoin",
                  "dropJoin", "dropped"}
    BY <1>0, ApiFrame
    DEF StartMirror, CompleteMirror, CancelMirror, InstallAcked, InstallFails, Rollback,
        RevertEnds, DrainFails, CompleteDrained, Switch, CompleteSwapped, CancelDrained,
        CancelRevertFails, CancelReverted, CancelJoined, DropJoined, DropBlock, RevertQueues
  <1> QED BY <1>1, <1>2, <1>3, <1>4, <1>5, <1>6

\* Every step keeps JobTypes.
LEMMA JobTyped ==
    ASSUME TypeOK, Next
    PROVE  JobTypes'
  <1>0. JobTypes BY DEF TypeOK
  <1>1. ASSUME NEW q \in Queues, NEW j \in Jobs PROVE [job EXCEPT ![q] = j] \in [Queues -> Jobs]
    BY <1>0 DEF JobTypes
  <1>2. ASSUME NEW q \in Queues, NEW v \in {"idle", "submit", "lock", "io"}
        PROVE  [job EXCEPT ![q].pc = v] \in [Queues -> Jobs]
    BY <1>0 DEF JobTypes, Jobs
  <1>3. ASSUME NEW q \in Queues, NEW v \in {"ok", "error"}, job' = [job EXCEPT ![q].sio = v]
        PROVE  JobTypes'
    BY <1>0, <1>3 DEF JobTypes, Jobs
  <1>4. ASSUME NEW q \in Queues, NEW v \in {"ok", "error", "skipped"},
               job' = [job EXCEPT ![q].dio = v]
        PROVE  JobTypes'
    BY <1>0, <1>4 DEF JobTypes, Jobs
  <1>5. IdleJob \in Jobs /\ [IdleJob EXCEPT !.pc = "submit"] \in Jobs
    BY ConstantsAssumption DEF IdleJob, Jobs
  <1>6. ASSUME NEW q \in Queues, NEW cmd, ApplyCommand(q, cmd) PROVE JobTypes'
    BY <1>2, <1>6 DEF ApplyCommand, AfterCommand, JobTypes
  <1>7. ASSUME NEW q \in Queues, Completion(q) \/ BlockCommand(q) PROVE JobTypes'
    BY <1>0, <1>2, <1>6, <1>7 DEF Completion, BlockCommand, SubmitOrDefer, JobTypes
  <1>8. ASSUME NEW q \in Queues, QueueAvail(q) PROVE JobTypes'
    BY <1>2, <1>8 DEF QueueAvail, SubmitOrDefer, JobTypes
  <1>9. ASSUME NEW q \in Queues, Submit(q) PROVE JobTypes'
    <2>1. CASE avail[q] = <<>>
      BY <1>1, <1>5, <1>9, <2>1 DEF Submit, JobTypes
    <2>2. CASE avail[q] # <<>> /\ Mirroring(q)
      <3> DEFINE r == Head(avail[q])
      <3>1. r \in 0 .. NReqs
        BY <2>2, ConstantsAssumption DEF TypeOK, RequestTypes, Reqs
      <3>2. job' = [job EXCEPT ![q].pc = "lock", ![q].req = r]
        BY <1>9, <2>2 DEF Submit
      <3> HIDE DEF r
      <3> QED BY <1>0, <3>1, <3>2, ZenonT(60) DEF JobTypes, Jobs
    <2>3. CASE avail[q] # <<>> /\ ~Mirroring(q)
      BY <1>0, <1>9, <2>3 DEF Submit, JobTypes
    <2> QED BY <2>1, <2>2, <2>3
  <1>10. ASSUME NEW q \in Queues, LockRange(q) PROVE JobTypes'
    <2>1. job' = [job EXCEPT ![q].pc = "io", ![q].sio = "pending", ![q].dio = "pending"]
      BY <1>10 DEF LockRange
    <2> QED BY <1>0, <2>1, ZenonT(60) DEF JobTypes, Jobs
  <1>11. ASSUME NEW q \in Queues, SourceSubmitFails(q) \/ WaitForCompletions(q) PROVE JobTypes'
    <2>1. job' = [job EXCEPT ![q] = [IdleJob EXCEPT !.pc = "submit"]]
      BY <1>11 DEF SourceSubmitFails, WaitForCompletions
    <2> QED BY <1>1, <1>5, <2>1 DEF JobTypes
  <1>12. ASSUME NEW q \in Queues, DestinationSubmitFails(q) \/ SourceIo(q) \/ DestinationIo(q)
         PROVE JobTypes'
    <2>1. \/ job' = [job EXCEPT ![q].sio = "ok"] \/ job' = [job EXCEPT ![q].sio = "error"]
          \/ job' = [job EXCEPT ![q].dio = "ok"] \/ job' = [job EXCEPT ![q].dio = "error"]
          \/ job' = [job EXCEPT ![q].dio = "skipped"]
      BY <1>12 DEF DestinationSubmitFails, SourceIo, DestinationIo
    <2> QED BY <1>3, <1>4, <2>1
  <1>13. CASE UNCHANGED job
    BY <1>0, <1>13 DEF JobTypes
  <1> QED BY <1>7, <1>8, <1>9, <1>10, <1>11, <1>12, <1>13, JobFrame

\* Every step keeps BackendTypes.
LEMMA BackendTyped ==
    ASSUME TypeOK, Next
    PROVE  BackendTypes'
  <1>0. BackendTypes /\ CommandTypes /\ ApiTypes BY DEF TypeOK
  <1>1. ASSUME NEW q \in Queues, NEW be \in Backends
        PROVE  [backend EXCEPT ![q] = be] \in [Queues -> Backends]
    BY <1>0 DEF BackendTypes
  <1>2. ASSUME NEW q \in Queues PROVE [backend EXCEPT ![q].bypass = TRUE] \in [Queues -> Backends]
    BY <1>0, Zenon DEF BackendTypes, Backends
  <1>3. ASSUME NEW g \in 0 .. MaxMirrors
        PROVE  MirrorBackend(g) \in Backends /\ DestinationBackend(g) \in Backends
    BY DEF MirrorBackend, DestinationBackend, Backends
  <1>4. PlainBackend(disk) \in Backends
    BY <1>0, <1>3, ConstantsAssumption DEF ApiTypes, PlainBackend, SourceBackend, Backends
  <1>5. ASSUME NEW c \in Commands, c.kind \in Swaps PROVE NewBackend(c) \in Backends
    BY <1>3, <1>4, <1>5 DEF Commands, NewBackend, Swaps
  <1>6. ASSUME NEW q \in Queues, NEW c \in Commands, ApplyCommand(q, c) PROVE BackendTypes'
    BY <1>0, <1>1, <1>5, <1>6 DEF ApplyCommand, BackendTypes
  <1>7. ASSUME NEW q \in Queues, Completion(q) \/ BlockCommand(q) PROVE BackendTypes'
    BY <1>0, <1>6, <1>7 DEF Completion, BlockCommand, BackendTypes, CommandTypes
  <1>8. CASE UNCHANGED backend
    BY <1>0, <1>8 DEF BackendTypes
  <1>9. ASSUME NEW q \in Queues, DestinationSubmitFails(q) \/ WaitForCompletions(q)
        PROVE  BackendTypes'
    BY <1>2, <1>8, <1>9 DEF DestinationSubmitFails, WaitForCompletions, Fail, BackendTypes
  <1>10. CASE ActivateDevice
    BY <1>0, <1>3, <1>4, <1>10 DEF ActivateDevice, QueueBackend, BackendTypes, ApiTypes
  <1> QED BY <1>7, <1>8, <1>9, <1>10, BackendFrame

\* Every step keeps RequestTypes.
LEMMA RequestTyped ==
    ASSUME TypeOK, JobShape, Next
    PROVE  RequestTypes'
  <1>0. RequestTypes /\ JobTypes BY DEF TypeOK
  <1>1. posted' \in 0 .. NReqs /\ target' \in [Reqs -> Blocks]
    <2>1. ASSUME NEW q \in Queues, NEW b \in Blocks, GuestWrite(q, b)
          PROVE  posted' \in 0 .. NReqs /\ target' \in [Reqs -> Blocks]
      <3>1. posted' \in 0 .. NReqs
        BY <1>0, <2>1, ConstantsAssumption DEF RequestTypes, GuestWrite
      <3>2. target' \in [Reqs -> Blocks]
        BY <1>0, <2>1 DEF RequestTypes, GuestWrite
      <3> QED BY <3>1, <3>2
    <2> QED BY <1>0, <2>1, PostedFrame, TargetFrame DEF RequestTypes
  <1>2. avail' \in [Queues -> Seq(Reqs)]
    <2>1. ASSUME NEW q \in Queues, Submit(q) PROVE avail' \in [Queues -> Seq(Reqs)]
      <3>1. avail[q] # <<>> => Tail(avail[q]) \in Seq(Reqs)
        BY <1>0 DEF RequestTypes
      <3>2. avail' = avail \/ (avail[q] # <<>> /\ avail' = [avail EXCEPT ![q] = Tail(avail[q])])
        BY <2>1 DEF Submit
      <3> QED BY <1>0, <3>1, <3>2 DEF RequestTypes
    <2>2. ASSUME NEW q \in Queues, NEW b \in Blocks, GuestWrite(q, b)
          PROVE  avail' \in [Queues -> Seq(Reqs)]
      <3>1. posted' \in Reqs
        BY <1>0, <2>2, ConstantsAssumption DEF GuestWrite, RequestTypes, Reqs
      <3>2. Append(avail[q], posted') \in Seq(Reqs)
        BY <1>0, <3>1 DEF RequestTypes
      <3> QED BY <1>0, <2>2, <3>2 DEF GuestWrite, RequestTypes
    <2>3. JoinWorkers => avail' \in [Queues -> Seq(Reqs)]
      BY DEF JoinWorkers
    <2> QED BY <1>0, <2>1, <2>2, <2>3, AvailFrame DEF RequestTypes, ResetDevice, DropBlock
  <1>3. inflight' \in [Queues -> SUBSET Reqs]
    <2>1. ASSUME NEW q \in Queues, Submit(q) PROVE inflight' \in [Queues -> SUBSET Reqs]
      <3>1. avail[q] # <<>> => Head(avail[q]) \in Reqs
        BY <1>0 DEF RequestTypes
      <3>2. \/ inflight' = inflight
            \/ avail[q] # <<>> /\ inflight' = [inflight EXCEPT ![q] = @ \cup {Head(avail[q])}]
        BY <2>1 DEF Submit
      <3> QED BY <1>0, <3>1, <3>2 DEF RequestTypes
    <2>2. ASSUME NEW q \in Queues, WaitForCompletions(q) PROVE inflight' \in [Queues -> SUBSET Reqs]
      <3>1. job[q].req \in Reqs
        BY <2>2 DEF WaitForCompletions, At, JobShape
      <3> QED BY <1>0, <2>2, <3>1 DEF WaitForCompletions, RequestTypes
    <2>3. ASSUME NEW q \in Queues, Completion(q) PROVE inflight' \in [Queues -> SUBSET Reqs]
      BY <1>0, <2>3 DEF Completion, ProcessQueueComplete, RequestTypes
    <2>4. JoinWorkers => inflight' \in [Queues -> SUBSET Reqs]
      BY DEF JoinWorkers
    <2> QED BY <1>0, <2>1, <2>2, <2>3, <2>4, InflightFrame DEF RequestTypes, ResetDevice, DropBlock
  <1>4. result' \in [Reqs -> {"none", "pending", "ok", "error"}]
    <2>1. ASSUME NEW q \in Queues, Submit(q)
          PROVE  result' \in [Reqs -> {"none", "pending", "ok", "error"}]
      BY <1>0, <2>1 DEF Submit, RequestTypes
    <2>2. ASSUME NEW q \in Queues, WaitForCompletions(q)
          PROVE  result' \in [Reqs -> {"none", "pending", "ok", "error"}]
      BY <1>0, <2>2 DEF WaitForCompletions, RequestTypes, JobTypes, Jobs
    <2>3. ASSUME NEW q \in Queues, NEW r \in Reqs, HostCompletes(q, r)
          PROVE  result' \in [Reqs -> {"none", "pending", "ok", "error"}]
      BY <1>0, <2>3 DEF HostCompletes, RequestTypes
    <2> QED BY <1>0, <2>1, <2>2, <2>3, ResultFrame DEF RequestTypes
  <1> QED BY <1>1, <1>2, <1>3, <1>4 DEF RequestTypes

\* Every step keeps EventTypes.
LEMMA EventTyped ==
    ASSUME TypeOK, Next
    PROVE  EventTypes'
  <1>0. EventTypes BY DEF TypeOK
  <1>1. kick' \in [Queues -> BOOLEAN]
    <2>1. ASSUME NEW q \in Queues, QueueAvail(q) PROVE kick' \in [Queues -> BOOLEAN]
      BY <1>0, <2>1, Zenon DEF QueueAvail, EventTypes
    <2>2. ASSUME NEW q \in Queues, NEW b \in Blocks, GuestWrite(q, b)
          PROVE  kick' \in [Queues -> BOOLEAN]
      BY <1>0, <2>2, Zenon DEF GuestWrite, EventTypes
    <2>3. JoinWorkers => kick' \in [Queues -> BOOLEAN]
      BY Zenon DEF JoinWorkers
    <2> QED BY <1>0, <2>1, <2>2, <2>3, KickFrame DEF EventTypes, ResetDevice, DropBlock
  <1>2. compEvt' \in [Queues -> BOOLEAN]
    <2>1. ASSUME NEW q \in Queues, WaitForCompletions(q) \/ Completion(q)
          PROVE  compEvt' \in [Queues -> BOOLEAN]
      BY <1>0, <2>1, Zenon DEF WaitForCompletions, Completion, EventTypes
    <2>2. ASSUME NEW q \in Queues, NEW r \in Reqs, HostCompletes(q, r)
          PROVE  compEvt' \in [Queues -> BOOLEAN]
      BY <1>0, <2>2, Zenon DEF HostCompletes, EventTypes
    <2>3. JoinWorkers => compEvt' \in [Queues -> BOOLEAN]
      BY Zenon DEF JoinWorkers
    <2> QED BY <1>0, <2>1, <2>2, <2>3, CompEvtFrame DEF EventTypes, ResetDevice, DropBlock
  <1>3. cmdEvt' \in [Queues -> BOOLEAN]
    <2>1. ASSUME NEW q \in Queues, BlockCommand(q) PROVE cmdEvt' \in [Queues -> BOOLEAN]
      BY <1>0, <2>1, Zenon DEF BlockCommand, EventTypes
    <2>2. ASSUME NEW kind, NEW g, Stage(kind, g) PROVE cmdEvt' \in [Queues -> BOOLEAN]
      BY <2>2, Zenon DEF Stage
    <2>3. ASSUME NEW kind, NEW g, NEW live, StageOver(kind, g, live)
          PROVE  cmdEvt' \in [Queues -> BOOLEAN]
      BY <2>3, Zenon DEF StageOver
    <2>4. ASSUME NEW then, NEW giveUp, RevertQueues(then, giveUp)
          PROVE  cmdEvt' \in [Queues -> BOOLEAN]
      BY <1>0, <2>3, <2>4 DEF RevertQueues, EventTypes
    <2>5. JoinWorkers => cmdEvt' \in [Queues -> BOOLEAN]
      BY Zenon DEF JoinWorkers
    <2> QED
      BY <1>0, <2>1, <2>2, <2>3, <2>4, <2>5, CmdEvtFrame
      DEF StartMirror, CompleteMirror, CancelMirror, Rollback, DrainFails, CompleteDrained, Switch,
          CancelDrained, ResetDevice, DropBlock, EventTypes, commandVars
  <1> QED BY <1>1, <1>2, <1>3 DEF EventTypes

\* Every step keeps CommandTypes.
LEMMA CommandTyped ==
    ASSUME TypeOK, Next
    PROVE  CommandTypes'
  <1>0. CommandTypes /\ ApiTypes BY DEF TypeOK
  <1>1. NoCommand \in Commands
    BY ConstantsAssumption DEF NoCommand, Commands
  <1>2. ASSUME NEW kind \in {"install", "drain", "resume", "complete", "cancel"},
               NEW g \in 0 .. MaxMirrors, NEW live \in BOOLEAN
        PROVE  [kind |-> kind, mirror |-> g, live |-> live] \in Commands
    BY DEF Commands
  <1>3. ASSUME NEW q \in Queues
        PROVE  Orphan(slot[q]) \in Commands /\ Orphan(pending[q]) \in Commands
    BY <1>0, OrphanFacts DEF CommandTypes
  <1>4. stopped' \in [Queues -> BOOLEAN]
    <2>1. ASSUME NEW q \in Queues, Completion(q) \/ BlockCommand(q)
          PROVE  stopped' \in [Queues -> BOOLEAN]
      BY <1>0, <2>1 DEF Completion, BlockCommand, ApplyCommand, CommandTypes
    <2>2. JoinWorkers => stopped' \in [Queues -> BOOLEAN]
      BY Zenon DEF JoinWorkers
    <2> QED BY <1>0, <2>1, <2>2, StopFrame DEF CommandTypes, ResetDevice, DropBlock
  <1>5. slot' \in [Queues -> Commands] /\ pending' \in [Queues -> Commands]
    <2>1. ASSUME NEW kind \in {"install", "drain", "resume", "complete", "cancel"},
                 NEW g \in 0 .. MaxMirrors, Stage(kind, g)
          PROVE  slot' \in [Queues -> Commands] /\ pending' \in [Queues -> Commands]
      BY <1>2, <1>3, <2>1 DEF Stage
    <2>2. ASSUME NEW kind \in {"install", "drain", "resume", "complete", "cancel"},
                 NEW g \in 0 .. MaxMirrors, NEW live \in BOOLEAN, StageOver(kind, g, live)
          PROVE  slot' \in [Queues -> Commands] /\ pending' \in [Queues -> Commands]
      BY <1>1, <1>2, <1>3, <2>2 DEF StageOver
    <2>3. ASSUME NEW then, NEW giveUp, RevertQueues(then, giveUp)
          PROVE  slot' \in [Queues -> Commands] /\ pending' \in [Queues -> Commands]
      <3>1. CASE StageOver("cancel", 0, TRUE)
        <4>1. [kind |-> "cancel", mirror |-> 0, live |-> TRUE] \in Commands
          BY ConstantsAssumption DEF Commands
        <4> QED BY <1>1, <1>3, <3>1, <4>1 DEF StageOver
      <3>2. CASE /\ slot' = [q \in Queues |-> IF q \in Senders THEN NoCommand ELSE slot[q]]
                 /\ pending' = pending
        BY <1>0, <1>1, <3>2 DEF CommandTypes
      <3> QED BY <2>3, <3>1, <3>2 DEF RevertQueues
    <2>4. ASSUME NEW q \in Queues, Completion(q) \/ BlockCommand(q)
          PROVE  slot' \in [Queues -> Commands] /\ pending' \in [Queues -> Commands]
      BY <1>0, <1>1, <2>4 DEF Completion, BlockCommand, ApplyCommand, CommandTypes
    <2>5. JoinWorkers => slot' \in [Queues -> Commands] /\ pending' \in [Queues -> Commands]
      BY <1>1 DEF JoinWorkers
    <2>6. StartMirror => started' \in 0 .. MaxMirrors
      BY <1>0, ConstantsAssumption DEF StartMirror, ApiTypes
    <2> QED
      BY <1>0, <2>1, <2>2, <2>3, <2>4, <2>5, <2>6, CommandFrame
      DEF StartMirror, CompleteMirror, CancelMirror, Rollback, DrainFails, CompleteDrained, Switch,
          CancelDrained, ResetDevice, DropBlock, CommandTypes, ApiTypes, commandVars
  <1> QED BY <1>4, <1>5 DEF CommandTypes

\* Every step keeps CopyTypes.
LEMMA CopyTyped ==
    ASSUME TypeOK, CopyShape, Next
    PROVE  CopyTypes'
  <1>0. CopyTypes /\ ApiTypes /\ DiskTypes BY DEF TypeOK
  <1>1. NoCopy \in Copies /\ [NoCopy EXCEPT !.mirror = started, !.pc = "next"] \in Copies
    <2>1. /\ 0 \in 0 .. MaxMirrors /\ started \in 0 .. MaxMirrors
          /\ 1 \in 1 .. NBlocks + 1 /\ 0 \in Data
      BY <1>0, ConstantsAssumption, DataFacts DEF ApiTypes
    <2> QED BY <2>1 DEF NoCopy, Copies
  <1>2. ASSUME NEW v \in {"next", "lock", "read", "write", "flush", "finish", "done"}
        PROVE  [copy EXCEPT !.pc = v] \in Copies
    BY <1>0 DEF CopyTypes, Copies
  <1>3. CASE CopyNext \/ CopyLock \/ CopyFlush \/ CopyFinish
    BY <1>2, <1>3 DEF CopyNext, CopyLock, CopyFlush, CopyFinish, CopyTypes
  <1>4. CASE CopyRead
    <2>1. copy' = [copy EXCEPT !.pc = "write", !.buffer = src[copy.block]]
      BY <1>4 DEF CopyRead
    <2>2. copy.block \in Blocks
      BY <1>0, <1>4, ConstantsAssumption DEF CopyRead, CopyAt, CopyShape, CopyTypes, Copies, Blocks
    <2>3. src[copy.block] \in Data
      BY <1>0, <2>2 DEF DiskTypes
    <2> QED BY <1>0, <2>1, <2>3 DEF CopyTypes, Copies
  <1>5. CASE CopyWrite
    <2>1. copy' = [copy EXCEPT !.pc = "next", !.block = copy.block + 1, !.buffer = 0]
      BY <1>5 DEF CopyWrite
    <2>2. copy.block + 1 \in 1 .. NBlocks + 1
      BY <1>0, <1>5, ConstantsAssumption DEF CopyWrite, CopyAt, CopyShape, CopyTypes, Copies
    <2> QED BY <1>0, <2>1, <2>2, DataFacts DEF CopyTypes, Copies
  <1>6. CASE CopyFails
    BY <1>0, <1>6, DataFacts DEF CopyFails, CopyTypes, Copies
  <1>7. CASE InstallAcked \/ CompleteSwapped \/ CancelJoined \/ DropJoined
    BY <1>0, <1>1, <1>7 DEF InstallAcked, CompleteSwapped, CancelJoined, DropJoined, CopyTypes
  <1>8. CASE UNCHANGED copy
    BY <1>0, <1>8 DEF CopyTypes
  <1> QED BY <1>3, <1>4, <1>5, <1>6, <1>7, <1>8, CopyFrame

\* Every step keeps CountTypes.
LEMMA CountTyped ==
    ASSUME TypeOK, Next
    PROVE  CountTypes'
  <1>0. CountTypes BY DEF TypeOK
  <1>1. calls' \in 0 .. MaxCalls
    BY <1>0, CallsFrame, ConstantsAssumption DEF CompleteMirror, CancelMirror, CountTypes
  <1>2. faults' \in 0 .. MaxFaults
    <2>1. ASSUME NEW kind, Fault(kind) PROVE faults' \in 0 .. MaxFaults
      BY <1>0, <2>1, ConstantsAssumption DEF Fault, CountTypes
    <2>2. ASSUME NEW q \in Queues, NEW cmd, ApplyCommand(q, cmd) PROVE faults' \in 0 .. MaxFaults
      BY <1>0, <2>1, <2>2 DEF ApplyCommand, CountTypes
    <2>3. ASSUME NEW then, NEW giveUp, RevertQueues(then, giveUp) PROVE faults' \in 0 .. MaxFaults
      BY <1>0, <2>1, <2>3 DEF RevertQueues, CountTypes
    <2>4. ASSUME NEW q \in Queues,
                 SourceSubmitFails(q) \/ DestinationSubmitFails(q) \/ SourceIo(q) \/ DestinationIo(q)
          PROVE  faults' \in 0 .. MaxFaults
      BY <1>0, <2>1, <2>4
      DEF SourceSubmitFails, DestinationSubmitFails, SourceIo, DestinationIo, CountTypes
    <2>5. ASSUME NEW q \in Queues, Completion(q) \/ BlockCommand(q) PROVE faults' \in 0 .. MaxFaults
      BY <1>0, <2>2, <2>5 DEF Completion, BlockCommand, CountTypes
    <2>6. ASSUME NEW q \in Queues, NEW r \in Reqs, HostCompletes(q, r)
          PROVE  faults' \in 0 .. MaxFaults
      BY <1>0, <2>1, <2>6 DEF HostCompletes, CountTypes
    <2> QED
      BY <1>0, <2>1, <2>3, <2>4, <2>5, <2>6, FaultsFrame
      DEF CopyFails, InstallAcked, InstallFails, Rollback, RevertEnds, DrainFails, CompleteDrained,
          CompleteSwapFails, CancelDrained, CancelRevertFails, AckFails, CountTypes
  <1>3. crash' \in {"no", "transition", "switch-over"}
    <2>1. ASSUME NEW g, NEW to, TransitionToPhase(g, to)
          PROVE  crash' \in {"no", "transition", "switch-over"}
      BY <1>0, <2>1 DEF TransitionToPhase, CountTypes
    <2>2. ASSUME NEW q \in Queues, DestinationSubmitFails(q) \/ WaitForCompletions(q)
          PROVE  crash' \in {"no", "transition", "switch-over"}
      BY <1>0, <2>1, <2>2 DEF DestinationSubmitFails, WaitForCompletions, Fail, CountTypes
    <2> QED
      BY <1>0, <2>1, <2>2, CrashFrame
      DEF Rollback, Switch, CompleteSwapped, CompleteSwapFails, CancelDrained, DropBlock, CountTypes
  <1> QED BY <1>1, <1>2, <1>3 DEF CountTypes

\* Every step keeps HistoryTypes.
LEMMA HistoryTyped ==
    ASSUME TypeOK, JobShape, Next
    PROVE  HistoryTypes'
  <1>0. HistoryTypes /\ RequestTypes BY DEF TypeOK
  <1>1. finished' \in SUBSET Reqs
    <2>1. ASSUME NEW q \in Queues, SourceSubmitFails(q) PROVE finished' \in SUBSET Reqs
      <3>1. job[q].req \in Reqs
        BY <2>1 DEF SourceSubmitFails, At, JobShape
      <3> QED BY <1>0, <2>1, <3>1 DEF SourceSubmitFails, HistoryTypes
    <2>2. ASSUME NEW q \in Queues, Completion(q) PROVE finished' \in SUBSET Reqs
      BY <1>0, <2>2 DEF Completion, ProcessQueueComplete, HistoryTypes, RequestTypes
    <2>3. ASSUME JoinWorkers PROVE finished' \in SUBSET Reqs
      <3>1. UNION {inflight[q] : q \in Queues} \subseteq Reqs
        BY <1>0 DEF RequestTypes
      <3> QED BY <1>0, <2>3, <3>1 DEF JoinWorkers, HistoryTypes
    <2> QED BY <1>0, <2>1, <2>2, <2>3, FinishedFrame DEF HistoryTypes, ResetDevice, DropBlock
  <1>2. ASSUME NEW q \in Queues, Submit(q)
        PROVE  /\ over' \in [Reqs -> SUBSET Data]
               /\ legal' \in [Blocks -> SUBSET Data]
    <2>1. CASE avail[q] = <<>>
      BY <1>0, <1>2, <2>1 DEF Submit, HistoryTypes
    <2>2. CASE avail[q] # <<>>
      <3> DEFINE r == Head(avail[q])
                 b == target[r]
      <3>1. r \in Reqs /\ r \in Data
        BY <1>0, <2>2, DataFacts DEF RequestTypes
      <3>2. b \in Blocks
        BY <1>0, <3>1 DEF RequestTypes
      <3>3. /\ over' = [over EXCEPT ![r] = legal[b] \cap (finished \cup {0})]
            /\ legal' = [legal EXCEPT ![b] = @ \cup {r}]
        BY <1>2, <2>2 DEF Submit
      <3> HIDE DEF r, b
      <3> QED BY <1>0, <3>1, <3>2, <3>3 DEF HistoryTypes
    <2> QED BY <2>1, <2>2
  <1>3. ASSUME NEW q \in Queues, SourceSubmitFails(q) PROVE legal' \in [Blocks -> SUBSET Data]
    BY <1>0, <1>3 DEF SourceSubmitFails, HistoryTypes
  <1>4. ASSUME NEW q \in Queues, Completion(q) PROVE legal' \in [Blocks -> SUBSET Data]
    BY <1>0, <1>4 DEF Completion, ProcessQueueComplete, HistoryTypes
  <1> QED BY <1>0, <1>1, <1>2, <1>3, <1>4, OverFrame, LegalFrame DEF HistoryTypes
-----------------------------------------------------------------------------
(***************************************************************************)
(* Workers and commands.                                                   *)
(***************************************************************************)
\* A device without workers has nothing under way.
LEMMA InactiveStep ==
    ASSUME TypeOK, InactiveIsEmpty, Next
    PROVE  InactiveIsEmpty'
  <1>0. CommandTypes BY DEF TypeOK
  <1>1. CASE JoinWorkers
    BY <1>1 DEF JoinWorkers, AllIdle, InactiveIsEmpty, Quiet
  <1>2. CASE active'
    BY <1>2 DEF InactiveIsEmpty
  <1>3. CASE ~active /\ ~JoinWorkers
    <2>1. ASSUME NEW q \in Queues
          PROVE  /\ ~QueueAvail(q) /\ ~Submit(q) /\ ~LockRange(q) /\ ~SourceSubmitFails(q)
                 /\ ~DestinationSubmitFails(q) /\ ~WaitForCompletions(q) /\ ~SourceIo(q)
                 /\ ~DestinationIo(q) /\ ~Completion(q) /\ ~BlockCommand(q)
                 /\ \A r \in Reqs : ~HostCompletes(q, r)
                 /\ \A b \in Blocks : ~GuestWrite(q, b)
      <3>1. job[q].pc = "idle" /\ ~kick[q] /\ ~compEvt[q] /\ ~cmdEvt[q] /\ inflight[q] = {}
        BY <1>3 DEF InactiveIsEmpty
      <3>2. ~QueueAvail(q) /\ ~Completion(q) /\ ~BlockCommand(q)
        BY <3>1 DEF QueueAvail, Completion, BlockCommand
      <3>3. /\ ~Submit(q) /\ ~LockRange(q) /\ ~SourceSubmitFails(q) /\ ~SourceIo(q)
            /\ ~DestinationSubmitFails(q) /\ ~WaitForCompletions(q) /\ ~DestinationIo(q)
        BY <3>1
        DEF Submit, LockRange, SourceSubmitFails, DestinationSubmitFails, WaitForCompletions,
            SourceIo, DestinationIo, At
      <3>4. ASSUME NEW r \in Reqs PROVE ~HostCompletes(q, r)
        BY <3>1 DEF HostCompletes
      <3>5. ASSUME NEW b \in Blocks PROVE ~GuestWrite(q, b)
        BY <1>3 DEF GuestWrite
      <3> QED BY <3>2, <3>3, <3>4, <3>5
    <2>0. ~StartMirror /\ ~ResetDevice /\ ~DropBlock
      BY <1>3 DEF StartMirror, ResetDevice, DropBlock
    <2>2. UNCHANGED <<job, inflight, avail, kick, compEvt, stopped>>
      BY <2>1, <2>0, JobFrame, InflightFrame, AvailFrame, KickFrame, CompEvtFrame, StopFrame
    <2>3. ASSUME NEW kind, NEW g, NEW live, Staging(kind, g, live), NEW q \in Queues
          PROVE  Quiet(q)'
      BY <1>0, <1>3, <2>3, OrphanFacts DEF Staging, InactiveIsEmpty, Quiet, CommandTypes
    <2>4. ASSUME NEW q \in Queues PROVE Quiet(q)'
      <3>1. CASE UNCHANGED <<slot, pending>>
        BY <1>3, <3>1 DEF InactiveIsEmpty, Quiet
      <3> QED BY <1>0, <2>0, <2>1, <2>3, <3>1, CommandFrame, StagingSteps
    <2>5. ASSUME NEW q \in Queues PROVE ~cmdEvt'[q]
      <3>1. ASSUME NEW kind, NEW g, Stage(kind, g) PROVE ~cmdEvt'[q]
        BY <1>3, <3>1 DEF Stage, Senders, InactiveIsEmpty
      <3>2. ASSUME NEW kind, NEW g, NEW live, StageOver(kind, g, live) PROVE ~cmdEvt'[q]
        BY <1>3, <3>2 DEF StageOver, Senders, InactiveIsEmpty
      <3>3. CASE cmdEvt' = cmdEvt
        BY <1>3, <3>3 DEF InactiveIsEmpty
      <3> QED
        BY <2>0, <2>1, <3>1, <3>2, <3>3, CmdEvtFrame
        DEF CompleteMirror, CancelMirror, Rollback, DrainFails, CompleteDrained, Switch,
            CancelDrained, RevertQueues, commandVars
    <2> QED BY <1>3, <2>2, <2>4, <2>5 DEF InactiveIsEmpty
  <1> QED BY <1>1, <1>2, <1>3, ActiveFrame DEF ResetDevice, DropBlock, ActivateDevice

\* A worker that mirrors a request still has its mirror.
LEMMA JobStep ==
    ASSUME TypeOK, InactiveIsEmpty, JobShape, Next
    PROVE  JobShape'
  <1>0. JobTypes /\ BackendTypes /\ RequestTypes /\ CommandTypes BY DEF TypeOK
  <1>1. ASSUME NEW q \in Queues, QueueAvail(q) PROVE JobShape'
    BY <1>0, <1>1 DEF QueueAvail, SubmitOrDefer, JobShape, JobTypes, Jobs, At
  <1>2. ASSUME NEW q \in Queues, Submit(q) PROVE JobShape'
    <2>1. CASE avail[q] = <<>>
      BY <1>0, <1>2, <2>1 DEF Submit, IdleJob, JobShape, JobTypes, Jobs
    <2>2. CASE avail[q] # <<>> /\ Mirroring(q)
      <3> DEFINE r == Head(avail[q])
      <3>1. r \in Reqs
        BY <1>0, <2>2 DEF RequestTypes
      <3>2. job' = [job EXCEPT ![q].pc = "lock", ![q].req = r] /\ backend' = backend
        BY <1>2, <2>2 DEF Submit
      <3> HIDE DEF r
      <3> QED BY <1>0, <2>2, <3>1, <3>2 DEF JobShape, JobTypes, Jobs, Mirroring
    <2>3. CASE avail[q] # <<>> /\ ~Mirroring(q)
      BY <1>2, <2>3 DEF Submit, JobShape
    <2> QED BY <2>1, <2>2, <2>3
  <1>3. ASSUME NEW q \in Queues, LockRange(q) PROVE JobShape'
    BY <1>0, <1>3 DEF LockRange, At, JobShape, JobTypes, Jobs
  <1>4. ASSUME NEW q \in Queues, SourceSubmitFails(q) PROVE JobShape'
    BY <1>0, <1>4 DEF SourceSubmitFails, IdleJob, JobShape, JobTypes, Jobs
  <1>5. ASSUME NEW q \in Queues, DestinationSubmitFails(q) PROVE JobShape'
    BY <1>0, <1>5 DEF DestinationSubmitFails, At, Fail, JobShape, JobTypes, Jobs, BackendTypes,
        Backends
  <1>6. ASSUME NEW q \in Queues, WaitForCompletions(q) PROVE JobShape'
    BY <1>0, <1>6 DEF WaitForCompletions, IdleJob, Fail, JobShape, JobTypes, Jobs, BackendTypes,
        Backends
  <1>7. ASSUME NEW q \in Queues, Completion(q) \/ BlockCommand(q) PROVE JobShape'
    <2>1. Handles(q)
      BY <1>0, <1>7, HandlesSteps
    <2> QED BY <2>1 DEF Handles, JobShape
  <1>8. ASSUME NEW q \in Queues, SourceIo(q) PROVE JobShape'
    <2>1. job[q].pc = "io" /\ backend' = backend
      BY <1>8 DEF SourceIo, At
    <2>2. PICK v \in {"ok", "error"} : job' = [job EXCEPT ![q].sio = v]
      BY <1>8 DEF SourceIo
    <2> QED BY <1>0, <2>1, <2>2 DEF JobShape, JobTypes, Jobs
  <1>9. ASSUME NEW q \in Queues, DestinationIo(q) PROVE JobShape'
    <2>1. job[q].pc = "io" /\ backend' = backend
      BY <1>9 DEF DestinationIo, At
    <2>2. PICK v \in {"ok", "error"} : job' = [job EXCEPT ![q].dio = v]
      BY <1>9 DEF DestinationIo
    <2> QED BY <1>0, <2>1, <2>2 DEF JobShape, JobTypes, Jobs
  <1>10. CASE ActivateDevice
    BY <1>10 DEF ActivateDevice, InactiveIsEmpty, JobShape
  <1>11. CASE UNCHANGED <<job, backend>>
    BY <1>11 DEF JobShape
  <1> QED
    BY <1>1, <1>2, <1>3, <1>4, <1>5, <1>6, <1>7, <1>8, <1>9, <1>10, <1>11, JobFrame, BackendFrame

\* A queue stalls only when it has drained.
LEMMA StallStep ==
    ASSUME TypeOK, StallShape, CommandShape, Next
    PROVE  StallShape'
  <1>0. JobTypes /\ BackendTypes /\ RequestTypes /\ CommandTypes BY DEF TypeOK
  <1>1. ASSUME NEW q \in Queues, QueueAvail(q) PROVE StallShape'
    BY <1>0, <1>1 DEF QueueAvail, SubmitOrDefer, Deferred, StallShape, JobTypes, Jobs, commandVars,
        requestVars
  <1>2. ASSUME NEW q \in Queues, Submit(q) PROVE StallShape'
    <2>1. job[q].pc = "submit" /\ UNCHANGED <<stopped, pending>>
      BY <1>2 DEF Submit, At, commandVars
    <2>2. \A p \in Queues \ {q} : job'[p] = job[p] /\ inflight'[p] = inflight[p]
      BY <1>0, <1>2 DEF Submit, JobTypes, RequestTypes
    <2> QED BY <2>1, <2>2 DEF StallShape
  <1>3. ASSUME NEW q \in Queues,
               LockRange(q) \/ SourceSubmitFails(q) \/ DestinationSubmitFails(q) \/ WaitForCompletions(q)
                 \/ SourceIo(q) \/ DestinationIo(q)
        PROVE StallShape'
    <2>1. job[q].pc \in {"lock", "io"} /\ UNCHANGED <<stopped, pending>>
      BY <1>3
      DEF LockRange, SourceSubmitFails, DestinationSubmitFails, WaitForCompletions, SourceIo,
          DestinationIo, At, commandVars
    <2>2. \A p \in Queues \ {q} : job'[p] = job[p] /\ inflight'[p] = inflight[p]
      BY <1>0, <1>3
      DEF LockRange, SourceSubmitFails, DestinationSubmitFails, WaitForCompletions, SourceIo,
          DestinationIo, requestVars, JobTypes, RequestTypes
    <2> QED BY <2>1, <2>2 DEF StallShape
  <1>4. ASSUME NEW q \in Queues, Completion(q) \/ BlockCommand(q) PROVE StallShape'
    <2>1. Handles(q)
      BY <1>0, <1>4, HandlesSteps
    <2> QED BY <2>1 DEF Handles, Defers, Applies, AfterCommand, StallShape
  <1>5. ASSUME NEW kind, NEW g, NEW live, Staging(kind, g, live), UNCHANGED <<job, stopped,
               inflight>>
        PROVE  StallShape'
    <2>1. ASSUME NEW q \in Queues, pending'[q] # NoCommand PROVE pending[q] # NoCommand
      BY <1>0, <1>5, <2>1, OrphanFacts DEF Staging, CommandTypes
    <2> QED BY <1>5, <2>1 DEF StallShape
  <1>6. CASE JoinWorkers
    BY <1>6 DEF JoinWorkers, AllIdle, StallShape
  <1>7. CASE UNCHANGED <<job, inflight, pending, stopped>>
    BY <1>7 DEF StallShape
  <1> QED
    BY <1>0, <1>1, <1>2, <1>3, <1>4, <1>5, <1>6, <1>7, JobFrame, InflightFrame, CommandFrame,
       StopFrame, StagingSteps
    DEF ResetDevice, DropBlock

\* A queue bypasses the destination only of a mirror that failed.
LEMMA BackendStep ==
    ASSUME TypeOK, JobShape, BackendShape, CommandShape, PhaseShape, CallShape, CopyShape, Next
    PROVE  BackendShape'
  <1>0. BackendTypes /\ PhaseTypes /\ ApiTypes /\ CommandTypes /\ JobTypes /\ RequestTypes
    BY DEF TypeOK
  <1>1. ASSUME NEW q \in Queues, DestinationSubmitFails(q) \/ WaitForCompletions(q)
        PROVE  BackendShape'
    <2>1. Fails(q)
      BY <1>0, <1>1, FailsSteps
    <2>2. started' = started
      BY <1>1 DEF DestinationSubmitFails, WaitForCompletions, blockVars
    <2>3. backend[q].mirror \in Mirrors /\ backend[q].kind = "mirror"
      BY <1>0, <2>1, ConstantsAssumption DEF Fails, JobShape, BackendShape, BackendTypes, Backends,
          Mirrors
    <2>4. /\ \A g \in Mirrors : phase'[g] \in Alive => phase[g] \in Alive
          /\ backend'[q].bypass => phase'[backend[q].mirror] \notin Alive
      BY <1>0, <2>1, <2>3 DEF Fails, BackendShape, PhaseTypes, Alive
    <2>5. ASSUME NEW p \in Queues, backend[p].kind # "source" PROVE backend[p].mirror \in Mirrors
      BY <1>0, <2>5, ConstantsAssumption DEF BackendShape, BackendTypes, Backends, Mirrors
    <2> QED BY <2>1, <2>2, <2>3, <2>4, <2>5 DEF Fails, BackendShape
  <1>2. ASSUME NEW q \in Queues, Completion(q) \/ BlockCommand(q) PROVE BackendShape'
    <2>1. Handles(q)
      BY <1>0, <1>2, HandlesSteps
    <2>2. UNCHANGED <<started, phase, disk>>
      BY <1>2 DEF Completion, BlockCommand, blockVars, stateVars
    <2>3. ASSUME NEW cmd, CommandOK(cmd), Applies(q, cmd) PROVE BackendShape'
      BY <1>0, <2>1, <2>2, <2>3, NewBackends
      DEF Applies, Handles, Swaps, CommandOK, BackendShape, CallShape, ApiTypes
    <2>4. CASE Defers(q)
      BY <2>1, <2>2, <2>4 DEF Defers, Handles, BackendShape
    <2> QED BY <2>1, <2>3, <2>4 DEF Handles, CommandShape
  <1>3. CASE ActivateDevice
    BY <1>0, <1>3, NewBackends DEF ActivateDevice, QueueBackend, BackendShape, CallShape, ApiTypes,
        stateVars
  <1>4. CASE StartMirror
    BY <1>0, <1>4, ConstantsAssumption
    DEF StartMirror, notApi, BackendShape, ApiTypes, PhaseTypes, BackendTypes, Backends, Mirrors
  <1>5. ASSUME UNCHANGED <<backend, started>>,
               \A g \in Mirrors : phase'[g] \in Alive => phase[g] \in Alive
        PROVE  BackendShape'
    BY <1>0, <1>5, ConstantsAssumption DEF BackendShape, BackendTypes, Backends, Mirrors
  <1>6. CASE CopyFails \/ CopyFinish
    BY <1>0, <1>5, <1>6 DEF CopyFails, CopyFinish, FinishCopy, Allowed, notCopy, blockVars, Alive,
        PhaseTypes
  <1>7. CASE Rollback \/ Switch \/ CompleteSwapped \/ CancelDrained \/ DropBlock
    BY <1>0, <1>5, <1>7
    DEF Rollback, Switch, CompleteSwapped, CancelDrained, DropBlock, TransitionToPhase, notApi,
        blockVars, Alive, PhaseTypes
  <1>8. CASE UNCHANGED <<backend, started, phase>>
    BY <1>8 DEF BackendShape
  <1> QED
    BY <1>1, <1>2, <1>3, <1>4, <1>6, <1>7, <1>8, BackendFrame, StartedFrame, PhaseFrame

\* A mirroring backend leaves no write pending on the host.
LEMMA MirroredStep ==
    ASSUME TypeOK, InactiveIsEmpty, JobShape, MirroredShape, RequestsAreDistinct, Next
    PROVE  MirroredShape'
  <1>0. BackendTypes /\ ApiTypes /\ CommandTypes /\ JobTypes /\ RequestTypes
    BY DEF TypeOK
  <1>1. ASSUME NEW q \in Queues, Submit(q) PROVE MirroredShape'
    <2>1. CASE avail[q] = <<>> \/ Mirroring(q)
      BY <1>1, <2>1 DEF Submit, MirroredShape
    <2>2. CASE avail[q] # <<>> /\ ~Mirroring(q)
      <3> DEFINE r == Head(avail[q])
      <3>1. r \in Reqs
        BY <1>0, <2>2 DEF RequestTypes
      <3>2. /\ inflight' = [inflight EXCEPT ![q] = @ \cup {r}] /\ backend' = backend
            /\ result' = [result EXCEPT ![r] = "pending"]
        BY <1>1, <2>2 DEF Submit
      <3>3. 1 \in DOMAIN avail[q] /\ r = avail[q][1]
        BY <1>0, <2>2 DEF RequestTypes
      <3> HIDE DEF r
      <3>4. \A p \in Queues : r \notin inflight[p]
        BY <3>3 DEF RequestsAreDistinct, Held
      <3> QED BY <1>0, <2>2, <3>1, <3>2, <3>4 DEF MirroredShape, RequestTypes, Mirroring
    <2> QED BY <2>1, <2>2
  <1>2. ASSUME NEW q \in Queues, DestinationSubmitFails(q) PROVE MirroredShape'
    <2>1. Fails(q)
      BY <1>0, <1>2, FailsSteps
    <2>2. UNCHANGED <<inflight, result>>
      BY <1>2 DEF DestinationSubmitFails, requestVars
    <2> QED BY <2>1, <2>2 DEF Fails, MirroredShape
  <1>3. ASSUME NEW q \in Queues, WaitForCompletions(q) PROVE MirroredShape'
    <2>1. Fails(q)
      BY <1>0, <1>3, FailsSteps
    <2>2. /\ inflight' = [inflight EXCEPT ![q] = @ \cup {job[q].req}]
          /\ result' = [result EXCEPT ![job[q].req] = job[q].sio] /\ job[q].sio # "pending"
      BY <1>3 DEF WaitForCompletions
    <2>3. job[q].req \in Reqs
      BY <2>1 DEF Fails, JobShape
    <2>4. /\ \A r \in Reqs : result'[r] = "pending" => result[r] = "pending" /\ r # job[q].req
          /\ \A p \in Queues : inflight'[p] \subseteq inflight[p] \cup {job[q].req}
          /\ \A p \in Queues : inflight'[p] \subseteq Reqs
      BY <1>0, <2>2, <2>3 DEF RequestTypes
    <2>5. \A p \in Queues : /\ backend'[p].kind = backend[p].kind
                            /\ backend[p].bypass => backend'[p].bypass
      BY <2>1 DEF Fails
    <2>6. SUFFICES ASSUME NEW p \in Queues, backend'[p].kind = "mirror", ~backend'[p].bypass,
                          NEW r \in inflight'[p]
                   PROVE  result'[r] # "pending"
      BY DEF MirroredShape
    <2>7. \A s \in inflight[p] : result[s] # "pending"
      BY <2>5, <2>6 DEF MirroredShape
    <2> QED BY <2>4, <2>6, <2>7
  <1>4. ASSUME NEW q \in Queues, Completion(q) \/ BlockCommand(q) PROVE MirroredShape'
    <2>1. Handles(q)
      BY <1>0, <1>4, HandlesSteps
    <2>2. result' = result
      BY <1>4 DEF Completion, BlockCommand, ProcessQueueComplete, requestVars
    <2> QED BY <2>1, <2>2 DEF Handles, Defers, Applies, MirroredShape
  <1>5. ASSUME NEW q \in Queues, NEW r \in Reqs, HostCompletes(q, r) PROVE MirroredShape'
    BY <1>0, <1>5 DEF HostCompletes, MirroredShape, RequestTypes
  <1>6. CASE ActivateDevice
    BY <1>6 DEF ActivateDevice, InactiveIsEmpty, MirroredShape, requestVars
  <1>7. CASE JoinWorkers /\ backend' = backend
    BY <1>7 DEF JoinWorkers, MirroredShape
  <1>8. CASE UNCHANGED <<backend, inflight, result>>
    BY <1>8 DEF MirroredShape
  <1> QED
    BY <1>1, <1>2, <1>3, <1>4, <1>5, <1>6, <1>7, <1>8, BackendFrame, InflightFrame, ResultFrame
    DEF ResetDevice, DropBlock

\* Commands stay meaningful: a complete is never left behind by its call.
LEMMA CommandStep ==
    ASSUME TypeOK, InactiveIsEmpty, CommandShape, PhaseShape, CallShape, Acknowledged, Switching,
           BackendShape, JobShape,
           CopyShape, AliveIsMirrored, Next
    PROVE  CommandShape'
  <1>0. BackendTypes /\ PhaseTypes /\ ApiTypes /\ CommandTypes /\ JobTypes /\ RequestTypes /\ CopyTypes
    BY DEF TypeOK
  <1>1. ASSUME NEW q \in Queues, Completion(q) \/ BlockCommand(q) PROVE CommandShape'
    <2>1. Handles(q)
      BY <1>0, <1>1, HandlesSteps
    <2>2. UNCHANGED <<started, phase, api, handle>>
      BY <1>1 DEF Completion, BlockCommand, blockVars, stateVars
    <2>3. ASSUME NEW c, CommandOK(c) PROVE CommandOK(c)'
      BY <2>2, <2>3 DEF CommandOK
    <2>4. CommandOK(NoCommand)'
      BY DEF CommandOK, NoCommand
    <2>5. ~NoCommand.live
      BY DEF NoCommand
    <2> QED BY <2>1, <2>3, <2>4, <2>5 DEF Handles, Defers, Applies, CommandShape
  <1>2. ASSUME NEW c \in Commands, CommandOK(c), c.kind # "complete", started <= started',
               c.kind = "install" => phase'[c.mirror] \in {"Running", "Failed"}
        PROVE  CommandOK(c)' /\ CommandOK(Orphan(c))'
    <2>1. started \in Nat /\ started' \in Nat
      BY <1>0, StartedFrame, ConstantsAssumption DEF ApiTypes, StartMirror
    <2>2. CommandOK(c)'
      BY <1>2, <2>1 DEF CommandOK, Commands
    <2>3. /\ Orphan(c).kind = c.kind /\ Orphan(c).mirror = c.mirror
          /\ c = NoCommand => Orphan(c) = NoCommand
      BY OrphanFacts
    <2> QED BY <1>2, <2>2, <2>3 DEF CommandOK
  <1>3. ASSUME NEW kind, NEW g, NEW live, Staging(kind, g, live), started <= started',
               CommandOK([kind |-> kind, mirror |-> g, live |-> live])',
               \A q \in Queues : \A c \in {slot[q], pending[q]} :
                  /\ c.kind # "complete"
                  /\ c.kind = "install" => phase'[c.mirror] \in {"Running", "Failed"}
        PROVE CommandShape'
    <2>1. ASSUME NEW q \in Queues
          PROVE  /\ CommandOK(slot[q])' /\ CommandOK(pending[q])'
                 /\ pending'[q].live => slot'[q] = NoCommand
      <3>1. /\ slot[q] \in Commands /\ pending[q] \in Commands
            /\ CommandOK(slot[q]) /\ CommandOK(pending[q])
            /\ pending[q].live => slot[q] = NoCommand
        BY <1>0 DEF CommandTypes, CommandShape
      <3>2. \A c \in {slot[q], pending[q]} :
               CommandOK(c)' /\ CommandOK(Orphan(c))' /\ ~Orphan(c).live
        BY <1>2, <1>3, <3>1, OrphanFacts
      <3>3. CommandOK(NoCommand)'
        BY DEF CommandOK, NoCommand
      <3> QED BY <1>3, <3>1, <3>2, <3>3 DEF Staging
    <2> QED BY <2>1 DEF CommandShape
  <1>4. ASSUME NEW q \in Queues, NEW c \in {slot[q], pending[q]}
        PROVE  /\ c.kind = "complete" => api = "completeSwap"
               /\ c.kind = "install" => c.mirror \in Mirrors /\ c.mirror <= started
                                        /\ phase[c.mirror] \in {"Running", "Failed"}
               /\ ~active => c = NoCommand
    <2>1. CommandOK(c)
      BY <1>4 DEF CommandShape
    <2>2. ~active => c = NoCommand
      BY <1>4 DEF InactiveIsEmpty, Quiet
    <2> QED BY <1>0, <2>1, <2>2, ConstantsAssumption DEF CommandOK, ApiTypes, Mirrors
  <1>5. ASSUME NEW q \in Queues, NEW c \in {slot[q], pending[q]}, c.kind = "install",
               ~CopyFinish, ~CancelDrained, ~DropBlock
        PROVE  phase'[c.mirror] \in {"Running", "Failed"}
    BY <1>0, <1>4, <1>5, PhaseEffects DEF Alive
  <1>6. started <= started'
    BY <1>0, StartedFrame, ConstantsAssumption DEF ApiTypes, StartMirror
  <1>7. ASSUME NEW kind, NEW g, NEW live, Staging(kind, g, live), api # "completeSwap",
               ~CopyFinish, ~CancelDrained, ~DropBlock,
               CommandOK([kind |-> kind, mirror |-> g, live |-> live])'
        PROVE  CommandShape'
    <2>1. \A q \in Queues : \A c \in {slot[q], pending[q]} :
             /\ c.kind # "complete"
             /\ c.kind = "install" => phase'[c.mirror] \in {"Running", "Failed"}
      BY <1>4, <1>5, <1>7
    <2> QED BY <1>3, <1>6, <1>7, <2>1
  <1>8. CASE StartMirror
    <2>1. started' \in Mirrors /\ phase'[started'] = "Running"
      BY <1>0, <1>8, ConstantsAssumption DEF StartMirror, ApiTypes, PhaseTypes, Mirrors
    <2> PICK g : g = started'
      OBVIOUS
    <2>2. CommandOK([kind |-> "install", mirror |-> g, live |-> TRUE])'
      BY <2>1, ConstantsAssumption DEF CommandOK, Mirrors
    <2>3. ~CopyFinish /\ ~CancelDrained /\ ~DropBlock /\ api # "completeSwap"
      BY <1>8 DEF StartMirror, CopyFinish, CancelDrained, DropBlock, ApiAt, notApi, notCopy
    <2> QED BY <1>0, <1>7, <1>8, <2>2, <2>3, StagingSteps
  <1>9. CASE CompleteMirror \/ CancelMirror \/ DrainFails \/ Rollback \/ CompleteDrained
    <2>1. \A g : /\ CommandOK([kind |-> "drain", mirror |-> g, live |-> TRUE])'
                 /\ CommandOK([kind |-> "resume", mirror |-> g, live |-> FALSE])'
                 /\ CommandOK([kind |-> "cancel", mirror |-> g, live |-> TRUE])'
      BY DEF CommandOK
    <2>2. ~CopyFinish /\ ~CancelDrained /\ ~DropBlock /\ api # "completeSwap"
      BY <1>9
      DEF CompleteMirror, CancelMirror, DrainFails, Rollback, CompleteDrained, RevertQueues,
          CopyFinish, CancelDrained, DropBlock, ApiAt, notCopy, blockVars, AckFails, AllAcked
    <2> QED BY <1>0, <1>7, <1>9, <2>1, <2>2, StagingSteps
  <1>10. CASE Switch
    <2>1. handle' = handle /\ started' = started /\ api' = "completeSwap"
      BY <1>10 DEF Switch, blockVars
    <2> PICK g : g = handle
      OBVIOUS
    <2>2. CommandOK([kind |-> "complete", mirror |-> g, live |-> TRUE])'
      BY <1>0, <1>10, <2>1, ConstantsAssumption DEF CommandOK, CallShape, ApiTypes, Switch, ApiAt
    <2>3. ~CopyFinish /\ ~CancelDrained /\ ~DropBlock /\ api # "completeSwap"
      BY <1>10 DEF Switch, CopyFinish, CancelDrained, DropBlock, ApiAt, notCopy
    <2> QED BY <1>0, <1>7, <1>10, <2>2, <2>3, StagingSteps
  <1>11. CASE CancelDrained
    <2>1. \A q \in Queues : Quiet(q)
      BY <1>11 DEF CancelDrained, ApiAt, AllAcked, Acknowledged, Senders, Done, InactiveIsEmpty
    <2>2. \A q \in Queues : \A c \in {slot[q], pending[q]} : c.kind = "none"
      BY <2>1 DEF Quiet, NoCommand
    <2>3. CommandOK([kind |-> "cancel", mirror |-> 0, live |-> TRUE])'
      BY DEF CommandOK
    <2> QED BY <1>0, <1>3, <1>6, <1>11, <2>2, <2>3, StagingSteps
  <1>12. CASE JoinWorkers
    BY <1>12 DEF JoinWorkers, CommandShape, CommandOK, NoCommand
  <1>13. CASE CopyFinish
    <2>1. UNCHANGED <<slot, pending, api, handle, started>>
      BY <1>13 DEF CopyFinish, notCopy, commandVars, blockVars
    <2>2. ASSUME NEW q \in Queues, NEW c \in {slot[q], pending[q]}, c.kind = "install"
          PROVE  phase'[c.mirror] = phase[c.mirror]
      <3>1. CASE phase[copy.mirror] # "Running"
        BY <1>0, <1>13, <3>1 DEF CopyFinish, FinishCopy, Allowed, PhaseTypes
      <3>2. CASE phase[copy.mirror] = "Running"
        <4>1. copy.mirror = handle /\ handle # 0
          BY <1>13, <3>2 DEF CopyShape, CallShape, CopyFinish, CopyAt
        <4> QED BY <1>4, <2>2, <3>2, <4>1 DEF AliveIsMirrored, Alive, NoCommand
      <3> QED BY <3>1, <3>2
    <2>3. ASSUME NEW c, CommandOK(c), c.kind = "install" => phase'[c.mirror] = phase[c.mirror]
          PROVE  CommandOK(c)'
      BY <2>1, <2>3 DEF CommandOK
    <2> QED BY <2>1, <2>2, <2>3 DEF CommandShape
  <1>14. CASE CompleteSwapped
    <2>1. \A q \in Queues : Quiet(q)
      BY <1>14 DEF CompleteSwapped, ApiAt, AllAcked, Acknowledged, Senders, Done, InactiveIsEmpty
    <2> QED BY <1>14, <2>1 DEF CompleteSwapped, commandVars, Quiet, CommandShape, CommandOK,
        NoCommand
  <1>15. ASSUME UNCHANGED <<slot, pending, started>>, ~CopyFinish, ~CancelDrained, ~DropBlock,
                UNCHANGED <<api, handle>> \/ api # "completeSwap"
         PROVE  CommandShape'
    <2>1. ASSUME NEW q \in Queues, NEW c \in {slot[q], pending[q]} PROVE CommandOK(c)'
      BY <1>4, <1>5, <1>15, <2>1 DEF CommandOK, CommandShape
    <2> QED BY <1>15, <2>1 DEF CommandShape
  <1>16. UNCHANGED <<api, handle>> \/ api # "completeSwap" \/ CompleteSwapped
    BY ApiFrame, HandleFrame
    DEF StartMirror, CompleteMirror, CancelMirror, InstallAcked, InstallFails, Rollback, RevertEnds,
        DrainFails, CompleteDrained, Switch, CancelDrained, CancelRevertFails, CancelReverted,
        CancelJoined, DropJoined, DropBlock, ApiAt
  <1> QED
    BY <1>1, <1>8, <1>9, <1>10, <1>11, <1>12, <1>13, <1>14, <1>15, <1>16, CommandFrame, StartedFrame
    DEF ResetDevice, DropBlock

\* A mirror leaves Running and Ready only with its owner's knowledge.
LEMMA PhaseStep ==
    ASSUME TypeOK, PhaseShape, CallShape, CopyShape, Next
    PROVE  PhaseShape'
  <1>0. PhaseTypes /\ ApiTypes BY DEF TypeOK
  <1>1. CASE UNCHANGED <<started, handle, api, disk>> /\ ~DropBlock
    <2>1. ASSUME NEW g \in Mirrors, phase'[g] # phase[g]
          PROVE  phase[g] \in Alive /\ (phase'[g] = "Failed" \/ (phase'[g] = "Ready" /\ handle = g))
      <3>1. phase[g] = "Running" /\ g = copy.mirror => handle = g
        BY DEF CallShape, CopyShape
      <3> QED
        BY <1>1, <2>1, <3>1, PhaseEffects
        DEF StartMirror, Switch, CompleteSwapped, CancelDrained, RevertQueues, ApiAt, Alive
    <2> QED BY <1>1, <2>1 DEF PhaseShape, Alive
  <1>2. CASE StartMirror
    <2>1. started' \in Mirrors /\ started' = started + 1 /\ started \in Nat
      BY <1>0, <1>2, ConstantsAssumption DEF StartMirror, ApiTypes, Mirrors
    <2>2. phase' = [phase EXCEPT ![started'] = "Running"] /\ UNCHANGED <<handle, disk>>
          /\ api = "idle" /\ api' = "install"
      BY <1>2 DEF StartMirror, ApiAt
    <2> QED BY <1>0, <2>1, <2>2 DEF PhaseShape, PhaseTypes, Mirrors
  <1>3. CASE InstallAcked
    <2>1. /\ api = "install" /\ UNCHANGED <<phase, started, disk>>
          /\ (handle' = started /\ api' = "idle") \/ (handle' = handle /\ api' = "rollback")
      BY <1>3 DEF InstallAcked, ApiAt
    <2>2. \A g \in Mirrors : g # 0
      BY DEF Mirrors
    <2> QED BY <2>1, <2>2 DEF PhaseShape, CallShape
  <1>7. CASE CancelReverted \/ DropJoined
    <2>1. /\ api \in {"cancelRevert", "dropJoin"} /\ UNCHANGED <<phase, started, disk>>
          /\ handle' = 0 /\ api' \in {"cancelJoin", "dropped"}
      BY <1>7 DEF CancelReverted, DropJoined, ApiAt
    <2>2. \A g \in Mirrors : g # 0
      BY DEF Mirrors
    <2> QED BY <2>1, <2>2 DEF PhaseShape, CallShape
  <1>4. CASE Rollback \/ Switch \/ CancelDrained
    <2>1. /\ UNCHANGED <<handle, started, disk>> /\ api \in {"rollback", "switch", "cancelDrain"}
          /\ api' = "completeSwap" <=> api = "switch"
          /\ api' \notin {"install", "rollback"}
      BY <1>4 DEF Rollback, Switch, CancelDrained, RevertQueues, blockVars, ApiAt
    <2>2. CASE Rollback
      <3>1. phase' = [phase EXCEPT ![started] = "Failed"]
        BY <2>2 DEF Rollback, TransitionToPhase, Allowed, CallShape, ApiAt
      <3> QED BY <1>0, <2>1, <3>1 DEF PhaseShape, CallShape, PhaseTypes, Mirrors
    <2>3. CASE Switch
      <3>1. phase' = [phase EXCEPT ![handle] = "Completing"] /\ api' = "completeSwap"
        BY <2>3 DEF Switch, TransitionToPhase, Allowed, CallShape, ApiAt
      <3> QED BY <1>0, <2>1, <3>1 DEF PhaseShape, CallShape, PhaseTypes, Mirrors
    <2>4. CASE CancelDrained
      <3>1. phase' = [phase EXCEPT ![handle] = "Cancelling"] /\ api = "cancelDrain"
        BY <2>4 DEF CancelDrained, TransitionToPhase, Allowed, CallShape, ApiAt
      <3> QED BY <1>0, <2>1, <3>1 DEF PhaseShape, CallShape, PhaseTypes, Mirrors
    <2> QED BY <1>4, <2>2, <2>3, <2>4
  <1>8. CASE CompleteSwapped
    <2>1. /\ phase' = [phase EXCEPT ![handle] = "Completed"] /\ handle' = 0 /\ api = "completeSwap"
          /\ api' = "idle" /\ started' = started /\ disk = 0 /\ disk' = handle
      BY <1>8 DEF CompleteSwapped, CompletedDisk, TransitionToPhase, Allowed, CallShape, ApiAt
    <2>2. \A g \in Mirrors : g # 0
      BY DEF Mirrors
    <2> QED BY <1>0, <2>1, <2>2 DEF PhaseShape, CallShape, PhaseTypes
  <1>5. CASE DropBlock
    BY <1>0, <1>5 DEF DropBlock, TransitionToPhase, Allowed, ApiAt, PhaseShape, PhaseTypes,
        ApiTypes, Mirrors
  <1>6. CASE InstallFails \/ RevertEnds \/ CompleteMirror \/ CancelMirror \/ DrainFails \/ CompleteDrained
             \/ CancelRevertFails \/ CancelJoined
    BY <1>0, <1>6
    DEF InstallFails, RevertEnds, CompleteMirror, CancelMirror, DrainFails, CompleteDrained,
        RevertQueues,
        CancelRevertFails, CancelJoined, blockVars, ApiAt, PhaseShape
  <1> QED BY <1>1, <1>2, <1>3, <1>4, <1>5, <1>6, <1>7, <1>8, StartedFrame, HandleFrame, ApiFrame,
      DiskImageFrame

\* A call finds the phase it checked before it waited, or Failed.
LEMMA CallStep ==
    ASSUME TypeOK, InactiveIsEmpty, StallShape, PhaseShape, CallShape, CopyShape, Switching, Next
    PROVE  CallShape'
  <1>0. PhaseTypes /\ ApiTypes /\ CopyTypes BY DEF TypeOK
  <1>1. \A g \in 1 .. started : g \in Mirrors
    BY <1>0, ConstantsAssumption DEF ApiTypes, Mirrors
  <1>2. CASE UNCHANGED <<started, handle, api, disk, active>> /\ copy'.mirror = copy.mirror
    <2>1. ASSUME NEW g \in Mirrors, phase'[g] # phase[g]
          PROVE  \/ phase'[g] = "Failed" /\ phase[g] \in Alive
                 \/ phase'[g] = "Ready" /\ phase[g] = "Running" /\ copy.mirror = g
      BY <1>2, <2>1, PhaseEffects
      DEF StartMirror, Switch, CompleteSwapped, CancelDrained, DropBlock, RevertQueues, ApiAt, Alive
    <2>2. CASE api = "switch"
      <3>1. \A q \in Queues : job[q].pc = "idle"
        BY <2>2 DEF Switching, StallShape, InactiveIsEmpty
      <3>2. copy.pc = "done"
        BY <2>2 DEF CallShape, CopyShape
      <3>3. phase'[handle] = phase[handle]
        BY <1>0, <1>1, <1>2, <2>2, <3>1, <3>2, PhaseEffects
        DEF CallShape, ApiTypes, StartMirror, Switch, CompleteSwapped, CancelDrained, DropBlock,
            ApiAt,
            DestinationSubmitFails, WaitForCompletions, At, CopyFails, CopyFinish, CopyAt, Rollback
      <3> QED BY <1>2, <2>2, <3>3 DEF CallShape
    <2>3. CASE api # "switch"
      <3>1. ASSUME handle # 0
            PROVE  /\ phase[handle] \in {"Cancelling", "Completing"} => phase'[handle] = phase[handle]
                   /\ phase[handle] \in {"Ready", "Failed"} => phase'[handle] \in {"Ready", "Failed"}
                   /\ phase[handle] = "Running" => phase'[handle] \in {"Running", "Ready", "Failed"}
        BY <1>0, <1>1, <2>1, <3>1 DEF CallShape, ApiTypes, Alive
      <3>2. ASSUME api \in {"install", "rollback"} PROVE phase'[started] \in {"Running", "Failed"}
        BY <1>0, <1>1, <2>1, <3>2 DEF CallShape, CopyShape, ApiTypes, Alive
      <3>3. ASSUME api = "cancelJoin" PROVE phase'[copy.mirror] = "Cancelling"
        BY <1>0, <1>1, <2>1, <3>3, ConstantsAssumption
        DEF CallShape, CopyShape, ApiTypes, Alive, CopyTypes, Copies
      <3>4. ASSUME disk # 0 PROVE phase'[disk] = "Completed"
        BY <1>0, <1>1, <2>1, <3>4 DEF CallShape, ApiTypes, Alive
      <3> QED BY <1>2, <2>3, <3>1, <3>2, <3>3, <3>4 DEF CallShape
    <2> QED BY <2>2, <2>3
  <1>3. CASE StartMirror
    <2>1. started' \in Mirrors /\ started' = started + 1 /\ started \in Nat
      BY <1>0, <1>3, ConstantsAssumption DEF StartMirror, ApiTypes, Mirrors
    <2>2. /\ phase' = [phase EXCEPT ![started'] = "Running"] /\ api' = "install"
          /\ handle = 0 /\ disk = 0 /\ UNCHANGED <<handle, disk>>
      BY <1>3 DEF StartMirror
    <2> QED BY <1>0, <2>1, <2>2 DEF CallShape, PhaseTypes, Mirrors
  <1>4. CASE InstallAcked \/ InstallFails \/ RevertEnds
    <2>1. /\ api \in {"install", "revert"} /\ UNCHANGED <<phase, started, disk, active>>
          /\ \/ handle' = started /\ api' = "idle" /\ api = "install"
             \/ handle' = handle /\ api' = "rollback" /\ api = "install"
             \/ handle' = handle /\ api' = "idle"
      BY <1>4 DEF InstallAcked, InstallFails, RevertEnds, ApiAt, blockVars
    <2> QED BY <1>0, <2>1 DEF CallShape, ApiTypes
  <1>14. CASE CompleteMirror \/ CancelMirror \/ DrainFails
    <2>1. /\ handle # 0 /\ UNCHANGED <<phase, handle, started, disk, active>>
          /\ \/ api' = "completeDrain" /\ phase[handle] = "Ready"
             \/ api' = "cancelDrain" /\ phase[handle] \in {"Running", "Ready", "Failed", "Cancelling"}
             \/ api' = "idle"
      BY <1>14 DEF CompleteMirror, CancelMirror, DrainFails, ApiAt, blockVars, CallShape
    <2> QED BY <1>0, <2>1 DEF CallShape, ApiTypes
  <1>5. CASE CompleteDrained \/ CancelRevertFails \/ CancelReverted
    <2>1. UNCHANGED <<phase, started, disk, active, copy>>
      BY <1>5 DEF CompleteDrained, CancelRevertFails, CancelReverted, blockVars
    <2>2. /\ api \in {"completeDrain", "cancelRevert"}
          /\ \/ handle' = handle /\ api' \in {"idle", "revert"}
             \/ handle' = handle /\ api = "completeDrain" /\ phase[handle] # "Failed" /\ api' = "switch"
             \/ handle' = 0 /\ api = "cancelRevert" /\ api' = "cancelJoin"
      BY <1>5 DEF CompleteDrained, CancelRevertFails, CancelReverted, RevertQueues, blockVars, ApiAt
    <2> QED BY <1>0, <2>1, <2>2 DEF CallShape, CopyShape, ApiTypes
  <1>6. CASE CancelJoined \/ DropJoined
    BY <1>0, <1>6 DEF CancelJoined, DropJoined, CallShape, ApiTypes, ApiAt, blockVars
  <1>7. CASE Rollback
    <2>1. /\ api = "rollback" /\ api' \in {"revert", "idle"} /\ handle = 0
          /\ UNCHANGED <<handle, started, disk, active>>
      BY <1>7 DEF Rollback, RevertQueues, blockVars, ApiAt, CallShape
    <2> QED BY <2>1 DEF CallShape
  <1>8. CASE Switch
    <2>1. /\ api' = "completeSwap" /\ phase' = [phase EXCEPT ![handle] = "Completing"] /\ handle # 0
          /\ UNCHANGED <<handle, started, disk, active>> /\ disk = 0
      BY <1>8 DEF Switch, TransitionToPhase, Allowed, blockVars, ApiAt, CallShape
    <2> QED BY <1>0, <1>1, <2>1 DEF CallShape, PhaseTypes, ApiTypes
  <1>9. CASE CompleteSwapped
    <2>1. /\ api' = "idle" /\ phase' = [phase EXCEPT ![handle] = "Completed"] /\ handle # 0
          /\ handle' = 0 /\ disk' = handle /\ started' = started
      BY <1>9 DEF CompleteSwapped, CompletedDisk, TransitionToPhase, Allowed, ApiAt, CallShape
    <2> QED BY <1>0, <1>1, <2>1, ConstantsAssumption DEF CallShape, PhaseTypes, ApiTypes
  <1>10. CASE CancelDrained
    <2>1. /\ api' \in {"idle", "cancelRevert"} /\ phase' = [phase EXCEPT ![handle] = "Cancelling"]
          /\ handle # 0 /\ UNCHANGED <<handle, started, disk, active>> /\ disk = 0
      BY <1>10 DEF CancelDrained, RevertQueues, TransitionToPhase, Allowed, blockVars, ApiAt,
          CallShape
    <2> QED BY <1>0, <1>1, <2>1 DEF CallShape, PhaseTypes, ApiTypes
  <1>11. CASE DropBlock
    <2>1. /\ api = "idle" /\ api' = (IF handle # 0 THEN "dropJoin" ELSE "dropped") /\ active' = FALSE
          /\ UNCHANGED <<handle, started, disk>>
      BY <1>11 DEF DropBlock, ApiAt
    <2>2. CASE handle # 0
      <3>1. handle \in Mirrors /\ phase[handle] \in {"Running", "Ready", "Failed", "Cancelling"}
        BY <1>0, <1>1, <2>1, <2>2 DEF CallShape, ApiTypes, PhaseShape, PhaseTypes, Phases, Mirrors
      <3>2. phase'[handle] = "Cancelling"
        BY <1>0, <1>11, <2>2, <3>1 DEF DropBlock, TransitionToPhase, Allowed, PhaseTypes
      <3> QED BY <2>1, <2>2, <3>2 DEF CallShape
    <2>3. CASE handle = 0
      <3>1. phase' = phase
        BY <1>11, <2>3 DEF DropBlock
      <3> QED BY <2>1, <2>3, <3>1 DEF CallShape
    <2> QED BY <2>2, <2>3
  <1>12. CASE ResetDevice \/ ActivateDevice
    BY <1>12 DEF ResetDevice, ActivateDevice, stateVars, ApiAt, CallShape
  <1>13. \/ copy'.mirror = copy.mirror
         \/ InstallAcked \/ CompleteSwapped \/ CancelJoined \/ DropJoined
    BY <1>0, CopyFrame
    DEF CopyNext, CopyLock, CopyRead, CopyWrite, CopyFails, CopyFlush, CopyFinish, CopyTypes, Copies
  <1> QED
    BY <1>2, <1>3, <1>4, <1>5, <1>6, <1>7, <1>8, <1>9, <1>10, <1>11, <1>12, <1>13, <1>14,
        StartedFrame, HandleFrame,
       ApiFrame, DiskImageFrame, ActiveFrame

\* The copy worker stops when its mirror leaves Running.
LEMMA CopyStep ==
    ASSUME TypeOK, PhaseShape, CallShape, CopyShape, Next
    PROVE  CopyShape'
  <1>0. PhaseTypes /\ ApiTypes /\ CopyTypes BY DEF TypeOK
  <1>1. copy.mirror # 0 => copy.mirror \in Mirrors
    BY <1>0, ConstantsAssumption DEF CopyTypes, Copies, Mirrors
  <1>2. CASE CopyNext \/ CopyLock \/ CopyRead \/ CopyFlush
    <2>1. UNCHANGED <<phase, api, handle, started>>
      BY <1>2 DEF CopyNext, CopyLock, CopyRead, CopyFlush, notCopy, blockVars, stateVars
    <2>2. copy'.mirror = copy.mirror /\ copy'.block = copy.block
      BY <1>0, <1>2 DEF CopyNext, CopyLock, CopyRead, CopyFlush, CopyTypes, Copies
    <2>3. \/ copy.pc = "next" /\ copy'.pc = "flush" /\ copy.block > NBlocks
          \/ copy.pc = "next" /\ copy'.pc = "finish" /\ phase[copy.mirror] # "Running"
          \/ copy.pc = "next" /\ copy'.pc = "lock" /\ ~(copy.block > NBlocks)
          \/ copy.pc = "lock" /\ copy'.pc = "read"
          \/ copy.pc = "read" /\ copy'.pc = "write"
          \/ copy.pc = "flush" /\ copy'.pc = "finish"
      BY <1>0, <1>2 DEF CopyNext, CopyLock, CopyRead, CopyFlush, CopyAt, CopyTypes, Copies
    <2> QED BY <1>0, <2>1, <2>2, <2>3, ConstantsAssumption DEF CopyShape, CopyTypes, Copies
  <1>3. CASE CopyWrite
    <2>1. /\ UNCHANGED <<phase, api, handle, started>> /\ copy.pc = "write"
          /\ copy' = [copy EXCEPT !.pc = "next", !.block = @ + 1, !.buffer = 0]
      BY <1>3 DEF CopyWrite, CopyAt, notCopy, blockVars
    <2> QED BY <1>0, <2>1 DEF CopyShape, CopyTypes, Copies
  <1>4. CASE CopyFails \/ CopyFinish
    <2>1. UNCHANGED <<api, handle, started>> /\ copy.pc \in {"read", "write", "flush", "finish"}
      BY <1>4 DEF CopyFails, CopyFinish, CopyAt, notCopy, blockVars
    <2>2. /\ copy'.mirror = copy.mirror /\ copy'.pc = "done" /\ copy'.block = copy.block
      BY <1>0, <1>4 DEF CopyFails, CopyFinish, CopyTypes, Copies
    <2>3. /\ copy.mirror \in Mirrors /\ phase'[copy.mirror] # "Running"
          /\ phase'[copy.mirror] \in {"Ready", "Completing"} => copy.block > NBlocks
      BY <1>0, <1>1, <1>4, <2>1 DEF CopyFails, CopyFinish, FinishCopy, Allowed, CopyShape,
          PhaseTypes, CopyAt
    <2> QED BY <2>1, <2>2, <2>3 DEF CopyShape
  <1>5. CASE InstallAcked
    <2>1. /\ api = "install" /\ UNCHANGED <<phase, started>> /\ started # 0 /\ phase[started] \in {"Running", "Failed"}
          /\ \/ UNCHANGED <<copy, handle>>
             \/ handle' = started /\ copy'.mirror = started /\ copy'.pc = "next"
          /\ api' # "cancelJoin"
      BY <1>5 DEF InstallAcked, ApiAt, CallShape, NoCopy
    <2> QED BY <1>0, <2>1 DEF CopyShape, ApiTypes
  <1>6. CASE CompleteSwapped \/ CancelJoined \/ DropJoined
    <2>1. copy' = NoCopy /\ handle' = 0 /\ started' = started
      BY <1>6 DEF CompleteSwapped, CancelJoined, DropJoined, CallShape, ApiAt, blockVars
    <2> QED BY <1>0, <2>1 DEF CopyShape, NoCopy, ApiTypes
  <1>7. CASE copy' = copy /\ ~CopyFails /\ ~CopyFinish /\ ~CompleteSwapped
             /\ ~InstallAcked /\ ~CancelJoined /\ ~DropJoined
    <2>1. copy.mirror <= started'
      BY <1>0, StartedFrame DEF CopyShape, StartMirror, ApiTypes, CopyTypes, Copies
    <2>2. api' # "cancelJoin" => copy.mirror = handle'
      BY <1>7, ApiFrame, HandleFrame
      DEF CopyShape, StartMirror, CompleteMirror, CancelMirror, InstallAcked, InstallFails,
          Rollback, RevertEnds,
          DrainFails, CompleteDrained, Switch, CancelDrained, CancelRevertFails, CancelReverted,
              CancelJoined,
          DropJoined, DropBlock, blockVars, ApiAt
    <2>3. ASSUME copy.mirror # 0
          PROVE  /\ phase[copy.mirror] # "Running" => phase'[copy.mirror] # "Running"
                 /\ phase'[copy.mirror] \in {"Ready", "Completing"} => phase[copy.mirror] \in {"Ready", "Completing"}
      BY <1>0, <1>1, <1>7, <2>3, PhaseEffects DEF Alive, CopyShape, StartMirror, ApiAt, ApiTypes
    <2>4. copy.mirror = 0 => copy.pc = "none"
      BY DEF CopyShape
    <2> QED BY <1>7, <2>1, <2>2, <2>3, <2>4 DEF CopyShape
  <1> QED BY <1>2, <1>3, <1>4, <1>5, <1>6, <1>7, CopyFrame
-----------------------------------------------------------------------------
(***************************************************************************)
(* The protocol between the API thread and the workers.                    *)
(***************************************************************************)
\* A mirror that is alive is on every queue, and no command takes it off.
LEMMA AliveStep ==
    ASSUME TypeOK, InactiveIsEmpty, JobShape, BackendShape, CommandShape, PhaseShape, CallShape,
           CopyShape,
           Acknowledged, AliveIsMirrored, Next
    PROVE  AliveIsMirrored'
  <1>0. PhaseTypes /\ ApiTypes /\ CommandTypes /\ BackendTypes /\ JobTypes /\ RequestTypes BY DEF TypeOK
  <1>1. SUFFICES ASSUME handle' # 0, phase'[handle'] \in Alive, active', NEW q \in Queues
                 PROVE  /\ backend'[q] = MirrorBackend(handle')
                        /\ slot'[q].kind \in {"none", "drain", "resume"}
                        /\ pending'[q].kind \in {"none", "drain", "resume"}
    BY DEF AliveIsMirrored
  <1>2. NoCommand.kind = "none"
    BY DEF NoCommand
  <1>3. CASE handle' # handle
    <2>1. InstallAcked
      BY <1>1, <1>3, HandleFrame DEF CompleteSwapped, CancelReverted, DropJoined
    <2>2. /\ api = "install" /\ AllAcked /\ handle' = started
          /\ UNCHANGED <<active, slot, pending, backend, phase>>
      BY <1>3, <2>1 DEF InstallAcked, ApiAt, Installed, commandVars, notApi
    <2>3. Quiet(q) /\ backend[q].kind = "mirror" /\ backend[q].mirror = started
      BY <1>1, <2>2 DEF AllAcked, Acknowledged, Senders, Done
    <2>4. ~backend[q].bypass
      BY <1>1, <2>2, <2>3 DEF BackendShape
    <2>5. backend[q] = MirrorBackend(started)
      BY <1>0, <2>3, <2>4, Zenon DEF MirrorBackend, BackendTypes, Backends
    <2> QED BY <1>2, <2>2, <2>3, <2>5 DEF Quiet
  <1>4. CASE handle' = handle
    <2>1. handle \in Mirrors
      BY <1>0, <1>1, <1>4 DEF ApiTypes, Mirrors
    <2>2. phase[handle] \in Alive /\ ~StartMirror /\ ~CancelDrained /\ ~Switch /\ ~Rollback
      <3>1. ~StartMirror /\ ~Rollback
        BY <1>1, <1>4 DEF StartMirror, Rollback, CallShape, ApiAt
      <3>2. ~CancelDrained /\ ~Switch
        BY <1>0, <1>1, <1>4, <2>1
        DEF CancelDrained, Switch, TransitionToPhase, Allowed, CallShape, ApiAt, PhaseTypes, Alive
      <3> QED BY <1>1, <1>4, <2>1, <3>1, <3>2, PhaseEffects DEF Alive
    <2>3. CASE ~active
      <3>1. ActivateDevice
        BY <1>1, <2>3, ActiveFrame DEF ResetDevice, DropBlock
      <3>2. Quiet(q)
        BY <2>3 DEF InactiveIsEmpty
      <3> QED
        BY <1>1, <1>2, <1>4, <2>2, <3>1, <3>2
        DEF ActivateDevice, QueueBackend, MirrorBackend, commandVars, Quiet, Alive
    <2>4. CASE active
      <3>0. \A p \in Queues : /\ backend[p] = MirrorBackend(handle)
                              /\ slot[p].kind \in {"none", "drain", "resume"}
                              /\ pending[p].kind \in {"none", "drain", "resume"}
        BY <1>1, <1>4, <2>2, <2>4 DEF AliveIsMirrored
      <3>1. ASSUME NEW p \in Queues, DestinationSubmitFails(p) \/ WaitForCompletions(p)
            PROVE  backend'[q] = backend[q] /\ UNCHANGED <<slot, pending>>
        <4>1. Fails(p) /\ backend[p].mirror = handle
          BY <1>0, <3>0, <3>1, FailsSteps, NewBackends
        <4>2. UNCHANGED <<slot, pending>>
          BY <3>1 DEF DestinationSubmitFails, WaitForCompletions, commandVars
        <4> QED BY <1>0, <1>1, <1>4, <2>1, <2>2, <4>1, <4>2 DEF Fails, Alive, PhaseTypes
      <3>2. ASSUME NEW p \in Queues, Completion(p) \/ BlockCommand(p)
            PROVE  /\ backend'[q] = backend[q]
                   /\ slot'[q] \in {slot[q], NoCommand} /\ pending'[q] \in {slot[q], pending[q], NoCommand}
        <4>1. Handles(p)
          BY <1>0, <3>2, HandlesSteps
        <4> QED BY <3>0, <4>1 DEF Handles, Defers, Applies, Swaps
      <3>3. ASSUME CompleteMirror \/ CancelMirror \/ DrainFails \/ CompleteDrained
            PROVE  /\ backend'[q] = backend[q]
                   /\ slot'[q].kind \in {"none", "drain", "resume"}
                   /\ pending'[q].kind \in {"none", "drain", "resume"}
        <4>1. backend' = backend
          BY <3>3 DEF CompleteMirror, CancelMirror, DrainFails, CompleteDrained, notApi
        <4>2. CASE CompleteDrained
          <5>1. UNCHANGED <<slot, pending>>
            BY <2>2, <4>2 DEF CompleteDrained, commandVars, Alive
          <5> QED BY <3>0, <4>1, <5>1
        <4>3. CASE CompleteMirror \/ CancelMirror \/ DrainFails
          <5>1. Staging("drain", handle, TRUE) \/ Staging("resume", handle, FALSE)
            BY <1>0, <4>3, StagingSteps
          <5>2. slot[q] \in Commands /\ pending[q] \in Commands
            BY <1>0 DEF CommandTypes
          <5>3. Orphan(slot[q]).kind = slot[q].kind /\ Orphan(pending[q]).kind = pending[q].kind
            BY <5>2, OrphanFacts
          <5>4. CASE Staging("drain", handle, TRUE)
            BY <1>2, <3>0, <4>1, <5>3, <5>4 DEF Staging
          <5>5. CASE Staging("resume", handle, FALSE)
            BY <1>2, <3>0, <4>1, <5>3, <5>5 DEF Staging
          <5> QED BY <5>1, <5>4, <5>5
        <4> QED BY <3>3, <4>2, <4>3
      <3>4. ~ResetDevice /\ ~DropBlock /\ ~ActivateDevice
        BY <1>1, <2>4 DEF ResetDevice, DropBlock, ActivateDevice
      <3>5. CASE UNCHANGED <<slot, pending, backend>>
        BY <1>4, <3>0, <3>5
      <3>6. MirrorBackend(handle') = MirrorBackend(handle)
        BY <1>4
      <3> QED BY <1>2, <2>2, <3>0, <3>1, <3>2, <3>3, <3>4, <3>5, <3>6, CommandFrame, BackendFrame
    <2> QED BY <2>3, <2>4
  <1> QED BY <1>3, <1>4

\* An acknowledged command was carried out and stays so while the call waits.
LEMMA AckStep ==
    ASSUME TypeOK, InactiveIsEmpty, JobShape, CommandShape, Acknowledged, Next
    PROVE  Acknowledged'
  <1>0. ApiTypes /\ CommandTypes /\ BackendTypes /\ JobTypes /\ RequestTypes BY DEF TypeOK
  <1>1. ~NoCommand.live
    BY DEF NoCommand
  <1>2. ASSUME NEW q \in Queues PROVE ~Orphan(slot[q]).live /\ ~Orphan(pending[q]).live
    BY <1>0, OrphanFacts DEF CommandTypes
  <1>3. ASSUME NEW kind, NEW g, Stage(kind, g) \/ StageOver(kind, g, TRUE)
        PROVE  /\ acks' = {}
               /\ \A q \in Queues : ~pending'[q].live /\ (slot'[q].live => slot'[q].kind = kind /\ slot'[q].mirror = g)
    BY <1>1, <1>2, <1>3 DEF Stage, StageOver
  <1>4. CASE StartMirror \/ CompleteMirror \/ CancelMirror \/ Switch
    BY <1>3, <1>4 DEF StartMirror, CompleteMirror, CancelMirror, Switch, Acknowledged, Awaited
  <1>5. CASE Rollback \/ CancelDrained \/ (CompleteDrained /\ phase[handle] = "Failed")
    BY <1>3, <1>5 DEF Rollback, CancelDrained, CompleteDrained, RevertQueues, Acknowledged, Awaited
  <1>6. CASE api' \notin {"install", "completeDrain", "completeSwap", "cancelDrain", "cancelRevert", "revert"}
    BY <1>6 DEF Acknowledged
  <1>7. CASE UNCHANGED <<acks, active, slot, pending, api, handle, started, disk, stopped>>
             /\ \E q \in Queues : DestinationSubmitFails(q) \/ WaitForCompletions(q)
    <2>1. PICK q \in Queues : DestinationSubmitFails(q) \/ WaitForCompletions(q)
      BY <1>7
    <2>2. Fails(q)
      BY <1>0, <2>1, FailsSteps
    <2>3. backend[q].kind = "mirror"
      BY <2>2 DEF Fails, JobShape
    <2>4. ASSUME NEW p \in Queues, Done(p) PROVE Done(p)'
      BY <1>7, <2>2, <2>3, <2>4, NewBackends DEF Fails, Done, Quiet
    <2>5. acks \subseteq Queues
      BY <1>0 DEF ApiTypes
    <2> QED BY <1>7, <2>4, <2>5 DEF Acknowledged, Senders, Awaited
  <1>8. ASSUME NEW q \in Queues, Completion(q) \/ BlockCommand(q) PROVE Acknowledged'
    <2>1. Handles(q)
      BY <1>0, <1>8, HandlesSteps
    <2>2. UNCHANGED <<active, api, handle, started, disk>>
      BY <1>8 DEF Completion, BlockCommand, blockVars
    <2>3. SUFFICES ASSUME api \in {"install", "completeDrain", "completeSwap", "cancelDrain", "cancelRevert", "revert"}
                   PROVE  Acknowledged'
      BY <1>6, <2>2
    <2>4. /\ acks \subseteq Senders /\ \A p \in acks : Done(p)
          /\ \A p \in Queues : Awaited(slot[p]) /\ Awaited(pending[p])
      BY <2>3 DEF Acknowledged
    <2>5. \A p \in Queues : Awaited(slot[p])' /\ Awaited(pending[p])'
      BY <1>1, <2>1, <2>2, <2>4 DEF Handles, Defers, Applies, Awaited
    <2>6. acks \subseteq Queues
      BY <1>0 DEF ApiTypes
    <2>7. ASSUME NEW p \in acks, p # q PROVE Done(p)'
      BY <2>1, <2>2, <2>4, <2>6, <2>7 DEF Handles, Done, Quiet
    <2>8. CASE Defers(q)
      <3>1. q \in acks => Done(q)'
        BY <2>2, <2>4, <2>8 DEF Defers, Done, Quiet
      <3>2. acks' = acks
        BY <2>8 DEF Defers
      <3> QED BY <2>2, <2>4, <2>5, <2>7, <3>1, <3>2 DEF Acknowledged, Senders
    <2>9. ASSUME NEW cmd, cmd \in {slot[q], pending[q]}, Applies(q, cmd) PROVE Acknowledged'
      <3>1. q \notin acks
        BY <2>4, <2>9 DEF Applies, Done, Quiet
      <3>2. active
        BY <2>9 DEF Applies, InactiveIsEmpty, Quiet
      <3>3. CASE acks' = acks
        BY <2>2, <2>4, <2>5, <2>7, <3>1, <3>3 DEF Acknowledged, Senders
      <3>4. CASE acks' = acks \cup {q} /\ cmd.live
        <4>1. Quiet(q)'
          BY <2>9, <3>4 DEF Applies, Quiet, CommandShape
        <4>2. Awaited(cmd) /\ CommandOK(cmd)
          BY <2>4, <2>9 DEF CommandShape
        <4>3. ASSUME api \in {"completeDrain", "cancelDrain"} PROVE Done(q)'
          BY <2>2, <2>9, <3>4, <4>1, <4>2, <4>3 DEF Applies, Awaited, Done
        <4>4. ASSUME api \in {"install", "completeSwap", "cancelRevert", "revert"},
                     backend'[q] = NewBackend(cmd)
              PROVE  Done(q)'
          BY <2>2, <2>9, <3>4, <4>1, <4>2, <4>4, NewBackends DEF Applies, Awaited, CommandOK, Done,
              PlainBackend
        <4>5. Done(q)'
          BY <2>3, <2>9, <3>1, <3>4, <4>2, <4>3, <4>4 DEF Applies, Awaited, Swaps
        <4> QED BY <2>2, <2>4, <2>5, <2>7, <3>2, <3>4, <4>5 DEF Acknowledged, Senders
      <3> QED BY <2>9, <3>3, <3>4 DEF Applies
    <2> QED BY <2>1, <2>8, <2>9 DEF Handles
  <1>9. CASE UNCHANGED <<acks, active, slot, pending, api, handle, started, disk, stopped, backend>>
    BY <1>9 DEF Acknowledged, Senders, Awaited, Done, Quiet
  <1>10. \/ UNCHANGED <<acks, active, slot, pending, api, handle, started, disk, stopped>>
         \/ \E q \in Queues : Completion(q) \/ BlockCommand(q)
         \/ StartMirror \/ CompleteMirror \/ CancelMirror \/ Switch
         \/ Rollback \/ CancelDrained \/ (CompleteDrained /\ phase[handle] = "Failed")
         \/ api' \notin {"install", "completeDrain", "completeSwap", "cancelDrain", "cancelRevert", "revert"}
    BY AckFrame, ActiveFrame, CommandFrame, ApiFrame, HandleFrame, StartedFrame, DiskImageFrame,
        StopFrame
    DEF InstallAcked, InstallFails, RevertEnds, DrainFails, CompleteDrained, CompleteSwapped,
        CancelRevertFails,
        CancelReverted, CancelJoined, DropJoined, DropBlock, ResetDevice, ActivateDevice, ApiAt
  <1> QED
    BY <1>4, <1>5, <1>6, <1>7, <1>8, <1>9, <1>10, BackendFrame DEF ActivateDevice, ApiAt

\* The queues are switched over only while all of them are stalled.
LEMMA SwitchStep ==
    ASSUME TypeOK, InactiveIsEmpty, JobShape, StallShape, CommandShape, CallShape, Acknowledged,
           Switching, Next
    PROVE  Switching'
  <1>0. ApiTypes /\ CommandTypes /\ BackendTypes /\ JobTypes /\ RequestTypes BY DEF TypeOK
  <1>1. NoCommand.kind = "none" /\ Orphan(NoCommand) = NoCommand
    <2>0. 0 \in 0 .. MaxMirrors
      BY ConstantsAssumption
    <2>1. NoCommand \in Commands
      BY <2>0 DEF NoCommand, Commands
    <2> QED BY <2>1, OrphanFacts DEF NoCommand
  <1>2. ASSUME NEW q \in Queues, Completion(q) \/ BlockCommand(q) PROVE Switching'
    <2>1. Handles(q)
      BY <1>0, <1>2, HandlesSteps
    <2>2. UNCHANGED <<active, api, handle, disk>>
      BY <1>2 DEF Completion, BlockCommand, blockVars
    <2>3. CASE Defers(q)
      BY <2>1, <2>2, <2>3 DEF Handles, Defers, Switching, StallShape, Quiet
    <2>4. ASSUME NEW cmd, cmd \in {slot[q], pending[q]}, Applies(q, cmd) PROVE Switching'
      <3>1. active /\ ~Quiet(q) /\ CommandOK(cmd)
        BY <2>4 DEF Applies, InactiveIsEmpty, Quiet, CommandShape
      <3>2. disk = 0 /\ api # "switch"
        BY <3>1 DEF Switching
      <3>3. /\ acks \subseteq acks'
            /\ backend'[q].kind = "destination" =>
                 backend[q].kind = "destination" \/ (api = "completeSwap" /\ q \in acks')
        BY <2>4, <3>1, <3>2, NewBackends DEF Applies, Swaps, CommandOK
      <3>4. api = "completeSwap" => /\ pending'[q] = NoCommand
                                    /\ slot'[q] # NoCommand => stopped'[q] /\ slot'[q].kind = "complete"
        BY <1>1, <2>4, <3>1 DEF Applies, Switching
      <3> QED BY <2>1, <2>2, <3>1, <3>2, <3>3, <3>4 DEF Handles, Switching
    <2> QED BY <2>1, <2>3, <2>4 DEF Handles
  <1>3. ASSUME NEW q \in Queues, DestinationSubmitFails(q) \/ WaitForCompletions(q) PROVE Switching'
    <2>1. Fails(q) /\ UNCHANGED <<active, api, handle, disk, slot, pending, stopped, acks>>
      BY <1>0, <1>3, FailsSteps DEF DestinationSubmitFails, WaitForCompletions, blockVars, ackVars,
          commandVars
    <2>2. backend[q].kind = "mirror" /\ active
      BY <2>1 DEF Fails, JobShape, InactiveIsEmpty
    <2>3. disk = 0
      BY <2>2, NewBackends DEF Switching
    <2> QED BY <2>1, <2>2, <2>3 DEF Fails, Switching, Quiet
  <1>4. CASE ActivateDevice
    <2>1. /\ api = "idle" /\ api' = "idle" /\ UNCHANGED <<slot, pending, stopped, disk>>
          /\ \A q \in Queues : Quiet(q) /\ ~stopped[q]
      BY <1>4 DEF ActivateDevice, ApiAt, commandVars, InactiveIsEmpty
    <2>2. \A q \in Queues : /\ backend'[q].kind = "destination" => disk # 0
                            /\ disk # 0 => backend'[q] = DestinationBackend(disk)
      BY <1>4, NewBackends DEF ActivateDevice, QueueBackend, PlainBackend, CallShape
    <2> QED BY <2>1, <2>2 DEF Switching, Quiet
  <1>5. CASE JoinWorkers /\ active' = FALSE /\ UNCHANGED <<disk, backend>> /\ api = "idle"
    BY <1>5, NewBackends DEF Switching
  <1>6. CASE CompleteDrained /\ phase[handle] # "Failed"
    <2>1. /\ api = "completeDrain" /\ AllAcked /\ api' = "switch"
          /\ UNCHANGED <<active, disk, slot, pending, stopped, backend>>
      BY <1>6 DEF CompleteDrained, ApiAt, blockVars, commandVars, notApi
    <2>2. active => \A q \in Queues : Quiet(q) /\ stopped[q]
      BY <2>1 DEF Acknowledged, AllAcked, Senders, Done
    <2> QED BY <2>1, <2>2 DEF Switching, CallShape, Quiet
  <1>7. CASE Switch
    <2>1. /\ api = "switch" /\ Stage("complete", handle) /\ api' = "completeSwap"
          /\ UNCHANGED <<active, disk, stopped, backend>> /\ disk = 0
      BY <1>7 DEF Switch, ApiAt, blockVars, notApi, CallShape
    <2>2. ASSUME active, NEW q \in Queues
          PROVE  stopped[q] /\ slot[q] = NoCommand /\ pending[q] = NoCommand
      BY <2>1, <2>2 DEF Switching, Quiet
    <2>3. ASSUME active, NEW q \in Queues
          PROVE  /\ pending'[q] = NoCommand
                 /\ slot'[q] # NoCommand => slot'[q].kind = "complete"
      BY <1>1, <2>1, <2>2, <2>3 DEF Stage
    <2> QED BY <2>1, <2>2, <2>3 DEF Switching
  <1>8. CASE CompleteSwapped
    <2>1. /\ api = "completeSwap" /\ AllAcked /\ api' = "idle" /\ disk' = handle
          /\ UNCHANGED <<active, slot, pending, stopped, backend>> /\ handle # 0
      BY <1>8 DEF CompleteSwapped, CompletedDisk, ApiAt, commandVars, notApi, CallShape
    <2>2. active => \A q \in Queues : Quiet(q) /\ ~stopped[q] /\ backend[q] = DestinationBackend(handle)
      BY <2>1 DEF Acknowledged, AllAcked, Senders, Done
    <2> QED BY <2>1, <2>2 DEF Switching, Quiet
  <1>9. ASSUME UNCHANGED <<active, disk, stopped, backend>>, disk = 0, api \notin {"switch",
               "completeSwap"},
               api' \notin {"switch", "completeSwap"}
        PROVE  Switching'
    BY <1>9 DEF Switching
  <1>10. CASE StartMirror \/ CompleteMirror \/ CancelMirror \/ Rollback \/ DrainFails \/ CancelDrained
              \/ (CompleteDrained /\ phase[handle] = "Failed")
    BY <1>9, <1>10
    DEF StartMirror, CompleteMirror, CancelMirror, Rollback, DrainFails, CancelDrained,
        CompleteDrained, RevertQueues,
        ApiAt, CallShape, blockVars, notApi
  <1>11. CASE UNCHANGED <<active, disk, stopped, backend, slot, pending, acks>>
              /\ (UNCHANGED api \/ {api, api'} \cap {"switch", "completeSwap"} = {})
    BY <1>11 DEF Switching, Quiet
  <1>12. \/ UNCHANGED api \/ {api, api'} \cap {"switch", "completeSwap"} = {}
         \/ CompleteDrained \/ Switch \/ CompleteSwapped
    BY ApiFrame
    DEF StartMirror, CompleteMirror, CancelMirror, InstallAcked, InstallFails, Rollback,
        RevertEnds, DrainFails,
        RevertQueues, CancelDrained, CancelRevertFails, CancelReverted, CancelJoined, DropJoined,
            DropBlock, ApiAt
  <1>13. ResetDevice \/ DropBlock => JoinWorkers /\ active' = FALSE /\ UNCHANGED <<disk, backend>> /\ api = "idle"
    BY DEF ResetDevice, DropBlock, ApiAt
  <1> QED
    BY <1>2, <1>3, <1>4, <1>5, <1>6, <1>7, <1>8, <1>10, <1>11, <1>12, <1>13, ActiveFrame,
        DiskImageFrame, StopFrame,
       BackendFrame, CommandFrame, AckFrame

\* A queue that has not switched over is still stalled.
LEMMA NoneLeftStep ==
    ASSUME TypeOK, InactiveIsEmpty, StallShape, CommandShape, Acknowledged, Switching, NoneLeft,
           Next
    PROVE  NoneLeft'
  <1>0. ApiTypes /\ CommandTypes /\ BackendTypes /\ JobTypes /\ RequestTypes BY DEF TypeOK
  <1>1. SUFFICES ASSUME "complete" \notin Faults, api' = "completeSwap", active'
                 PROVE  \A q \in Queues \ acks' : stopped'[q] /\ slot'[q] # NoCommand
    BY DEF NoneLeft
  <1>2. CASE Switch
    <2>1. /\ api = "switch" /\ Stage("complete", handle) /\ UNCHANGED <<active, stopped>>
      BY <1>2 DEF Switch, ApiAt, blockVars, notApi
    <2>2. \A q \in Queues : stopped[q] /\ slot[q] = NoCommand
      BY <1>1, <2>1 DEF Switching, Quiet
    <2>3. \A q \in Queues : slot'[q].kind = "complete"
      BY <1>1, <2>1, <2>2 DEF Stage, Senders
    <2> QED BY <2>1, <2>2, <2>3 DEF NoCommand
  <1>3. CASE ~Switch
    <2>1. api = "completeSwap" /\ active
      BY <1>1, <1>3, ApiFrame, ActiveFrame
      DEF StartMirror, CompleteMirror, CancelMirror, InstallAcked, InstallFails, Rollback,
          RevertEnds, DrainFails,
          RevertQueues, CancelDrained, CancelRevertFails, CancelReverted, CancelJoined, DropJoined,
              DropBlock,
          CompleteDrained, CompleteSwapped, ActivateDevice, ResetDevice, ApiAt
    <2>2. \A q \in Queues \ acks : stopped[q] /\ slot[q] # NoCommand
      BY <1>1, <2>1 DEF NoneLeft
    <2>3. ASSUME NEW q \in Queues, Completion(q) \/ BlockCommand(q), NEW p \in Queues \ acks'
          PROVE  stopped'[p] /\ slot'[p] # NoCommand
      <3>1. Handles(q)
        BY <1>0, <2>3, HandlesSteps
      <3>2. pending[q] = NoCommand /\ (slot[q] # NoCommand => stopped[q] /\ slot[q].kind = "complete")
        BY <2>1 DEF Switching
      <3>3. CASE Defers(q)
        BY <2>2, <2>3, <3>1, <3>2, <3>3 DEF Handles, Defers, StallShape
      <3>4. CASE Applies(q, slot[q])
        <4>1. slot[q].live /\ slot[q].kind = "complete"
          BY <3>2, <3>4 DEF Applies, CommandShape, CommandOK
        <4>2. acks' = acks \cup {q}
          BY <1>1, <3>4, <4>1 DEF Applies, Swaps
        <4> QED BY <2>2, <2>3, <3>1, <4>2 DEF Handles
      <3>5. ~Applies(q, pending[q])
        BY <3>2 DEF Applies
      <3> QED BY <3>1, <3>3, <3>4, <3>5 DEF Handles
    <2>4. CASE UNCHANGED <<acks, stopped, slot>>
      BY <2>2, <2>4
    <2> QED
      BY <1>3, <2>1, <2>3, <2>4, AckFrame, StopFrame, CommandFrame
      DEF StartMirror, CompleteMirror, CancelMirror, Rollback, DrainFails, CompleteDrained,
          CancelDrained, ResetDevice,
          DropBlock, ApiAt
  <1> QED BY <1>2, <1>3

\* A queue that left a cancelled mirror does not come back to it.
LEMMA CancelledStep ==
    ASSUME TypeOK, InactiveIsEmpty, JobShape, CommandShape, PhaseShape, CallShape, Acknowledged,
           Cancelled, Next
    PROVE  Cancelled'
  <1>0. PhaseTypes /\ ApiTypes /\ CommandTypes /\ BackendTypes /\ JobTypes /\ RequestTypes BY DEF TypeOK
  <1>1. SUFFICES ASSUME NEW g \in Mirrors, phase'[g] = "Cancelling", handle' # g, active', NEW q \in Queues
                 PROVE  backend'[q].mirror # g
    BY DEF Cancelled
  <1>2. g # 0
    BY DEF Mirrors
  <1>3. CASE ActivateDevice
    <2>1. UNCHANGED <<phase, handle, disk>>
      BY <1>3 DEF ActivateDevice, stateVars
    <2>2. backend'[q] = MirrorBackend(handle) \/ backend'[q] = PlainBackend(disk)
      BY <1>3 DEF ActivateDevice, QueueBackend
    <2> QED BY <1>1, <1>2, <2>1, <2>2, NewBackends DEF CallShape
  <1>4. CASE CancelReverted
    <2>1. api = "cancelRevert" /\ AllAcked /\ UNCHANGED <<phase, backend, active>> /\ disk = 0
      BY <1>4 DEF CancelReverted, ApiAt, notApi, CallShape
    <2>2. backend[q] = PlainBackend(disk)
      BY <1>1, <2>1 DEF Acknowledged, AllAcked, Senders, Done
    <2> QED BY <1>2, <2>1, <2>2, NewBackends
  <1>5. CASE ~ActivateDevice /\ ~CancelReverted
    <2>1. active /\ ~DropBlock
      BY <1>1, <1>5, ActiveFrame DEF DropBlock, ResetDevice
    <2>2. phase[g] = "Cancelling"
      <3>1. CancelDrained => handle' = handle
        BY DEF CancelDrained, blockVars
      <3> QED BY <1>1, <2>1, <3>1, PhaseEffects
    <2>3. handle # g
      BY <1>1, <1>2, <1>5, <2>1, <2>2, HandleFrame
      DEF InstallAcked, CompleteSwapped, DropJoined, CallShape, PhaseShape, ApiAt
    <2>4. \A p \in Queues : backend[p].mirror # g
      BY <2>1, <2>2, <2>3 DEF Cancelled
    <2>5. ASSUME NEW p \in Queues, DestinationSubmitFails(p) \/ WaitForCompletions(p)
          PROVE  backend'[q].mirror # g
      BY <1>0, <2>4, <2>5, FailsSteps DEF Fails
    <2>6. ASSUME NEW p \in Queues, Completion(p) \/ BlockCommand(p) PROVE backend'[q].mirror # g
      <3>1. Handles(p)
        BY <1>0, <2>6, HandlesSteps
      <3>2. ASSUME NEW cmd, CommandOK(cmd), cmd.kind \in Swaps PROVE NewBackend(cmd).mirror # g
        BY <1>2, <2>2, <2>3, <3>2, NewBackends DEF CommandOK, Swaps, CallShape
      <3>3. CommandOK(slot[p]) /\ CommandOK(pending[p])
        BY DEF CommandShape
      <3> QED BY <2>4, <3>1, <3>2, <3>3 DEF Handles, Defers, Applies
    <2> QED BY <1>5, <2>4, <2>5, <2>6, BackendFrame
  <1> QED BY <1>3, <1>4, <1>5

\* A mirror that is being cancelled has no queue that could fail it.
LEMMA PanicStep ==
    ASSUME TypeOK, InactiveIsEmpty, JobShape, StallShape, BackendShape, CommandShape, PhaseShape,
           CallShape,
           Acknowledged, Switching, NoneLeft, Cancelled, NoPanic, Next
    PROVE  NoPanic'
  <1>0. PhaseTypes /\ ApiTypes /\ CommandTypes /\ BackendTypes /\ JobTypes /\ RequestTypes BY DEF TypeOK
  <1>1. SUFFICES ASSUME Faults \cap {"timeout", "cancel", "complete"} = {}
                 PROVE  NoPanic'
    BY DEF NoPanic
  <1>2. crash' # "transition"
    <2>1. ASSUME NEW q \in Queues, DestinationSubmitFails(q) \/ WaitForCompletions(q)
          PROVE  crash' # "transition"
      <3>1. Fails(q)
        BY <1>0, <2>1, FailsSteps
      <3>2. job[q].pc = "io" /\ backend[q].kind = "mirror" /\ active /\ ~stopped[q]
        BY <3>1 DEF Fails, JobShape, InactiveIsEmpty, StallShape
      <3> DEFINE g == backend[q].mirror
      <3>3. g \in Mirrors /\ phase[g] # "none"
        BY <1>0, <3>2, ConstantsAssumption
        DEF BackendShape, BackendTypes, Backends, Mirrors, PhaseShape, ApiTypes
      <3>4. phase[g] # "Cancelling"
        BY <1>1, <3>2, <3>3 DEF Cancelled, NoPanic, Mirrors
      <3>5. phase[g] # "Completing"
        BY <1>1, <3>2, <3>3, NewBackends DEF PhaseShape, NoneLeft, Acknowledged, Done
      <3>6. phase[g] # "Completed"
        BY <3>2, <3>3, NewBackends DEF PhaseShape, Switching, Mirrors
      <3>7. phase[g] \in Phases
        BY <1>0, <3>3 DEF PhaseTypes
      <3> QED BY <1>1, <3>1, <3>3, <3>4, <3>5, <3>6, <3>7 DEF Fails, NoPanic, Phases
    <2>2. ASSUME Rollback \/ Switch \/ CompleteSwapped \/ CompleteSwapFails \/ CancelDrained \/ DropBlock
          PROVE  crash' # "transition"
      BY <1>1, <2>2
      DEF Rollback, Switch, CompleteSwapped, CompleteSwapFails, CancelDrained, DropBlock,
          TransitionToPhase, Allowed,
          CallShape, ApiAt
    <2>3. CASE crash' = crash
      BY <1>1, <2>3 DEF NoPanic
    <2> QED BY <2>1, <2>2, <2>3, CrashFrame
  <1>3. SUFFICES ASSUME handle' # 0, phase'[handle'] = "Cancelling", active'
                 PROVE  /\ api' \in {"idle", "cancelDrain", "cancelRevert"} /\ (api' # "idle" => ~ackErr')
                        /\ \A q \in Queues : /\ backend'[q].kind = "mirror" => stopped'[q]
                                             /\ slot'[q].kind \in {"none", "drain", "cancel"}
                                             /\ pending'[q].kind \in {"none", "drain", "cancel"}
                                             /\ api' = "idle" => slot'[q] = NoCommand
    BY <1>2 DEF NoPanic
  <1>4. handle' = handle /\ handle \in Mirrors
    <2>1. ~InstallAcked \/ handle' = handle
      BY <1>3 DEF InstallAcked, CallShape, ApiAt
    <2>2. handle' = handle
      BY <1>3, <2>1, HandleFrame DEF CompleteSwapped, CancelReverted, DropJoined
    <2> QED BY <1>0, <1>3, <2>2 DEF ApiTypes, Mirrors
  <1>5. NoCommand.kind = "none" /\ Orphan(NoCommand) = NoCommand
    <2>1. NoCommand \in Commands
      BY ConstantsAssumption DEF NoCommand, Commands
    <2> QED BY <2>1, OrphanFacts DEF NoCommand
  <1>6. CASE ActivateDevice
    <2>1. /\ UNCHANGED <<phase, disk, slot, pending>> /\ api = "idle" /\ api' = api
          /\ \A q \in Queues : Quiet(q)
      BY <1>6 DEF ActivateDevice, stateVars, commandVars, ApiAt, InactiveIsEmpty
    <2>2. \A q \in Queues : backend'[q] = PlainBackend(disk)
      BY <1>3, <1>4, <1>6, <2>1 DEF ActivateDevice, QueueBackend
    <2> QED BY <1>5, <2>1, <2>2, NewBackends DEF Quiet
  <1>7. CASE CancelDrained
    <2>1. /\ api = "cancelDrain" /\ AllAcked /\ RevertQueues("cancelRevert", "idle")
          /\ UNCHANGED <<backend, stopped, active>>
      BY <1>7 DEF CancelDrained, ApiAt, notApi, blockVars
    <2>2. \A q \in Queues : stopped[q] /\ slot[q] = NoCommand /\ pending[q] = NoCommand
      BY <1>3, <2>1 DEF Acknowledged, AllAcked, Senders, Done, Quiet
    <2>3. CASE StageOver("cancel", 0, TRUE) /\ api' = "cancelRevert"
      BY <1>5, <2>1, <2>2, <2>3 DEF StageOver
    <2>4. CASE /\ slot' = [q \in Queues |-> IF q \in Senders THEN NoCommand ELSE slot[q]]
               /\ pending' = pending /\ api' = "idle"
      BY <1>5, <2>1, <2>2, <2>4
    <2> QED BY <2>1, <2>3, <2>4 DEF RevertQueues
  <1>8. CASE ~ActivateDevice /\ ~CancelDrained
    <2>1. active /\ ~ResetDevice /\ ~DropBlock
      BY <1>3, <1>8, ActiveFrame DEF ResetDevice, DropBlock
    <2>2. phase[handle] = "Cancelling" /\ handle # 0
      BY <1>3, <1>4, <1>8, <2>1, PhaseEffects
    <2>3. /\ api \in {"idle", "cancelDrain", "cancelRevert"} /\ (api # "idle" => ~ackErr)
          /\ \A q \in Queues : /\ backend[q].kind = "mirror" => stopped[q]
                               /\ slot[q].kind \in {"none", "drain", "cancel"}
                               /\ pending[q].kind \in {"none", "drain", "cancel"}
                               /\ api = "idle" => slot[q] = NoCommand
      BY <1>1, <2>1, <2>2 DEF NoPanic
    <2>4. CASE CancelMirror
      <3>1. /\ api = "idle" /\ api' = "cancelDrain" /\ Stage("drain", handle) /\ UNCHANGED <<backend, stopped>>
        BY <2>4 DEF CancelMirror, ApiAt, notApi
      <3>2. \A q \in Queues : slot[q] = NoCommand
        BY <2>3, <3>1
      <3>3. \A q \in Queues : Orphan(pending[q]).kind = pending[q].kind
        BY <1>0, OrphanFacts DEF CommandTypes
      <3>4. /\ ~ackErr'
            /\ \A q \in Queues : slot'[q].kind \in {"none", "drain"} /\ pending'[q].kind = pending[q].kind
        BY <1>5, <3>1, <3>2, <3>3 DEF Stage, Senders
      <3> QED BY <2>3, <3>1, <3>4
    <2>5. ASSUME NEW q \in Queues, Completion(q) \/ BlockCommand(q)
          PROVE  /\ ackErr' => ackErr
                 /\ \A p \in Queues : /\ backend'[p].kind = "mirror" => stopped'[p]
                                      /\ slot'[p] \in {slot[p], NoCommand}
                                      /\ pending'[p] \in {slot[p], pending[p], NoCommand}
      <3>1. Handles(q)
        BY <1>0, <2>5, HandlesSteps
      <3>2. disk = 0
        BY <2>2 DEF CallShape
      <3>3. CASE Defers(q)
        BY <2>3, <3>1, <3>3 DEF Handles, Defers
      <3>4. ASSUME NEW cmd, CommandOK(cmd), cmd.kind \in {"none", "drain", "cancel"}, Applies(q,
                   cmd)
            PROVE  (ackErr' => ackErr) /\ (backend'[q].kind = "mirror" => stopped'[q])
        BY <1>1, <2>3, <3>2, <3>4, NewBackends DEF Applies, Swaps, CommandOK
      <3>5. CommandOK(slot[q]) /\ CommandOK(pending[q])
        BY DEF CommandShape
      <3> QED BY <2>3, <3>1, <3>3, <3>4, <3>5 DEF Handles, Applies
    <2>6. ASSUME NEW q \in Queues, DestinationSubmitFails(q) \/ WaitForCompletions(q)
          PROVE  \A p \in Queues : backend'[p].kind = backend[p].kind
      BY <1>0, <2>6, FailsSteps DEF Fails
    <2>7. api' = api \/ CancelMirror
      <3>1. ~AckFails \/ api = "idle"
        BY <1>1, <2>3 DEF AckFails, Fault
      <3> QED
        BY <1>3, <1>8, <2>1, <2>2, <2>3, <3>1, ApiFrame
        DEF StartMirror, CompleteMirror, InstallAcked, InstallFails, Rollback, RevertEnds,
            DrainFails, CompleteDrained,
            Switch, CompleteSwapped, CancelRevertFails, CancelReverted, CancelJoined, DropJoined,
                ApiAt
    <2>8. \/ CancelMirror \/ UNCHANGED <<slot, pending, ackErr, stopped>>
          \/ \E q \in Queues : Completion(q) \/ BlockCommand(q)
      <3>1. ~AckFails \/ api = "idle"
        BY <1>1, <2>3 DEF AckFails, Fault
      <3> QED
        BY <1>8, <2>1, <2>2, <2>3, <3>1, CommandFrame, AckFrame, StopFrame
        DEF StartMirror, CompleteMirror, Rollback, DrainFails, CompleteDrained, Switch, ApiAt
    <2>9. CASE api' = api /\ \E q \in Queues : Completion(q) \/ BlockCommand(q)
      BY <1>5, <2>3, <2>5, <2>9
    <2>10. CASE api' = api /\ UNCHANGED <<slot, pending, ackErr, stopped>>
                /\ \E q \in Queues : DestinationSubmitFails(q) \/ WaitForCompletions(q)
      BY <2>3, <2>6, <2>10
    <2>11. CASE api' = api /\ UNCHANGED <<slot, pending, ackErr, stopped, backend>>
      BY <2>3, <2>11
    <2> QED BY <1>8, <2>4, <2>7, <2>8, <2>9, <2>10, <2>11, BackendFrame
  <1> QED BY <1>6, <1>7, <1>8
-----------------------------------------------------------------------------
(***************************************************************************)
(* Range locks and the two disks.                                          *)
(***************************************************************************)
\* The mirrored write of queue q, and its block, stay the same.
SameWrite(q) ==
    /\ job[q].pc = "io" /\ job'[q].pc = "io" /\ job'[q].req = job[q].req
    /\ backend'[q].mirror = backend[q].mirror
    /\ target'[job[q].req] = target[job[q].req]

\* A write under way stays the same write.
LEMMA WriteFrame ==
    ASSUME TypeOK, InactiveIsEmpty, JobShape, RequestsAreDistinct, Next, NEW q \in Queues,
           ~LockRange(q), ~WaitForCompletions(q), job[q].pc = "io" \/ job'[q].pc = "io"
    PROVE  /\ SameWrite(q)
           /\ \/ job'[q] = job[q]
              \/ SourceIo(q) \/ DestinationIo(q) \/ DestinationSubmitFails(q)
  <1>0. BackendTypes /\ JobTypes /\ RequestTypes /\ CommandTypes BY DEF TypeOK
  <1>1. ASSUME NEW p \in Queues,
               QueueAvail(p) \/ Submit(p) \/ SourceSubmitFails(p) \/ Completion(p) \/ BlockCommand(p)
        PROVE  p # q /\ job'[q] = job[q]
    <2>1. job[p].pc # "io" /\ (p # q => job'[q] = job[q])
      BY <1>0, <1>1
      DEF QueueAvail, Submit, SourceSubmitFails, Completion, BlockCommand, ApplyCommand, At,
          JobTypes
    <2>2. CASE QueueAvail(p) \/ SourceSubmitFails(p)
      <3>1. job'[p].pc # "io"
        BY <1>0, <2>2 DEF QueueAvail, SourceSubmitFails, SubmitOrDefer, IdleJob, JobTypes, Jobs
      <3> QED BY <2>1, <3>1
    <2>3. CASE Submit(p)
      <3>1. \/ job' = job
            \/ job' = [job EXCEPT ![p] = IdleJob]
            \/ job' = [job EXCEPT ![p].pc = "lock", ![p].req = Head(avail[p])]
        BY <2>3 DEF Submit
      <3>2. job'[p].pc # "io"
        BY <1>0, <2>1, <3>1 DEF IdleJob, JobTypes, Jobs
      <3> QED BY <2>1, <3>2
    <2>4. CASE Completion(p) \/ BlockCommand(p)
      BY <1>0, <2>1, <2>4, HandlesSteps DEF Handles
    <2> QED BY <1>1, <2>2, <2>3, <2>4
  <1>2. ASSUME NEW p \in Queues, LockRange(p) \/ WaitForCompletions(p)
        PROVE  job'[q] = job[q]
    BY <1>0, <1>2 DEF LockRange, WaitForCompletions, JobTypes
  <1>3. ASSUME NEW p \in Queues, SourceIo(p) \/ DestinationIo(p) \/ DestinationSubmitFails(p)
        PROVE  /\ p # q => job'[q] = job[q]
               /\ job'[q].pc = job[q].pc /\ job'[q].req = job[q].req
    BY <1>0, <1>3 DEF SourceIo, DestinationIo, DestinationSubmitFails, JobTypes, Jobs
  <1>4. /\ job[q].pc = "io" /\ job'[q].pc = "io" /\ job'[q].req = job[q].req
        /\ \/ job'[q] = job[q]
           \/ SourceIo(q) \/ DestinationIo(q) \/ DestinationSubmitFails(q)
    BY <1>1, <1>2, <1>3, JobFrame
  <1>5. backend'[q].mirror = backend[q].mirror
    <2>1. ASSUME NEW p \in Queues, DestinationSubmitFails(p) \/ WaitForCompletions(p)
          PROVE  backend'[q].mirror = backend[q].mirror
      BY <1>0, <2>1, FailsSteps DEF Fails
    <2>2. ASSUME NEW p \in Queues, Completion(p) \/ BlockCommand(p)
          PROVE  backend'[q].mirror = backend[q].mirror
      BY <1>0, <1>4, <2>2, HandlesSteps DEF Handles
    <2>3. ~ActivateDevice
      BY <1>4 DEF ActivateDevice, InactiveIsEmpty
    <2> QED BY <2>1, <2>2, <2>3, BackendFrame
  <1>6. target'[job[q].req] = target[job[q].req]
    <2>1. job[q].req <= posted /\ job[q].req \in Reqs
      BY <1>4 DEF RequestsAreDistinct, Held, JobShape
    <2>2. ASSUME NEW p \in Queues, NEW b \in Blocks, GuestWrite(p, b)
          PROVE  target'[job[q].req] = target[job[q].req]
      BY <1>0, <2>1, <2>2 DEF GuestWrite, RequestTypes, Reqs
    <2> QED BY <2>2, TargetFrame
  <1> QED BY <1>4, <1>5, <1>6 DEF SameWrite

\* The copy worker is no queue, and neither is a free lock.
LEMMA PartyFacts == CopyParty \notin Queues /\ Free \notin Queues /\ Free # CopyParty
  BY ConstantsAssumption DEF CopyParty, Queues, Free

\* A range is locked by the one worker that is writing it.
LEMMA LockStep ==
    ASSUME TypeOK, InactiveIsEmpty, JobShape, BackendShape, RequestsAreDistinct, CallShape,
           CopyShape, LockShape, Next
    PROVE  LockShape'
  <1>0. BackendTypes /\ JobTypes /\ RequestTypes /\ CommandTypes /\ LockTypes /\ CopyTypes BY DEF TypeOK
  <1>1. ASSUME NEW q \in Queues, job[q].pc \in {"lock", "io"}
        PROVE  backend[q].mirror \in Mirrors /\ target[job[q].req] \in Blocks
    BY <1>0, <1>1, ConstantsAssumption
    DEF JobShape, BackendShape, BackendTypes, Backends, RequestTypes, Mirrors
  <1>2. ASSUME copy.pc \in {"lock", "read", "write"}
        PROVE  copy.mirror \in Mirrors /\ copy.block \in Blocks
    BY <1>0, <1>2, ConstantsAssumption DEF CopyShape, CopyTypes, Copies, Mirrors, Blocks
  <1>3. ASSUME NEW q \in Queues, ~LockRange(q), ~WaitForCompletions(q), NEW g, NEW b
        PROVE  Writes(q, g, b)' <=> Writes(q, g, b)
    BY <1>3, WriteFrame DEF SameWrite, Writes
  <1>4. ASSUME NEW q \in Queues, LockRange(q) PROVE LockShape'
    <2> DEFINE m == backend[q].mirror
               t == target[job[q].req]
    <2>1. /\ lock' = [lock EXCEPT ![m][t] = q] /\ lock[m][t] = Free /\ job[q].pc = "lock"
          /\ job' = [job EXCEPT ![q].pc = "io", ![q].sio = "pending", ![q].dio = "pending"]
          /\ UNCHANGED <<backend, target, copy>>
      BY <1>4 DEF LockRange, At, guestVars
    <2>2. m \in Mirrors /\ t \in Blocks
      BY <1>1, <2>1
    <2>3. ASSUME NEW g, NEW b
          PROVE  /\ Writes(q, g, b)' <=> (g = m /\ b = t)
                 /\ ~Writes(q, g, b)
                 /\ CopiesBlock(g, b)' <=> CopiesBlock(g, b)
                 /\ \A p \in Queues \ {q} : Writes(p, g, b)' <=> Writes(p, g, b)
      BY <1>0, <2>1 DEF Writes, CopiesBlock, JobTypes, Jobs
    <2> HIDE DEF m, t
    <2>4. ASSUME NEW g \in Mirrors, NEW b \in Blocks
          PROVE  lock'[g][b] = IF g = m /\ b = t THEN q ELSE lock[g][b]
      BY <1>0, <2>1, <2>2 DEF LockTypes
    <2> QED BY <2>1, <2>2, <2>3, <2>4, PartyFacts DEF LockShape
  <1>5. ASSUME NEW q \in Queues, WaitForCompletions(q) PROVE LockShape'
    <2> DEFINE m == backend[q].mirror
               t == target[job[q].req]
    <2>1. /\ lock' = [lock EXCEPT ![m][t] = Free] /\ job[q].pc = "io"
          /\ job' = [job EXCEPT ![q] = [IdleJob EXCEPT !.pc = "submit"]]
          /\ UNCHANGED <<target, copy>>
      BY <1>5 DEF WaitForCompletions, Unlocked, At, guestVars
    <2>2. m \in Mirrors /\ t \in Blocks
      BY <1>1, <2>1
    <2>3. \A p \in Queues : backend'[p].mirror = backend[p].mirror
      BY <1>0, <1>5, FailsSteps DEF Fails
    <2>4. ASSUME NEW g, NEW b
          PROVE  /\ Writes(q, g, b) <=> (g = m /\ b = t)
                 /\ ~Writes(q, g, b)'
                 /\ CopiesBlock(g, b)' <=> CopiesBlock(g, b)
                 /\ \A p \in Queues \ {q} : Writes(p, g, b)' <=> Writes(p, g, b)
      BY <1>0, <2>1, <2>3 DEF Writes, CopiesBlock, JobTypes, Jobs, IdleJob
    <2> HIDE DEF m, t
    <2>5. ASSUME NEW g \in Mirrors, NEW b \in Blocks
          PROVE  lock'[g][b] = IF g = m /\ b = t THEN Free ELSE lock[g][b]
      BY <1>0, <2>1, <2>2 DEF LockTypes
    <2> QED BY <2>2, <2>4, <2>5, PartyFacts DEF LockShape
  <1>6. ASSUME \A q \in Queues : ~LockRange(q) /\ ~WaitForCompletions(q),
               NEW m, NEW t, NEW v \in {Free, CopyParty}, lock' = [lock EXCEPT ![m][t] = v],
               m \in Mirrors, t \in Blocks, lock[m][t] \in {Free, CopyParty},
               v = Free => \A g, b : ~CopiesBlock(g, b)',
               v = CopyParty => \A g, b : CopiesBlock(g, b)' <=> (g = m /\ b = t),
               \A g, b : CopiesBlock(g, b) => g = m /\ b = t
        PROVE  LockShape'
    <2>1. ASSUME NEW g \in Mirrors, NEW b \in Blocks
          PROVE  lock'[g][b] = IF g = m /\ b = t THEN v ELSE lock[g][b]
      BY <1>0, <1>6 DEF LockTypes
    <2>2. ASSUME NEW q \in Queues, NEW g, NEW b PROVE Writes(q, g, b)' <=> Writes(q, g, b)
      BY <1>3, <1>6
    <2> QED BY <1>6, <2>1, <2>2, PartyFacts DEF LockShape
  <1>7. CASE CopyLock \/ CopyWrite \/ (CopyFails /\ copy.pc # "flush")
    <2>1. UNCHANGED job
      BY <1>7 DEF CopyLock, CopyWrite, CopyFails, notCopy
    <2>2. \A q \in Queues : ~LockRange(q) /\ ~WaitForCompletions(q)
      BY <1>0, <2>1 DEF LockRange, WaitForCompletions, At, JobTypes, Jobs, IdleJob
    <2> DEFINE m == copy.mirror
               t == copy.block
    <2>3. /\ m \in Mirrors /\ t \in Blocks
          /\ \A g, b : CopiesBlock(g, b) => g = m /\ b = t
      BY <1>2, <1>7 DEF CopyLock, CopyWrite, CopyFails, CopyAt, CopiesBlock
    <2>4. CASE CopyLock
      <3>1. /\ lock' = [lock EXCEPT ![m][t] = CopyParty] /\ lock[m][t] = Free
            /\ copy' = [copy EXCEPT !.pc = "read"]
        BY <2>4 DEF CopyLock
      <3>2. \A g, b : CopiesBlock(g, b)' <=> (g = m /\ b = t)
        BY <1>0, <3>1 DEF CopiesBlock, CopyTypes, Copies
      <3> HIDE DEF m, t
      <3> QED BY <1>6, <2>2, <2>3, <3>1, <3>2, PartyFacts
    <2>5. CASE CopyWrite \/ (CopyFails /\ copy.pc # "flush")
      <3>1. lock' = [lock EXCEPT ![m][t] = Free] /\ copy.pc \in {"read", "write"} /\ copy'.pc \in {"next", "done"}
        BY <1>0, <2>5 DEF CopyWrite, CopyFails, Unlocked, CopyAt, CopyTypes, Copies
      <3>2. lock[m][t] = CopyParty /\ \A g, b : ~CopiesBlock(g, b)'
        BY <2>3, <3>1 DEF CopiesBlock, LockShape
      <3> HIDE DEF m, t
      <3> QED BY <1>6, <2>2, <2>3, <3>1, <3>2, PartyFacts
    <2> QED BY <1>7, <2>4, <2>5
  <1>8. CASE UNCHANGED lock /\ ~CopyLock /\ ~CopyWrite /\ ~(CopyFails /\ copy.pc # "flush")
             /\ \A q \in Queues : ~LockRange(q) /\ ~WaitForCompletions(q)
    <2>1. ASSUME NEW g \in Mirrors, NEW b \in Blocks PROVE CopiesBlock(g, b)' <=> CopiesBlock(g, b)
      <3>1. CASE CopyNext \/ CopyRead \/ CopyFlush \/ CopyFinish \/ CopyFails
        BY <1>0, <1>8, <3>1
        DEF CopyNext, CopyRead, CopyFlush, CopyFinish, CopyFails, CopyAt, CopiesBlock, CopyTypes,
            Copies
      <3>2. CASE InstallAcked
        BY <3>2 DEF InstallAcked, ApiAt, NoCopy, CopiesBlock, CopyShape, CallShape
      <3>3. CASE CompleteSwapped \/ CancelJoined \/ DropJoined
        BY <3>3 DEF CompleteSwapped, CancelJoined, DropJoined, NoCopy, CopiesBlock
      <3>4. CASE UNCHANGED copy
        BY <3>4 DEF CopiesBlock
      <3> QED BY <1>8, <3>1, <3>2, <3>3, <3>4, CopyFrame
    <2> QED BY <1>3, <1>8, <2>1 DEF LockShape
  <1> QED
    <2>1. CASE \A q \in Queues : ~LockRange(q) /\ ~WaitForCompletions(q)
      BY <1>7, <1>8, <2>1, LockFrame DEF CopyFails
    <2> QED BY <1>4, <1>5, <2>1

\* Source and destination stay in sync behind the copy worker.
LEMMA SyncStep ==
    ASSUME TypeOK, InactiveIsEmpty, JobShape, BackendShape, MirroredShape, PhaseShape, CallShape,
           CopyShape, LockShape,
           AliveIsMirrored, RequestsAreDistinct, Sync, Next
    PROVE  Sync'
  <1>0. /\ BackendTypes /\ JobTypes /\ RequestTypes /\ CommandTypes /\ LockTypes /\ CopyTypes /\ DiskTypes
        /\ PhaseTypes /\ ApiTypes
    BY DEF TypeOK
  <1>1. SUFFICES ASSUME handle' # 0, phase'[handle'] \in Alive PROVE Sync'
    BY DEF Sync
  <1>2. CASE handle' # handle
    <2>1. copy'.block = 1 /\ copy'.pc = "next"
      BY <1>1, <1>2, HandleFrame DEF InstallAcked, CompleteSwapped, CancelReverted, DropJoined,
          NoCopy
    <2>2. RequestTypes' /\ JobShape'
      BY RequestTyped, JobStep
    <2>3. \A q \in Queues : job'[q].pc = "io" => target'[job'[q].req] \in Blocks
      BY <2>2 DEF RequestTypes, JobShape
    <2>4. \A b \in Blocks : ~(b < 1)
      BY DEF Blocks
    <2> QED BY <2>1, <2>3, <2>4 DEF Sync, InSync
  <1>3. CASE handle' = handle
    <2> PICK h : h = handle
      OBVIOUS
    <2>1. h \in Mirrors /\ phase[h] \in Alive /\ phase'[h] \in Alive /\ copy.mirror = h /\ disk = 0
      <3>1. h \in Mirrors
        BY <1>0, <1>1, <1>3 DEF ApiTypes, Mirrors
      <3>2. phase[h] \in Alive
        BY <1>1, <1>3, <3>1, PhaseEffects DEF StartMirror, Alive
      <3> QED BY <1>1, <1>3, <3>1, <3>2 DEF CallShape, CopyShape
    <2>2. InSync(h)
      BY <1>1, <1>3, <2>1 DEF Sync
    <2>3. ASSUME NEW q \in Queues, job[q].pc \in {"lock", "io"}
          PROVE  backend[q].mirror = h /\ ~backend[q].bypass /\ target[job[q].req] \in Blocks
      BY <1>0, <1>1, <1>3, <2>1, <2>3, NewBackends DEF InactiveIsEmpty, AliveIsMirrored, JobShape,
          RequestTypes
    <2>4. \A q \in Queues : job[q].pc = "io" => lock[h][target[job[q].req]] = q
      BY <2>1, <2>3 DEF LockShape, Writes
    <2>5. SUFFICES InSync(h)'
      BY <1>3 DEF Sync
    <2>6. ASSUME UNCHANGED <<src, dst>>, \A b \in Blocks : lock'[h][b] = Free => lock[h][b] = Free,
                 copy'.block = copy.block,
                 copy'.pc = "write" => copy'.buffer = src[copy.block],
                 \A q \in Queues : job'[q].pc = "io" =>
                    (SameWrite(q) /\ job'[q] = job[q]) \/ (job'[q].sio # "ok" /\ job'[q].dio # "ok")
          PROVE  InSync(h)'
      BY <2>2, <2>6 DEF InSync, SameWrite
    <2>7. ASSUME NEW q \in Queues, SourceIo(q) PROVE InSync(h)'
      <3> DEFINE r == job[q].req
                 t == target[job[q].req]
      <3>1. /\ job[q].pc = "io" /\ UNCHANGED <<dst, lock, copy, target>>
            /\ src' = src \/ src' = [src EXCEPT ![t] = r]
            /\ job' = [job EXCEPT ![q].sio = "ok"] \/ job' = [job EXCEPT ![q].sio = "error"]
            /\ job' = [job EXCEPT ![q].sio = "ok"] => src' = [src EXCEPT ![t] = r]
        BY <1>0, <2>7 DEF SourceIo, At, stateVars, guestVars, JobTypes, Jobs
      <3>2. t \in Blocks /\ lock[h][t] = q
        BY <2>3, <2>4, <3>1
      <3>3. /\ job'[q].pc = "io" /\ job'[q].req = r /\ job'[q].dio = job[q].dio
            /\ job'[q].sio = "ok" => src'[t] = r
            /\ \A p \in Queues \ {q} : job'[p] = job[p]
        BY <1>0, <3>1, <3>2 DEF JobTypes, Jobs, DiskTypes
      <3>4. \A b \in Blocks \ {t} : src'[b] = src[b]
        BY <1>0, <3>1 DEF DiskTypes
      <3>5. copy.pc = "write" => copy.block \in Blocks /\ copy.block # t
        <4>1. copy.pc = "write" => copy.block \in Blocks
          BY <1>0, ConstantsAssumption DEF CopyShape, CopyTypes, Copies, Blocks
        <4> QED BY <2>1, <3>2, <4>1, PartyFacts DEF LockShape, CopiesBlock
      <3>6. ASSUME NEW p \in Queues \ {q}, job[p].pc = "io"
            PROVE  target[job[p].req] \in Blocks \ {t}
        BY <2>3, <2>4, <3>2, <3>6
      <3> HIDE DEF r, t
      <3>7. \A b \in Blocks : b < copy.block /\ lock'[h][b] = Free => src'[b] = dst'[h][b]
        BY <2>2, <3>1, <3>2, <3>4, PartyFacts DEF InSync
      <3>8. copy'.pc = "write" => copy'.buffer = src'[copy'.block]
        BY <2>2, <3>1, <3>4, <3>5 DEF InSync
      <3>9. ASSUME NEW p \in Queues, job'[p].pc = "io", target'[job'[p].req] < copy'.block
            PROVE  /\ job'[p].sio = "ok" => src'[target'[job'[p].req]] = job'[p].req
                   /\ job'[p].dio = "ok" => dst'[h][target'[job'[p].req]] = job'[p].req
        BY <2>2, <3>1, <3>3, <3>4, <3>6, <3>9 DEF InSync, r, t
      <3> QED BY <3>1, <3>7, <3>8, <3>9 DEF InSync
    <2>8. ASSUME NEW q \in Queues, DestinationIo(q) PROVE InSync(h)'
      <3> DEFINE r == job[q].req
                 t == target[job[q].req]
      <3>0. job[q].pc = "io" /\ backend[q].mirror = h
        BY <2>3, <2>8 DEF DestinationIo, At
      <3>1. /\ UNCHANGED <<src, lock, copy, target>>
            /\ dst' = dst \/ dst' = [dst EXCEPT ![h][t] = r]
            /\ job' = [job EXCEPT ![q].dio = "ok"] \/ job' = [job EXCEPT ![q].dio = "error"]
            /\ job' = [job EXCEPT ![q].dio = "ok"] => dst' = [dst EXCEPT ![h][t] = r]
        BY <1>0, <2>8, <3>0 DEF DestinationIo, stateVars, guestVars, JobTypes, Jobs
      <3>2. t \in Blocks /\ lock[h][t] = q
        BY <2>3, <2>4, <3>0
      <3>3. /\ job'[q].pc = "io" /\ job'[q].req = r /\ job'[q].sio = job[q].sio
            /\ job'[q].dio = "ok" => dst'[h][t] = r
            /\ \A p \in Queues \ {q} : job'[p] = job[p]
        BY <1>0, <2>1, <3>0, <3>1, <3>2 DEF JobTypes, Jobs, DiskTypes
      <3>4. \A b \in Blocks \ {t} : dst'[h][b] = dst[h][b]
        BY <1>0, <2>1, <3>1 DEF DiskTypes
      <3>6. ASSUME NEW p \in Queues \ {q}, job[p].pc = "io"
            PROVE  target[job[p].req] \in Blocks \ {t}
        BY <2>3, <2>4, <3>2, <3>6
      <3> HIDE DEF r, t
      <3>7. \A b \in Blocks : b < copy.block /\ lock'[h][b] = Free => src'[b] = dst'[h][b]
        BY <2>2, <3>1, <3>2, <3>4, PartyFacts DEF InSync
      <3>8. copy'.pc = "write" => copy'.buffer = src'[copy'.block]
        BY <2>2, <3>1 DEF InSync
      <3>9. ASSUME NEW p \in Queues, job'[p].pc = "io", target'[job'[p].req] < copy'.block
            PROVE  /\ job'[p].sio = "ok" => src'[target'[job'[p].req]] = job'[p].req
                   /\ job'[p].dio = "ok" => dst'[h][target'[job'[p].req]] = job'[p].req
        BY <2>2, <3>0, <3>1, <3>3, <3>4, <3>6, <3>9 DEF InSync, r, t
      <3> QED BY <3>1, <3>7, <3>8, <3>9 DEF InSync
    <2>9. ASSUME NEW q \in Queues, WaitForCompletions(q) PROVE InSync(h)'
      <3> DEFINE t == target[job[q].req]
      <3>0. job[q].pc = "io" /\ backend[q].mirror = h /\ ~backend[q].bypass
        BY <2>3, <2>9 DEF WaitForCompletions, At
      <3>1. job[q].sio = "ok" /\ job[q].dio = "ok"
        <4>1. ~Fail(q)
          BY <1>0, <2>1, <3>0 DEF Fail, TransitionToPhase, Allowed, PhaseTypes, Alive
        <4>2. "error" \notin {job[q].sio, job[q].dio} /\ "pending" \notin {job[q].sio, job[q].dio}
          BY <2>9, <4>1 DEF WaitForCompletions
        <4> QED BY <1>0, <3>0, <4>2 DEF JobShape, JobTypes, Jobs
      <3>2. /\ UNCHANGED <<src, dst, copy, target>>
            /\ lock' = [lock EXCEPT ![h][t] = Free]
            /\ job' = [job EXCEPT ![q] = [IdleJob EXCEPT !.pc = "submit"]]
        BY <2>9, <3>0 DEF WaitForCompletions, Unlocked, diskVars, guestVars
      <3>3. t \in Blocks /\ (t < copy.block => src[t] = dst[h][t])
        BY <2>2, <2>3, <3>0, <3>1 DEF InSync
      <3>4. \A b \in Blocks \ {t} : lock'[h][b] = lock[h][b]
        BY <1>0, <2>1, <3>2 DEF LockTypes
      <3>5. job'[q].pc # "io" /\ \A p \in Queues \ {q} : job'[p] = job[p]
        BY <1>0, <3>2 DEF JobTypes, Jobs, IdleJob
      <3> HIDE DEF t
      <3>6. \A b \in Blocks : b < copy.block /\ lock'[h][b] = Free => src[b] = dst[h][b]
        BY <2>2, <3>3, <3>4 DEF InSync
      <3> QED BY <2>2, <3>2, <3>5, <3>6 DEF InSync
    <2>10. CASE CopyWrite
      <3> DEFINE c == copy.block
      <3>1. /\ copy.pc = "write" /\ UNCHANGED <<src, job, target>>
            /\ dst' = [dst EXCEPT ![h][c] = copy.buffer]
            /\ lock' = [lock EXCEPT ![h][c] = Free]
            /\ copy' = [copy EXCEPT !.pc = "next", !.block = @ + 1, !.buffer = 0]
        BY <2>1, <2>10 DEF CopyWrite, CopyAt, Unlocked, notCopy, guestVars
      <3>2. c \in Blocks /\ lock[h][c] = CopyParty
        <4>1. c \in Blocks
          BY <1>0, <3>1, ConstantsAssumption DEF CopyShape, CopyTypes, Copies, Blocks
        <4> QED BY <2>1, <3>1, <4>1 DEF LockShape, CopiesBlock
      <3>3. copy'.pc = "next" /\ copy'.block = c + 1
        BY <1>0, <3>1 DEF CopyTypes, Copies
      <3>4. /\ dst'[h][c] = src[c]
            /\ \A b \in Blocks \ {c} : dst'[h][b] = dst[h][b] /\ lock'[h][b] = lock[h][b]
        BY <1>0, <2>1, <2>2, <3>1, <3>2 DEF InSync, DiskTypes, LockTypes
      <3>5. ASSUME NEW p \in Queues, job[p].pc = "io" PROVE target[job[p].req] \in Blocks \ {c}
        BY <2>3, <2>4, <3>2, <3>5, PartyFacts
      <3>6. c \in Nat /\ \A b \in Blocks \ {c} : b < c + 1 => b < c
        BY <3>2 DEF Blocks
      <3> HIDE DEF c
      <3>7. \A b \in Blocks : b < copy'.block /\ lock'[h][b] = Free => src'[b] = dst'[h][b]
        BY <2>2, <3>1, <3>3, <3>4, <3>6 DEF InSync, c
      <3>8. ASSUME NEW p \in Queues, job'[p].pc = "io", target'[job'[p].req] < copy'.block
            PROVE  /\ job'[p].sio = "ok" => src'[target'[job'[p].req]] = job'[p].req
                   /\ job'[p].dio = "ok" => dst'[h][target'[job'[p].req]] = job'[p].req
        BY <2>2, <3>1, <3>3, <3>4, <3>5, <3>6, <3>8 DEF InSync, c
      <3> QED BY <3>3, <3>7, <3>8 DEF InSync
    <2>11. ASSUME NEW q \in Queues, NEW r \in inflight[q] PROVE result[r] # "pending"
      BY <1>1, <1>3, <2>1, <2>11, NewBackends DEF InactiveIsEmpty, AliveIsMirrored, MirroredShape
    <2>12. ASSUME NEW q \in Queues, NEW r \in Reqs PROVE ~HostCompletes(q, r)
      BY <2>11 DEF HostCompletes
    <2>13. ~CopyFails /\ \A q \in Queues : ~DestinationSubmitFails(q)
      <3>1. ~CopyFails
        BY <1>0, <2>1 DEF CopyFails, FinishCopy, Allowed, PhaseTypes, Alive
      <3>2. ASSUME NEW q \in Queues PROVE ~DestinationSubmitFails(q)
        BY <1>0, <2>1, <2>3 DEF DestinationSubmitFails, At, Fail, TransitionToPhase, Allowed,
            PhaseTypes, Alive
      <3> QED BY <3>1, <3>2
    <2>14. ASSUME JoinWorkers PROVE UNCHANGED <<src, dst>>
      <3>1. \A b \in Blocks : src'[b] = src[b]
        BY <2>1, <2>11, <2>14 DEF JoinWorkers
      <3>2. src' \in [Blocks -> Data] /\ dst' = dst
        BY <2>1, <2>14 DEF JoinWorkers
      <3> QED BY <1>0, <3>1, <3>2 DEF DiskTypes
    <2>15. CASE ~CopyWrite /\ \A q \in Queues : ~SourceIo(q) /\ ~DestinationIo(q) /\ ~WaitForCompletions(q)
      <3>1. UNCHANGED <<src, dst>>
        BY <2>12, <2>14, <2>15, DiskFrame DEF ResetDevice, DropBlock
      <3>2. ASSUME NEW b \in Blocks, lock'[h][b] = Free PROVE lock[h][b] = Free
        <4>1. CASE CopyLock
          BY <1>0, <2>1, <3>2, <4>1, PartyFacts DEF CopyLock, LockTypes
        <4>2. ASSUME NEW q \in Queues, LockRange(q) PROVE lock[h][b] = Free
          <5>1. lock' = [lock EXCEPT ![backend[q].mirror][target[job[q].req]] = q]
            BY <4>2 DEF LockRange
          <5> QED BY <1>0, <2>1, <3>2, <5>1, PartyFacts DEF LockTypes
        <4> QED BY <2>13, <2>15, <3>2, <4>1, <4>2, LockFrame
      <3>3. copy'.block = copy.block /\ (copy'.pc = "write" => copy'.buffer = src[copy.block])
        <4>1. CASE CopyNext \/ CopyLock \/ CopyFlush \/ CopyFinish
          BY <1>0, <4>1 DEF CopyNext, CopyLock, CopyFlush, CopyFinish, CopyTypes, Copies
        <4>2. CASE CopyRead
          BY <1>0, <4>2 DEF CopyRead, CopyTypes, Copies
        <4>3. CASE InstallAcked
          <5>1. UNCHANGED copy
            BY <1>1, <1>3, <4>3 DEF InstallAcked, CallShape, ApiAt
          <5> QED BY <2>2, <5>1 DEF InSync
        <4>4. ~CompleteSwapped /\ ~DropJoined /\ ~CancelJoined
          BY <1>1, <1>3, <2>1 DEF CompleteSwapped, DropJoined, CancelJoined, CallShape, ApiAt
        <4>5. CASE UNCHANGED copy
          BY <2>2, <4>5 DEF InSync
        <4> QED BY <2>13, <2>15, <4>1, <4>2, <4>3, <4>4, <4>5, CopyFrame
      <3>4. ASSUME NEW q \in Queues, job'[q].pc = "io"
            PROVE  (SameWrite(q) /\ job'[q] = job[q]) \/ (job'[q].sio # "ok" /\ job'[q].dio # "ok")
        <4>1. CASE LockRange(q)
          BY <1>0, <4>1 DEF LockRange, JobTypes, Jobs
        <4> QED BY <2>13, <2>15, <3>4, <4>1, WriteFrame
      <3> QED BY <2>6, <3>1, <3>2, <3>3, <3>4
    <2> QED BY <2>7, <2>8, <2>9, <2>10, <2>15
  <1> QED BY <1>2, <1>3
-----------------------------------------------------------------------------
(***************************************************************************)
(* Requests.                                                               *)
(***************************************************************************)
\* No request is in two places.
LEMMA RequestStep ==
    ASSUME TypeOK, InactiveIsEmpty, JobShape, StallShape, RequestsAreDistinct, Next
    PROVE  RequestsAreDistinct'
  <1>0. BackendTypes /\ JobTypes /\ RequestTypes /\ CommandTypes /\ HistoryTypes BY DEF TypeOK
  <1>1. ASSUME posted' = posted, \A p \in Queues : Held(p)' \subseteq Held(p),
               \A p \in Queues : \A i \in DOMAIN avail'[p] : i \in DOMAIN avail[p] /\ avail'[p][i] = avail[p][i],
               \A r \in finished' : r \in finished \/ \E p \in Queues : r \in Held(p),
               \A r \in finished' : \A p \in Queues : r \notin Held(p)',
               \A q \in Queues : job'[q].pc \in {"lock", "io"} => job'[q].req \notin inflight'[q]
        PROVE  RequestsAreDistinct'
    <2>1. \A q \in Queues : \A r \in Held(q)' : r <= posted' /\ r \notin finished'
      BY <1>1 DEF RequestsAreDistinct
    <2>2. \A q \in Queues : \A i \in DOMAIN avail'[q] :
             /\ avail'[q][i] <= posted' /\ avail'[q][i] \notin finished'
             /\ \A p \in Queues : avail'[q][i] \notin Held(p)'
             /\ \A p \in Queues : \A j \in DOMAIN avail'[p] : avail'[p][j] = avail'[q][i] => p = q /\ i = j
      BY <1>1 DEF RequestsAreDistinct
    <2>3. \A p, q \in Queues : p # q => Held(p)' \cap Held(q)' = {}
      BY <1>1 DEF RequestsAreDistinct
    <2>4. \A r \in finished' : r <= posted'
      BY <1>1 DEF RequestsAreDistinct
    <2> QED BY <1>1, <2>1, <2>2, <2>3, <2>4 DEF RequestsAreDistinct
  <1>2. ASSUME NEW q \in Queues, NEW b \in Blocks, GuestWrite(q, b) PROVE RequestsAreDistinct'
    <2> DEFINE n == posted + 1
    <2>1. /\ posted' = n /\ avail' = [avail EXCEPT ![q] = Append(@, n)]
          /\ UNCHANGED <<job, inflight, finished>>
      BY <1>2 DEF GuestWrite, requestVars, historyVars
    <2>2. n \in Nat /\ posted \in Nat /\ n \in Reqs
      BY <1>0, <1>2, ConstantsAssumption DEF RequestTypes, GuestWrite, Reqs
    <2>3. ASSUME NEW p \in Queues, NEW i \in DOMAIN avail'[p]
          PROVE  \/ i \in DOMAIN avail[p] /\ avail'[p][i] = avail[p][i]
                 \/ p = q /\ i = Len(avail[q]) + 1 /\ avail'[p][i] = n
      <3>1. CASE p # q
        BY <1>0, <2>1, <3>1 DEF RequestTypes
      <3>2. CASE p = q
        BY <1>0, <2>1, <2>2, <3>2 DEF RequestTypes
      <3> QED BY <3>1, <3>2
    <2>4. \A p \in Queues : Held(p)' = Held(p)
      BY <2>1 DEF Held
    <2>5. \A p \in Queues : Held(p) \subseteq Reqs /\ \A i \in DOMAIN avail[p] : avail[p][i] \in Reqs
      BY <1>0 DEF RequestTypes, Held, JobShape
    <2>6. \A r \in Reqs : r <= posted => r <= n /\ r # n
      BY <2>2 DEF Reqs
    <2>7. finished \subseteq Reqs
      BY <1>0 DEF HistoryTypes
    <2> HIDE DEF n
    <2>8. \A p \in Queues : n \notin Held(p) /\ n \notin finished /\ \A i \in DOMAIN avail[p] : avail[p][i] # n
      BY <2>5, <2>6, <2>7 DEF RequestsAreDistinct
    <2>9. n <= n
      BY <2>2
    <2>10. \A p \in Queues : \A i \in DOMAIN avail'[p] :
             /\ avail'[p][i] <= posted' /\ avail'[p][i] \notin finished'
             /\ \A p2 \in Queues : avail'[p][i] \notin Held(p2)'
             /\ \A p2 \in Queues : \A j \in DOMAIN avail'[p2] : avail'[p2][j] = avail'[p][i] => p2 = p /\ i = j
      BY <2>1, <2>3, <2>4, <2>5, <2>6, <2>8, <2>9 DEF RequestsAreDistinct
    <2> QED BY <2>1, <2>4, <2>5, <2>6, <2>7, <2>10 DEF RequestsAreDistinct
  <1>3. ASSUME NEW q \in Queues, Submit(q) PROVE RequestsAreDistinct'
    <2>0. job[q].pc = "submit" /\ UNCHANGED <<posted, finished>>
      BY <1>3 DEF Submit, At, guestVars
    <2>1. CASE avail[q] = <<>>
      <3>1. job' = [job EXCEPT ![q] = IdleJob] /\ UNCHANGED <<avail, inflight>>
        BY <1>3, <2>1 DEF Submit
      <3>2. \A p \in Queues : Held(p)' = Held(p) /\ (job'[p].pc \in {"lock", "io"} => job'[p] = job[p])
        BY <1>0, <2>0, <3>1 DEF Held, JobTypes, Jobs, IdleJob
      <3> QED BY <1>1, <2>0, <3>1, <3>2 DEF RequestsAreDistinct
    <2>2. CASE avail[q] # <<>>
      <3> DEFINE r == Head(avail[q])
      <3>1. r \in Reqs /\ 1 \in DOMAIN avail[q] /\ r = avail[q][1]
        BY <1>0, <2>2 DEF RequestTypes
      <3>2. /\ avail' = [avail EXCEPT ![q] = Tail(@)]
            /\ \/ job' = [job EXCEPT ![q].pc = "lock", ![q].req = r] /\ inflight' = inflight
               \/ job' = job /\ inflight' = [inflight EXCEPT ![q] = @ \cup {r}]
        BY <1>3, <2>2 DEF Submit
      <3>3. ASSUME NEW p \in Queues, NEW i \in DOMAIN avail'[p]
            PROVE  \/ p # q /\ i \in DOMAIN avail[p] /\ avail'[p][i] = avail[p][i]
                   \/ p = q /\ i + 1 \in DOMAIN avail[q] /\ avail'[q][i] = avail[q][i + 1] /\ i + 1 # 1 /\ i \in Nat
        <4>1. CASE p # q
          BY <1>0, <3>2, <4>1 DEF RequestTypes
        <4>2. CASE p = q
          BY <1>0, <2>2, <3>2, <4>2 DEF RequestTypes
        <4> QED BY <4>1, <4>2
      <3> HIDE DEF r
      <3>4. /\ Held(q)' = Held(q) \cup {r} /\ \A p \in Queues \ {q} : Held(p)' = Held(p)
            /\ \A p \in Queues \ {q} : job'[p] = job[p] /\ inflight'[p] = inflight[p]
            /\ job'[q].pc \in {"lock", "io"} => job'[q].req = r /\ inflight'[q] = inflight[q]
        BY <1>0, <2>0, <3>1, <3>2 DEF Held, JobTypes, Jobs, RequestTypes
      <3>5. /\ \A p \in Queues : r \notin Held(p)
            /\ r <= posted /\ r \notin finished
            /\ \A p \in Queues : \A i \in DOMAIN avail[p] : avail[p][i] = r => p = q /\ i = 1
        BY <3>1 DEF RequestsAreDistinct
      <3>6. \A p \in Queues : \A i \in DOMAIN avail'[p] :
             /\ avail'[p][i] <= posted' /\ avail'[p][i] \notin finished'
             /\ \A p2 \in Queues : avail'[p][i] \notin Held(p2)'
        BY <2>0, <3>3, <3>4, <3>5 DEF RequestsAreDistinct
      <3>7. ASSUME NEW p \in Queues, NEW i \in DOMAIN avail'[p], NEW p2 \in Queues,
                   NEW j \in DOMAIN avail'[p2],
                   avail'[p2][j] = avail'[p][i]
            PROVE  p2 = p /\ i = j
        <4>1. p2 = p
          BY <3>3, <3>7 DEF RequestsAreDistinct
        <4>2. CASE p # q
          BY <3>3, <3>7, <4>1, <4>2 DEF RequestsAreDistinct
        <4>3. CASE p = q
          <5>1. i + 1 = j + 1 /\ i \in Nat /\ j \in Nat
            BY <3>3, <3>7, <4>1, <4>3 DEF RequestsAreDistinct
          <5> QED BY <4>1, <5>1
        <4> QED BY <4>2, <4>3
      <3>8. \A p \in Queues : inflight[p] \subseteq Held(p)
        BY DEF Held
      <3>9. \A p \in Queues : job'[p].pc \in {"lock", "io"} => job'[p].req \notin inflight'[p]
        BY <3>4, <3>5, <3>8 DEF RequestsAreDistinct
      <3> QED BY <2>0, <3>4, <3>5, <3>6, <3>7, <3>9 DEF RequestsAreDistinct
    <2> QED BY <2>1, <2>2
  <1>4. ASSUME NEW q \in Queues, SourceSubmitFails(q) PROVE RequestsAreDistinct'
    <2>1. /\ job[q].pc = "lock" /\ finished' = finished \cup {job[q].req}
          /\ job' = [job EXCEPT ![q] = [IdleJob EXCEPT !.pc = "submit"]] /\ UNCHANGED <<posted, inflight, avail>>
      BY <1>4 DEF SourceSubmitFails, At, guestVars, requestVars, ringVars
    <2>2. /\ Held(q)' = Held(q) \ {job[q].req} /\ job[q].req \in Held(q)
          /\ \A p \in Queues \ {q} : Held(p)' = Held(p) /\ job'[p] = job[p]
          /\ job'[q].pc = "submit"
      BY <1>0, <2>1 DEF Held, JobTypes, Jobs, IdleJob, RequestsAreDistinct
    <2>3. \A r \in finished' : \A p \in Queues : r \notin Held(p)'
      BY <2>1, <2>2 DEF RequestsAreDistinct
    <2>4. \A p \in Queues : job'[p].pc \in {"lock", "io"} => job'[p].req \notin inflight'[p]
      BY <2>1, <2>2 DEF RequestsAreDistinct
    <2> QED BY <1>1, <2>1, <2>2, <2>3, <2>4
  <1>5. ASSUME NEW q \in Queues, WaitForCompletions(q) PROVE RequestsAreDistinct'
    <2>1. /\ job[q].pc = "io" /\ UNCHANGED <<posted, avail, finished>>
          /\ job' = [job EXCEPT ![q] = [IdleJob EXCEPT !.pc = "submit"]]
          /\ inflight' = [inflight EXCEPT ![q] = @ \cup {job[q].req}]
      BY <1>5 DEF WaitForCompletions, At, guestVars, historyVars, ringVars
    <2>2. /\ \A p \in Queues : Held(p)' = Held(p)
          /\ \A p \in Queues \ {q} : inflight'[p] = inflight[p] /\ job'[p] = job[p]
          /\ job'[q].pc = "submit"
      BY <1>0, <2>1 DEF Held, JobTypes, Jobs, IdleJob, RequestTypes
    <2>3. \A r \in finished' : \A p \in Queues : r \notin Held(p)'
      BY <2>1, <2>2 DEF RequestsAreDistinct
    <2>4. \A p \in Queues : job'[p].pc \in {"lock", "io"} => job'[p].req \notin inflight'[p]
      BY <2>1, <2>2 DEF RequestsAreDistinct
    <2> QED BY <1>1, <2>1, <2>2, <2>3, <2>4
  <1>6. ASSUME NEW q \in Queues, Completion(q) \/ BlockCommand(q) PROVE RequestsAreDistinct'
    <2>1. Handles(q) /\ UNCHANGED <<posted, avail>>
      BY <1>0, <1>6, HandlesSteps DEF Completion, BlockCommand, guestVars, ringVars
    <2>2. /\ Held(q) = inflight[q] /\ Held(q)' = inflight'[q]
          /\ \A p \in Queues \ {q} : Held(p)' = Held(p)
      BY <2>1 DEF Handles, Held
    <2>3. finished' = finished \cup (inflight[q] \ inflight'[q])
      BY <1>0, <1>6 DEF Completion, BlockCommand, ProcessQueueComplete, requestVars, historyVars,
          RequestTypes
    <2>4. \A r \in finished' : \A p \in Queues : r \notin Held(p)'
      BY <2>1, <2>2, <2>3 DEF Handles, RequestsAreDistinct
    <2>5. \A p \in Queues : job'[p].pc \in {"lock", "io"} => job'[p].req \notin inflight'[p]
      BY <2>1 DEF Handles, RequestsAreDistinct
    <2> QED BY <1>1, <2>1, <2>2, <2>3, <2>4, <2>5 DEF Handles
  <1>7. ASSUME JoinWorkers, posted' = posted PROVE RequestsAreDistinct'
    <2>1. \A p \in Queues : job'[p].pc = "idle" /\ inflight'[p] = {} /\ avail'[p] = <<>> /\ inflight[p] \subseteq Held(p)
      BY <1>7 DEF JoinWorkers, AllIdle, Held
    <2>2. \A p \in Queues : Held(p)' = {}
      BY <2>1 DEF Held
    <2>3. \A r \in finished' : r \in finished \/ \E p \in Queues : r \in inflight[p]
      BY <1>7 DEF JoinWorkers
    <2> QED BY <1>1, <1>7, <2>1, <2>2, <2>3
  <1>8. ASSUME UNCHANGED <<posted, avail, inflight, finished>>,
               \A q \in Queues : (job[q].pc \in {"lock", "io"} \/ job'[q].pc \in {"lock", "io"}) =>
                 job[q].pc \in {"lock", "io"} /\ job'[q].pc \in {"lock", "io"} /\ job'[q].req = job[q].req
        PROVE  RequestsAreDistinct'
    <2>1. \A p \in Queues : Held(p)' = Held(p)
      BY <1>8 DEF Held
    <2> QED BY <1>1, <1>8, <2>1 DEF RequestsAreDistinct
  <1>9. ASSUME NEW q \in Queues,
               QueueAvail(q) \/ LockRange(q) \/ SourceIo(q) \/ DestinationIo(q) \/ DestinationSubmitFails(q)
        PROVE  RequestsAreDistinct'
    <2>1. UNCHANGED <<posted, avail, inflight, finished>>
      BY <1>9
      DEF QueueAvail, LockRange, SourceIo, DestinationIo, DestinationSubmitFails, guestVars,
          ringVars, requestVars,
          historyVars
    <2>2. /\ \A p \in Queues \ {q} : job'[p] = job[p]
          /\ job'[q].req = job[q].req
          /\ job[q].pc \in {"lock", "io"} <=> job'[q].pc \in {"lock", "io"}
      <3>1. CASE QueueAvail(q)
        BY <1>0, <3>1 DEF QueueAvail, SubmitOrDefer, At, JobTypes, Jobs
      <3>2. CASE LockRange(q)
        BY <1>0, <3>2 DEF LockRange, At, JobTypes, Jobs
      <3>3. CASE SourceIo(q) \/ DestinationIo(q) \/ DestinationSubmitFails(q)
        BY <1>0, <3>3 DEF SourceIo, DestinationIo, DestinationSubmitFails, JobTypes, Jobs
      <3> QED BY <1>9, <3>1, <3>2, <3>3
    <2> QED BY <1>8, <2>1, <2>2
  <1>10. CASE UNCHANGED <<posted, avail, inflight, finished, job>>
    BY <1>8, <1>10
  <1> QED
    BY <1>2, <1>3, <1>4, <1>5, <1>6, <1>7, <1>9, <1>10, PostedFrame, AvailFrame, InflightFrame,
        FinishedFrame, JobFrame
    DEF ResetDevice, DropBlock, guestVars

\* Where a queue that serves requests reads and writes.
LEMMA ServingDisk ==
    ASSUME TypeOK, CallShape, Acknowledged, Switching, NoneLeft, "complete" \notin Faults,
           NEW q \in Queues, active, ~stopped[q]
    PROVE  \/ disk # 0 /\ backend[q] = DestinationBackend(disk)
           \/ disk = 0 /\ api = "completeSwap" /\ backend[q] = DestinationBackend(handle)
           \/ disk = 0 /\ api # "completeSwap" /\ backend[q].kind # "destination"
  <1>1. CASE disk # 0
    BY <1>1 DEF Switching
  <1>2. CASE disk = 0 /\ api = "completeSwap"
    <2>1. q \in acks
      BY <1>2 DEF NoneLeft
    <2> QED BY <1>2, <2>1 DEF Acknowledged, Done
  <1>3. CASE disk = 0 /\ api # "completeSwap"
    BY <1>3 DEF Switching
  <1> QED BY <1>1, <1>2, <1>3

\* A queue with a request under way serves requests.
LEMMA HoldersServe ==
    ASSUME InactiveIsEmpty, StallShape, NEW q \in Queues, inflight[q] # {} \/ job[q].pc # "idle"
    PROVE  active /\ ~stopped[q]
  BY DEF InactiveIsEmpty, StallShape

\* A mirrored write reads and writes the source.
LEMMA MirroredOnSource ==
    ASSUME TypeOK, InactiveIsEmpty, JobShape, StallShape, CallShape, Acknowledged, Switching,
           NoneLeft,
           "complete" \notin Faults, NEW q \in Queues, job[q].pc \in {"lock", "io"}
    PROVE  disk = 0 /\ api # "completeSwap" /\ Image = src
  <1>1. backend[q].kind = "mirror" /\ active /\ ~stopped[q]
    BY HoldersServe DEF JobShape
  <1>2. disk = 0 /\ api # "completeSwap"
    BY <1>1, ServingDisk, NewBackends
  <1> QED BY <1>2 DEF Image

\* What a write overwrites was settled when it was submitted.
LEMMA OverStep ==
    ASSUME TypeOK, OverIsSettled, Next
    PROVE  OverIsSettled'
  <1>1. finished \subseteq finished'
    BY FinishedFrame DEF SourceSubmitFails, Completion, ProcessQueueComplete, ResetDevice,
        DropBlock, JoinWorkers
  <1>2. ASSUME NEW q \in Queues, Submit(q) PROVE OverIsSettled'
    <2>1. CASE over' = over
      BY <1>1, <2>1 DEF OverIsSettled
    <2>2. CASE over' # over
      <3> DEFINE r == Head(avail[q])
      <3>1. over' = [over EXCEPT ![r] = legal[target[r]] \cap (finished \cup {0})]
        BY <1>2, <2>2 DEF Submit
      <3> HIDE DEF r
      <3>2. over \in [Reqs -> SUBSET Data]
        BY DEF TypeOK, HistoryTypes
      <3> QED BY <1>1, <3>1, <3>2 DEF OverIsSettled
    <2> QED BY <2>1, <2>2
  <1>3. CASE over' = over
    BY <1>1, <1>3 DEF OverIsSettled
  <1> QED BY <1>2, <1>3, OverFrame

\* A request that a queue takes hold of comes from its ring.
LEMMA HeldEffects ==
    ASSUME TypeOK, JobShape, Next, NEW p \in Queues, NEW r \in Held(p)', r \notin Held(p)
    PROVE  Submit(p) /\ avail[p] # <<>> /\ r = Head(avail[p])
  <1>0. JobTypes /\ RequestTypes /\ CommandTypes /\ BackendTypes BY DEF TypeOK
  <1>1. ASSUME NEW q \in Queues, Submit(q) PROVE Submit(p) /\ avail[p] # <<>> /\ r = Head(avail[p])
    <2>1. CASE avail[q] = <<>>
      <3>1. job' = [job EXCEPT ![q] = IdleJob] /\ inflight' = inflight
        BY <1>1, <2>1 DEF Submit
      <3> QED BY <1>0, <3>1 DEF Held, JobTypes, Jobs, IdleJob
    <2>2. CASE avail[q] # <<>>
      <3> DEFINE h == Head(avail[q])
      <3>1. \/ job' = [job EXCEPT ![q].pc = "lock", ![q].req = h] /\ inflight' = inflight
            \/ job' = job /\ inflight' = [inflight EXCEPT ![q] = @ \cup {h}]
        BY <1>1, <2>2 DEF Submit
      <3> HIDE DEF h
      <3>2. p = q /\ r = h
        BY <1>0, <3>1 DEF Held, JobTypes, Jobs, RequestTypes
      <3> QED BY <1>1, <2>2, <3>2 DEF h
    <2> QED BY <2>1, <2>2
  <1>2. ASSUME NEW q \in Queues, SourceSubmitFails(q) PROVE FALSE
    <2>1. job' = [job EXCEPT ![q] = [IdleJob EXCEPT !.pc = "submit"]] /\ inflight' = inflight
      BY <1>2 DEF SourceSubmitFails, requestVars
    <2> QED BY <1>0, <2>1 DEF Held, JobTypes, Jobs, IdleJob
  <1>3. ASSUME NEW q \in Queues, WaitForCompletions(q) PROVE FALSE
    <2>1. /\ job' = [job EXCEPT ![q] = [IdleJob EXCEPT !.pc = "submit"]] /\ job[q].pc = "io"
          /\ inflight' = [inflight EXCEPT ![q] = @ \cup {job[q].req}]
      BY <1>3 DEF WaitForCompletions, At
    <2> QED BY <1>0, <2>1 DEF Held, JobTypes, Jobs, IdleJob, RequestTypes
  <1>4. ASSUME NEW q \in Queues, Completion(q) \/ BlockCommand(q) PROVE FALSE
    <2>1. Handles(q)
      BY <1>0, <1>4, HandlesSteps
    <2> QED BY <2>1 DEF Handles, Held
  <1>5. ASSUME JoinWorkers PROVE FALSE
    BY <1>5 DEF JoinWorkers, AllIdle, Held
  <1>6. ASSUME NEW q \in Queues, inflight' = inflight,
               QueueAvail(q) \/ LockRange(q) \/ SourceIo(q) \/ DestinationIo(q) \/ DestinationSubmitFails(q)
        PROVE  FALSE
    <2>1. /\ \A k \in Queues \ {q} : job'[k] = job[k]
          /\ job'[q].req = job[q].req
          /\ job[q].pc \in {"lock", "io"} <=> job'[q].pc \in {"lock", "io"}
      <3>1. CASE QueueAvail(q)
        BY <1>0, <3>1 DEF QueueAvail, SubmitOrDefer, At, JobTypes, Jobs
      <3>2. CASE LockRange(q)
        BY <1>0, <3>2 DEF LockRange, At, JobTypes, Jobs
      <3>3. CASE SourceIo(q) \/ DestinationIo(q) \/ DestinationSubmitFails(q)
        BY <1>0, <3>3 DEF SourceIo, DestinationIo, DestinationSubmitFails, JobTypes, Jobs
      <3> QED BY <1>6, <3>1, <3>2, <3>3
    <2> QED BY <1>6, <2>1 DEF Held
  <1>7. CASE UNCHANGED <<inflight, job>>
    BY <1>7 DEF Held
  <1> QED
    BY <1>1, <1>2, <1>3, <1>4, <1>5, <1>6, <1>7, InflightFrame, JobFrame DEF ResetDevice, DropBlock

\* The block of a request that was posted does not change.
LEMMA TargetEffects ==
    ASSUME TypeOK, Next, NEW r \in Reqs, r <= posted
    PROVE  target'[r] = target[r] /\ posted <= posted' /\ posted \in Nat /\ posted' \in Nat
  <1>0. RequestTypes BY DEF TypeOK
  <1>1. posted \in Nat /\ r \in Nat
    BY <1>0, ConstantsAssumption DEF RequestTypes, Reqs
  <1>2. ASSUME NEW q \in Queues, NEW b \in Blocks, GuestWrite(q, b)
        PROVE  target'[r] = target[r] /\ posted' = posted + 1
    <2>1. target' = [target EXCEPT ![posted + 1] = b] /\ posted' = posted + 1
      BY <1>2 DEF GuestWrite
    <2>2. r # posted + 1
      BY <1>1
    <2> QED BY <1>0, <2>1, <2>2 DEF RequestTypes
  <1> QED BY <1>1, <1>2, TargetFrame, PostedFrame

\* A request under way is a request.
LEMMA HeldTypes ==
    ASSUME TypeOK, JobShape, NEW q \in Queues, NEW r \in Held(q)
    PROVE  r \in Reqs /\ r # 0
  BY ConstantsAssumption DEF TypeOK, RequestTypes, Held, JobShape, Reqs

\* A write under way may be read until the guest hears that it failed.
LEMMA HeldLegalStep ==
    ASSUME TypeOK, JobShape, RequestsAreDistinct, RequestsAreDistinct', OverIsSettled, HeldIsLegal,
           Next
    PROVE  HeldIsLegal'
  <1>0. HistoryTypes /\ RequestTypes BY DEF TypeOK
  <1>1. SUFFICES ASSUME NEW q \in Queues, NEW r \in Held(q)'
                 PROVE  r \in legal'[target'[r]]
    BY DEF HeldIsLegal
  <1>2. CASE r \in Held(q)
    <2>1. r \in Reqs /\ r <= posted /\ r \notin finished /\ r # 0 /\ r \in legal[target[r]]
      BY <1>2, HeldTypes DEF RequestsAreDistinct, HeldIsLegal
    <2>2. target'[r] = target[r] /\ target[r] \in Blocks
      BY <1>0, <2>1, TargetEffects DEF RequestTypes
    <2>3. ASSUME NEW p \in Queues, Submit(p) PROVE legal[target[r]] \subseteq legal'[target[r]]
      <3> DEFINE h == Head(avail[p])
      <3>1. legal' = legal \/ legal' = [legal EXCEPT ![target[h]] = @ \cup {h}]
        BY <2>3 DEF Submit
      <3> HIDE DEF h
      <3> QED BY <1>0, <2>2, <3>1 DEF HistoryTypes
    <2>4. ASSUME NEW p \in Queues, SourceSubmitFails(p) PROVE r \in legal'[target[r]]
      <3>1. /\ legal' = [legal EXCEPT ![target[job[p].req]] = @ \ {job[p].req}]
            /\ job[p].req \in finished'
        BY <2>4 DEF SourceSubmitFails
      <3>2. r # job[p].req
        BY <3>1 DEF RequestsAreDistinct
      <3> QED BY <1>0, <2>1, <2>2, <3>1, <3>2 DEF HistoryTypes
    <2>5. ASSUME NEW p \in Queues, Completion(p) PROVE r \in legal'[target[r]]
      <3>1. r \in legal'[target[r]] \/ \E x \in inflight[p] : r \in over[x]
        BY <2>1, <2>2, <2>5 DEF Completion, ProcessQueueComplete
      <3>2. \A x \in inflight[p] : r \notin over[x]
        BY <1>0, <2>1 DEF OverIsSettled, RequestTypes
      <3> QED BY <3>1, <3>2
    <2> QED BY <2>1, <2>2, <2>3, <2>4, <2>5, LegalFrame
  <1>3. CASE r \notin Held(q)
    <2>1. Submit(q) /\ avail[q] # <<>> /\ r = Head(avail[q])
      BY <1>3, HeldEffects
    <2>2. r \in Reqs
      BY <1>0, <2>1 DEF RequestTypes
    <2>3. legal' = [legal EXCEPT ![target[r]] = @ \cup {r}] /\ target' = target
      BY <2>1 DEF Submit, guestVars
    <2> QED BY <1>0, <2>2, <2>3 DEF HistoryTypes, RequestTypes
  <1> QED BY <1>2, <1>3

\* What changes the source: a request that is under way.
LEMMA SourceEffects ==
    ASSUME TypeOK, JobShape, Next, NEW b \in Blocks, src'[b] # src[b]
    PROVE  \E q \in Queues, r \in Reqs :
              /\ r = src'[b] /\ target[r] = b
              /\ \/ SourceIo(q) /\ job[q].pc = "io" /\ r = job[q].req
                 \/ HostCompletes(q, r) /\ r \in inflight[q]
                 \/ JoinWorkers /\ api = "idle" /\ r \in inflight[q]
  <1>0. DiskTypes /\ RequestTypes BY DEF TypeOK
  <1>1. ASSUME NEW q \in Queues, SourceIo(q)
        PROVE  job[q].pc = "io" /\ job[q].req \in Reqs /\ src'[b] = job[q].req /\ target[job[q].req] = b
    <2>1. job[q].pc = "io" /\ job[q].req \in Reqs
      BY <1>1 DEF SourceIo, At, JobShape
    <2>2. src' = [src EXCEPT ![target[job[q].req]] = job[q].req]
      BY <1>1 DEF SourceIo
    <2> QED BY <1>0, <2>1, <2>2 DEF DiskTypes
  <1>2. ASSUME NEW q \in Queues, NEW r \in Reqs, HostCompletes(q, r)
        PROVE  r \in inflight[q] /\ src'[b] = r /\ target[r] = b
    <2>1. r \in inflight[q] /\ src' = [src EXCEPT ![target[r]] = r]
      BY <1>2 DEF HostCompletes, diskVars
    <2> QED BY <1>0, <2>1 DEF DiskTypes
  <1>3. ASSUME JoinWorkers
        PROVE  \E q \in Queues : \E r \in inflight[q] : src'[b] = r /\ target[r] = b
    <2>1. src'[b] \in {src[b]} \cup {r \in {x \in UNION {inflight[q] : q \in Queues} : result[x] = "pending"} : target[r] = b}
      BY <1>3 DEF JoinWorkers
    <2> QED BY <2>1
  <1>4. ASSUME NEW q \in Queues, DestinationIo(q) PROVE FALSE
    BY <1>4 DEF DestinationIo
  <1>5. ASSUME CopyWrite PROVE FALSE
    BY <1>5 DEF CopyWrite
  <1>6. ResetDevice \/ DropBlock => JoinWorkers /\ api = "idle"
    BY DEF ResetDevice, DropBlock, ApiAt
  <1>7. \A q \in Queues : inflight[q] \subseteq Reqs
    BY <1>0 DEF RequestTypes
  <1> QED BY <1>1, <1>2, <1>3, <1>4, <1>5, <1>6, <1>7, DiskFrame

\* The source holds no write before it was submitted.
LEMMA SourceStep ==
    ASSUME TypeOK, JobShape, RequestsAreDistinct, SourceIsSubmitted, Next
    PROVE  SourceIsSubmitted'
  <1>0. DiskTypes /\ RequestTypes /\ JobTypes /\ BackendTypes /\ CommandTypes BY DEF TypeOK
  <1>1. \A q \in Queues : inflight[q] \subseteq Held(q) /\ (job[q].pc \in {"lock", "io"} => job[q].req \in Held(q))
    BY DEF Held
  <1>2. SUFFICES ASSUME NEW b \in Blocks
                 PROVE  /\ src'[b] <= posted'
                        /\ \A q \in Queues : /\ job'[q].pc = "lock" => src'[b] # job'[q].req
                                             /\ \A i \in DOMAIN avail'[q] : src'[b] # avail'[q][i]
    BY DEF SourceIsSubmitted
  <1>3. CASE src'[b] # src[b]
    <2>1. PICK q \in Queues, r \in Reqs :
              /\ r = src'[b] /\ target[r] = b
              /\ \/ SourceIo(q) /\ job[q].pc = "io" /\ r = job[q].req
                 \/ HostCompletes(q, r) /\ r \in inflight[q]
                 \/ JoinWorkers /\ api = "idle" /\ r \in inflight[q]
      BY <1>3, SourceEffects
    <2>2. r \in Held(q) /\ r <= posted
      BY <1>1, <2>1 DEF RequestsAreDistinct
    <2>3. r <= posted'
      BY <2>2, TargetEffects DEF Reqs
    <2>4. CASE JoinWorkers
      BY <2>1, <2>3, <2>4 DEF JoinWorkers, AllIdle
    <2>5. CASE SourceIo(q) /\ job[q].pc = "io" /\ r = job[q].req
      <3>1. UNCHANGED <<avail, inflight>> /\ \A p \in Queues : job'[p].pc = job[p].pc /\ job'[p].req = job[p].req
        BY <1>0, <2>5 DEF SourceIo, ringVars, requestVars, JobTypes, Jobs
      <3>2. \A p \in Queues : job[p].pc = "lock" => job[p].req # r
        BY <1>1, <2>2, <2>5 DEF RequestsAreDistinct
      <3> QED BY <2>1, <2>2, <2>3, <3>1, <3>2 DEF RequestsAreDistinct
    <2>6. CASE HostCompletes(q, r) /\ r \in inflight[q]
      <3>1. UNCHANGED <<avail, inflight, job>>
        BY <2>6 DEF HostCompletes, ringVars
      <3>2. \A p \in Queues : job[p].pc = "lock" => job[p].req # r
        BY <1>1, <2>2, <2>6 DEF RequestsAreDistinct
      <3> QED BY <2>1, <2>2, <2>3, <3>1, <3>2 DEF RequestsAreDistinct
    <2> QED BY <2>1, <2>4, <2>5, <2>6
  <1>4. CASE src'[b] = src[b]
    <2>1. src'[b] <= posted' /\ src[b] <= posted /\ src[b] \in Nat /\ posted \in Nat
      <3>1. src[b] <= posted /\ src[b] \in Nat /\ posted \in Nat
        BY <1>0, ConstantsAssumption DEF SourceIsSubmitted, DiskTypes, Data, Junk, RequestTypes
      <3>2. posted' = posted \/ posted' = posted + 1
        BY PostedFrame DEF GuestWrite
      <3> QED BY <1>4, <3>1, <3>2
    <2>2. ASSUME NEW q \in Queues, job'[q].pc = "lock" PROVE src[b] # job'[q].req
      <3>1. CASE job[q].pc = "lock" /\ job'[q].req = job[q].req
        BY <3>1 DEF SourceIsSubmitted
      <3>2. ASSUME NEW p \in Queues, Submit(p)
            PROVE  (job[q].pc = "lock" /\ job'[q].req = job[q].req) \/ src[b] # job'[q].req
        <4>1. CASE avail[p] = <<>>
          <5>1. job' = [job EXCEPT ![p] = IdleJob]
            BY <3>2, <4>1 DEF Submit
          <5> QED BY <1>0, <2>2, <5>1 DEF JobTypes, Jobs, IdleJob
        <4>2. CASE avail[p] # <<>>
          <5> DEFINE h == Head(avail[p])
          <5>1. job' = job \/ job' = [job EXCEPT ![p].pc = "lock", ![p].req = h]
            BY <3>2, <4>2 DEF Submit
          <5>2. 1 \in DOMAIN avail[p] /\ h = avail[p][1]
            BY <1>0, <4>2 DEF RequestTypes
          <5>3. src[b] # h
            BY <5>2 DEF SourceIsSubmitted
          <5> HIDE DEF h
          <5> QED BY <1>0, <2>2, <5>1, <5>3 DEF JobTypes, Jobs
        <4> QED BY <4>1, <4>2
      <3>3. ASSUME NEW p \in Queues, SourceSubmitFails(p) \/ WaitForCompletions(p)
            PROVE  job[q].pc = "lock" /\ job'[q].req = job[q].req
        <4>1. job' = [job EXCEPT ![p] = [IdleJob EXCEPT !.pc = "submit"]]
          BY <3>3 DEF SourceSubmitFails, WaitForCompletions
        <4> QED BY <1>0, <2>2, <4>1 DEF JobTypes, Jobs, IdleJob
      <3>4. ASSUME NEW p \in Queues, QueueAvail(p) \/ LockRange(p)
            PROVE  job[q].pc = "lock" /\ job'[q].req = job[q].req
        BY <1>0, <2>2, <3>4 DEF QueueAvail, SubmitOrDefer, LockRange, JobTypes, Jobs
      <3>5. ASSUME NEW p \in Queues, SourceIo(p) \/ DestinationIo(p) \/ DestinationSubmitFails(p)
            PROVE  job[q].pc = "lock" /\ job'[q].req = job[q].req
        BY <1>0, <2>2, <3>5 DEF SourceIo, DestinationIo, DestinationSubmitFails, JobTypes, Jobs
      <3>6. ASSUME NEW p \in Queues, Completion(p) \/ BlockCommand(p)
            PROVE  job[q].pc = "lock" /\ job'[q].req = job[q].req
        <4>1. Handles(p)
          BY <1>0, <3>6, HandlesSteps
        <4> QED BY <2>2, <4>1 DEF Handles
      <3>7. CASE job' = job
        BY <2>2, <3>1, <3>7
      <3> QED BY <3>1, <3>2, <3>3, <3>4, <3>5, <3>6, <3>7, JobFrame
    <2>3. ASSUME NEW q \in Queues, NEW i \in DOMAIN avail'[q] PROVE src[b] # avail'[q][i]
      <3>1. ASSUME NEW p \in Queues, NEW c \in Blocks, GuestWrite(p, c) PROVE src[b] # avail'[q][i]
        <4>1. avail' = [avail EXCEPT ![p] = Append(@, posted + 1)] /\ posted + 1 \in Reqs
          BY <1>0, <3>1, ConstantsAssumption DEF GuestWrite, RequestTypes, Reqs
        <4>2. \/ i \in DOMAIN avail[q] /\ avail'[q][i] = avail[q][i]
              \/ avail'[q][i] = posted + 1
          <5>1. CASE p # q
            BY <1>0, <4>1, <5>1 DEF RequestTypes
          <5>2. CASE p = q
            BY <1>0, <2>3, <4>1, <5>2 DEF RequestTypes
          <5> QED BY <5>1, <5>2
        <4> QED BY <2>1, <4>2 DEF SourceIsSubmitted
      <3>2. ASSUME NEW p \in Queues, Submit(p) PROVE src[b] # avail'[q][i]
        <4>1. \/ avail' = avail
              \/ avail[p] # <<>> /\ avail' = [avail EXCEPT ![p] = Tail(@)]
          BY <3>2 DEF Submit
        <4>2. \E j \in DOMAIN avail[q] : avail'[q][i] = avail[q][j]
          <5>1. CASE p # q \/ avail' = avail
            BY <1>0, <2>3, <4>1, <5>1 DEF RequestTypes
          <5>2. CASE p = q /\ avail[q] # <<>> /\ avail' = [avail EXCEPT ![q] = Tail(@)]
            <6>1. i + 1 \in DOMAIN avail[q] /\ avail'[q][i] = avail[q][i + 1]
              BY <1>0, <2>3, <5>2 DEF RequestTypes
            <6> QED BY <6>1
          <5> QED BY <4>1, <5>1, <5>2
        <4> QED BY <4>2 DEF SourceIsSubmitted
      <3>3. CASE ResetDevice \/ DropBlock
        BY <2>3, <3>3 DEF ResetDevice, DropBlock, JoinWorkers
      <3>4. CASE avail' = avail
        BY <2>3, <3>4 DEF SourceIsSubmitted
      <3> QED BY <3>1, <3>2, <3>3, <3>4, AvailFrame
    <2> QED BY <1>4, <2>1, <2>2, <2>3
  <1> QED BY <1>3, <1>4

\* The disks agree when the queues are switched over.
LEMMA SwitchInSync ==
    ASSUME TypeOK, InactiveIsEmpty, StallShape, CallShape, CopyShape, LockShape, Switching, Sync,
           api = "switch", NEW b \in Blocks
    PROVE  disk = 0 /\ handle # 0 /\ src[b] = dst[handle][b]
  <1>1. handle # 0 /\ phase[handle] = "Ready" /\ disk = 0 /\ handle \in Mirrors
    BY ConstantsAssumption DEF CallShape, TypeOK, ApiTypes, Mirrors
  <1>2. copy.mirror = handle /\ copy.block > NBlocks /\ copy.pc = "done"
    BY <1>1 DEF CopyShape
  <1>3. \A q \in Queues : job[q].pc = "idle"
    BY DEF InactiveIsEmpty, Switching, StallShape
  <1>4. lock[handle][b] = Free
    <2>1. lock[handle][b] \in {Free, CopyParty} \cup Queues
      BY <1>1 DEF TypeOK, LockTypes
    <2>2. ~CopiesBlock(handle, b) /\ \A q \in Queues : ~Writes(q, handle, b)
      BY <1>2, <1>3 DEF CopiesBlock, Writes
    <2> QED BY <1>1, <2>1, <2>2 DEF LockShape
  <1>5. b < copy.block
    BY <1>2, ConstantsAssumption DEF TypeOK, CopyTypes, Copies, Blocks
  <1> QED BY <1>1, <1>4, <1>5 DEF Sync, InSync, Alive

\* What changes the content that the guest reads: a request that is under way.
LEMMA ImageEffects ==
    ASSUME TypeOK, InactiveIsEmpty, JobShape, StallShape, CallShape, CopyShape, LockShape,
           Acknowledged,
           Switching, NoneLeft, Sync, "complete" \notin Faults, Next, NEW b \in Blocks, Image'[b] # Image[b]
    PROVE  /\ \E q \in Queues : \E r \in Held(q) : r = Image'[b] /\ target[r] = b
           /\ UNCHANGED <<over, legal, target>>
  <1>0. DiskTypes /\ RequestTypes /\ ApiTypes /\ BackendTypes BY DEF TypeOK
  <1>1. \A q \in Queues : inflight[q] \subseteq Held(q) /\ (job[q].pc \in {"lock", "io"} => job[q].req \in Held(q))
    BY DEF Held
  <1>2. CASE Switch
    <2>1. api = "switch" /\ api' = "completeSwap" /\ UNCHANGED <<src, dst, disk, handle>>
      BY <1>2 DEF Switch, ApiAt, notApi, diskVars, blockVars
    <2>2. disk = 0 /\ src[b] = dst[handle][b]
      BY <2>1, SwitchInSync
    <2> QED BY <2>1, <2>2 DEF Image
  <1>3. CASE CompleteSwapped
    <2>1. api = "completeSwap" /\ disk' = handle /\ UNCHANGED <<src, dst>>
      BY <1>3 DEF CompleteSwapped, CompletedDisk, ApiAt, notApi, diskVars
    <2>2. handle # 0 /\ disk = 0
      BY <2>1 DEF CallShape
    <2> QED BY <2>1, <2>2 DEF Image
  <1>4. ASSUME NEW q \in Queues, SourceIo(q)
        PROVE  src'[b] # src[b] /\ UNCHANGED <<over, legal, target>>
    <2>1. disk = 0 /\ api # "completeSwap" /\ UNCHANGED <<disk, api, over, legal, target>>
      BY <1>4, MirroredOnSource DEF SourceIo, At, blockVars, historyVars, guestVars
    <2> QED BY <2>1 DEF Image
  <1>5. ASSUME NEW q \in Queues, DestinationIo(q) PROVE FALSE
    <2>1. disk = 0 /\ api # "completeSwap" /\ UNCHANGED <<disk, api, src>>
      BY <1>5, MirroredOnSource DEF DestinationIo, At, blockVars
    <2> QED BY <2>1 DEF Image
  <1>6. CASE CopyWrite
    <2>1. UNCHANGED <<disk, api, handle, src>> /\ dst' = [dst EXCEPT ![copy.mirror][copy.block] = copy.buffer]
          /\ copy.pc = "write"
      BY <1>6 DEF CopyWrite, CopyAt, notCopy, blockVars
    <2>2. disk = 0 /\ api # "completeSwap"
      BY <2>1 DEF CopyShape, CallShape
    <2> QED BY <2>1, <2>2 DEF Image
  <1>7. ASSUME NEW q \in Queues, NEW r \in Reqs, HostCompletes(q, r)
        PROVE  /\ r \in inflight[q] /\ Image'[b] = r /\ target[r] = b
               /\ UNCHANGED <<over, legal, target>>
    <2>1. /\ r \in inflight[q] /\ UNCHANGED <<disk, api, handle, over, legal, target>>
          /\ \/ backend[q].kind = "destination" /\ dst' = [dst EXCEPT ![backend[q].mirror][target[r]] = r] /\ src' = src
             \/ backend[q].kind # "destination" /\ src' = [src EXCEPT ![target[r]] = r] /\ dst' = dst
             \/ src' = src /\ dst' = dst
      BY <1>7 DEF HostCompletes, blockVars, historyVars, guestVars, diskVars
    <2>2. active /\ ~stopped[q]
      BY <2>1, HoldersServe
    <2>3. CASE disk # 0 /\ backend[q] = DestinationBackend(disk)
      <3>1. disk \in Mirrors /\ backend[q].kind = "destination" /\ backend[q].mirror = disk
        BY <1>0, <2>3, NewBackends, ConstantsAssumption DEF ApiTypes, Mirrors
      <3> QED BY <1>0, <2>1, <2>3, <3>1 DEF Image, DiskTypes
    <2>4. CASE disk = 0 /\ api = "completeSwap" /\ backend[q] = DestinationBackend(handle)
      <3>1. handle \in Mirrors /\ backend[q].kind = "destination" /\ backend[q].mirror = handle
        BY <1>0, <2>4, NewBackends, ConstantsAssumption DEF ApiTypes, Mirrors, CallShape
      <3> QED BY <1>0, <2>1, <2>4, <3>1 DEF Image, DiskTypes
    <2>5. CASE disk = 0 /\ api # "completeSwap" /\ backend[q].kind # "destination"
      BY <1>0, <2>1, <2>5 DEF Image, DiskTypes
    <2> QED BY <2>2, <2>3, <2>4, <2>5, ServingDisk
  <1>8. ASSUME ResetDevice \/ DropBlock
        PROVE  /\ \E q \in Queues : \E r \in inflight[q] : r = Image'[b] /\ target[r] = b
               /\ UNCHANGED <<over, legal, target>>
    <2>1. /\ JoinWorkers /\ api = "idle" /\ api' # "completeSwap" /\ UNCHANGED <<disk, handle, over, legal, target>>
      BY <1>8 DEF ResetDevice, DropBlock, ApiAt, JoinWorkers, guestVars
    <2> DEFINE late == {r \in UNION {inflight[q] : q \in Queues} : result[r] = "pending"}
    <2>2. CASE disk = 0
      <3>1. src'[b] \in {src[b]} \cup {r \in late : target[r] = b}
        BY <2>1, <2>2 DEF JoinWorkers
      <3>2. Image'[b] = src'[b] /\ Image[b] = src[b]
        BY <2>1, <2>2 DEF Image
      <3> QED BY <2>1, <3>1, <3>2
    <2>3. CASE disk # 0
      <3>0. disk \in Mirrors
        BY <1>0, <2>3, ConstantsAssumption DEF ApiTypes, Mirrors
      <3>1. PICK d \in [Blocks -> Data] :
               /\ d[b] \in {dst[disk][b]} \cup {r \in late : target[r] = b}
               /\ dst' = [dst EXCEPT ![disk] = d]
        BY <2>1, <2>3 DEF JoinWorkers
      <3>2. Image'[b] = d[b] /\ Image[b] = dst[disk][b]
        BY <1>0, <2>1, <2>3, <3>0, <3>1 DEF Image, DiskTypes
      <3> QED BY <2>1, <3>1, <3>2
    <2> QED BY <2>2, <2>3
  <1>9. CASE UNCHANGED <<src, dst, disk>> /\ ~Switch /\ ~CompleteSwapped
    <2>1. (api = "completeSwap") <=> (api' = "completeSwap")
      BY <1>9, ApiFrame
      DEF StartMirror, CompleteMirror, CancelMirror, InstallAcked, InstallFails, Rollback,
          RevertEnds, DrainFails,
          RevertQueues, CancelDrained, CancelRevertFails, CancelReverted, CancelJoined, DropJoined,
              DropBlock,
          CompleteDrained, ApiAt
    <2>2. api = "completeSwap" => handle' = handle
      BY <1>9, HandleFrame DEF InstallAcked, CancelReverted, DropJoined, ApiAt
    <2> QED BY <1>9, <2>1, <2>2 DEF Image
  <1>10. ASSUME src'[b] # src[b]
         PROVE  \E q \in Queues : \E r \in Held(q) : r = src'[b] /\ target[r] = b
    BY <1>1, <1>10, SourceEffects
  <1>11. ASSUME NEW q \in Queues, SourceIo(q) PROVE Image'[b] = src'[b]
    BY <1>11, MirroredOnSource DEF SourceIo, At, blockVars, Image
  <1> QED BY <1>1, <1>2, <1>3, <1>4, <1>5, <1>6, <1>7, <1>8, <1>9, <1>10, <1>11, DiskFrame,
      DiskImageFrame

\* A request is executed by writing the content that the guest reads.
LEMMA ExecutedEffects ==
    ASSUME TypeOK, InactiveIsEmpty, JobShape, StallShape, CallShape, Acknowledged, Switching,
           NoneLeft,
           RequestsAreDistinct, "complete" \notin Faults, Next, NEW q \in Queues, NEW r \in Executed(q)', r \notin Executed(q)
    PROVE  r \in Held(q) /\ Image'[target[r]] = r /\ UNCHANGED <<over, target>>
  <1>0. DiskTypes /\ RequestTypes /\ ApiTypes /\ JobTypes /\ BackendTypes /\ CommandTypes BY DEF TypeOK
  <1>1. ASSUME NEW p \in Queues, SourceIo(p)
        PROVE  r \in Held(q) /\ Image'[target[r]] = r /\ UNCHANGED <<over, target>>
    <2>1. /\ job[p].pc = "io" /\ job[p].req \in Reqs /\ UNCHANGED <<disk, api, over, target, inflight, result>>
          /\ disk = 0 /\ api # "completeSwap"
      BY <1>1, MirroredOnSource
      DEF SourceIo, At, JobShape, blockVars, historyVars, guestVars, requestVars
    <2>2. \/ job' = [job EXCEPT ![p].sio = "ok"] /\ src' = [src EXCEPT ![target[job[p].req]] = job[p].req]
          \/ job' = [job EXCEPT ![p].sio = "error"]
      BY <1>1 DEF SourceIo
    <2>3. p = q /\ r = job[q].req /\ job' = [job EXCEPT ![p].sio = "ok"]
      BY <1>0, <2>1, <2>2 DEF Executed, JobTypes, Jobs
    <2>4. src' = [src EXCEPT ![target[r]] = r] /\ target[r] \in Blocks
      <3>1. [job EXCEPT ![p].sio = "ok"] # [job EXCEPT ![p].sio = "error"]
        BY <1>0 DEF JobTypes, Jobs
      <3> QED BY <1>0, <2>1, <2>2, <2>3, <3>1 DEF RequestTypes
    <2> QED BY <1>0, <2>1, <2>3, <2>4 DEF Held, Image, DiskTypes
  <1>2. ASSUME NEW p \in Queues, NEW x \in Reqs, HostCompletes(p, x)
        PROVE  r \in Held(q) /\ Image'[target[r]] = r /\ UNCHANGED <<over, target>>
    <2>1. /\ x \in inflight[p] /\ UNCHANGED <<disk, api, handle, over, target, inflight, job>>
          /\ \/ /\ result' = [result EXCEPT ![x] = "ok"]
                /\ \/ /\ backend[p].kind = "destination"
                      /\ dst' = [dst EXCEPT ![backend[p].mirror][target[x]] = x]
                   \/ backend[p].kind # "destination" /\ src' = [src EXCEPT ![target[x]] = x]
             \/ result' = [result EXCEPT ![x] = "error"]
      BY <1>2 DEF HostCompletes, blockVars, historyVars, guestVars
    <2>2. x = r /\ result'[r] = "ok" /\ r \in inflight[q]
      BY <1>0, <2>1 DEF Executed, RequestTypes
    <2>3. /\ target[r] \in Blocks
          /\ \/ backend[p].kind = "destination" /\ dst' = [dst EXCEPT ![backend[p].mirror][target[r]] = r]
             \/ backend[p].kind # "destination" /\ src' = [src EXCEPT ![target[r]] = r]
      BY <1>0, <2>1, <2>2 DEF RequestTypes
    <2>4. active /\ ~stopped[p]
      BY <2>1, HoldersServe
    <2>5. CASE disk # 0 /\ backend[p] = DestinationBackend(disk)
      <3>1. disk \in Mirrors /\ backend[p].kind = "destination" /\ backend[p].mirror = disk
        BY <1>0, <2>5, NewBackends, ConstantsAssumption DEF ApiTypes, Mirrors
      <3> QED BY <1>0, <2>1, <2>2, <2>3, <2>5, <3>1 DEF Image, DiskTypes, Held
    <2>6. CASE disk = 0 /\ api = "completeSwap" /\ backend[p] = DestinationBackend(handle)
      <3>1. handle \in Mirrors /\ backend[p].kind = "destination" /\ backend[p].mirror = handle
        BY <1>0, <2>6, NewBackends, ConstantsAssumption DEF ApiTypes, Mirrors, CallShape
      <3> QED BY <1>0, <2>1, <2>2, <2>3, <2>6, <3>1 DEF Image, DiskTypes, Held
    <2>7. CASE disk = 0 /\ api # "completeSwap" /\ backend[p].kind # "destination"
      BY <1>0, <2>1, <2>2, <2>3, <2>7 DEF Image, DiskTypes, Held
    <2> QED BY <2>4, <2>5, <2>6, <2>7, ServingDisk
  <1>3. ASSUME NEW p \in Queues, Submit(p) PROVE FALSE
    <2>1. CASE avail[p] = <<>>
      <3>1. job' = [job EXCEPT ![p] = IdleJob] /\ UNCHANGED <<inflight, result>>
        BY <1>3, <2>1 DEF Submit
      <3> QED BY <1>0, <3>1 DEF Executed, JobTypes, Jobs, IdleJob
    <2>2. CASE avail[p] # <<>>
      <3> DEFINE h == Head(avail[p])
      <3>1. \/ job' = [job EXCEPT ![p].pc = "lock", ![p].req = h] /\ UNCHANGED <<inflight, result>>
            \/ /\ job' = job /\ inflight' = [inflight EXCEPT ![p] = @ \cup {h}]
               /\ result' = [result EXCEPT ![h] = "pending"]
        BY <1>3, <2>2 DEF Submit
      <3>2. h \in Reqs
        BY <1>0, <2>2 DEF RequestTypes
      <3> HIDE DEF h
      <3>3. CASE job' = [job EXCEPT ![p].pc = "lock", ![p].req = h] /\ UNCHANGED <<inflight, result>>
        <4>1. job'[q].pc # "io" \/ job'[q] = job[q]
          BY <1>0, <3>3 DEF JobTypes, Jobs
        <4> QED BY <3>3, <4>1 DEF Executed
      <3>4. CASE /\ job' = job /\ inflight' = [inflight EXCEPT ![p] = @ \cup {h}]
                 /\ result' = [result EXCEPT ![h] = "pending"]
        <4>1. r \in inflight'[q] /\ result'[r] = "ok"
          BY <3>4 DEF Executed
        <4>2. r # h /\ result[r] = "ok"
          BY <1>0, <3>2, <3>4, <4>1 DEF RequestTypes
        <4>3. r \in inflight[q]
          BY <1>0, <3>4, <4>1, <4>2 DEF RequestTypes
        <4> QED BY <4>2, <4>3 DEF Executed
      <3> QED BY <3>1, <3>3, <3>4
    <2> QED BY <2>1, <2>2
  <1>4. ASSUME NEW p \in Queues, SourceSubmitFails(p) PROVE FALSE
    <2>1. job' = [job EXCEPT ![p] = [IdleJob EXCEPT !.pc = "submit"]] /\ UNCHANGED <<inflight, result>>
      BY <1>4 DEF SourceSubmitFails, requestVars
    <2> QED BY <1>0, <2>1 DEF Executed, JobTypes, Jobs, IdleJob
  <1>5. ASSUME NEW p \in Queues, WaitForCompletions(p) PROVE FALSE
    <2>1. /\ job' = [job EXCEPT ![p] = [IdleJob EXCEPT !.pc = "submit"]] /\ job[p].pc = "io"
          /\ inflight' = [inflight EXCEPT ![p] = @ \cup {job[p].req}]
          /\ result' = [result EXCEPT ![job[p].req] = job[p].sio]
      BY <1>5 DEF WaitForCompletions, At
    <2>2. job'[q].pc # "io" \/ job'[q] = job[q]
      BY <1>0, <2>1 DEF JobTypes, Jobs, IdleJob
    <2>3. r \in inflight'[q] /\ result'[r] = "ok"
      BY <2>2 DEF Executed
    <2>4. \A k \in Queues \ {p} : job[p].req \notin inflight[k]
      BY <2>1 DEF RequestsAreDistinct, Held
    <2>5. CASE r = job[p].req
      <3>1. p = q
        BY <1>0, <2>1, <2>3, <2>4, <2>5 DEF RequestTypes
      <3>2. r \in Reqs
        BY <2>1, <2>5 DEF JobShape
      <3>3. job[p].sio = "ok"
        BY <1>0, <2>1, <2>3, <2>5, <3>2 DEF RequestTypes
      <3> QED BY <2>1, <2>5, <3>1, <3>3 DEF Executed
    <2>6. CASE r # job[p].req
      <3>1. r \in inflight[q] /\ result[r] = "ok"
        BY <1>0, <2>1, <2>3, <2>6 DEF RequestTypes
      <3> QED BY <3>1 DEF Executed
    <2> QED BY <2>5, <2>6
  <1>6. ASSUME NEW p \in Queues, Completion(p) \/ BlockCommand(p) PROVE FALSE
    <2>1. Handles(p) /\ result' = result
      BY <1>0, <1>6, HandlesSteps DEF Completion, BlockCommand, ProcessQueueComplete, requestVars
    <2>2. p = q => job'[q].pc # "io"
      BY <2>1 DEF Handles
    <2> QED BY <2>1, <2>2 DEF Handles, Executed
  <1>7. ASSUME JoinWorkers PROVE FALSE
    BY <1>7 DEF JoinWorkers, AllIdle, Executed
  <1>8. ASSUME NEW p \in Queues, UNCHANGED <<inflight, result>>,
               QueueAvail(p) \/ LockRange(p) \/ DestinationIo(p) \/ DestinationSubmitFails(p)
        PROVE  FALSE
    <2>1. CASE QueueAvail(p)
      BY <1>0, <1>8, <2>1 DEF QueueAvail, SubmitOrDefer, Executed, JobTypes, Jobs
    <2>2. CASE LockRange(p)
      BY <1>0, <1>8, <2>2 DEF LockRange, Executed, JobTypes, Jobs
    <2>3. CASE DestinationIo(p) \/ DestinationSubmitFails(p)
      BY <1>0, <1>8, <2>3 DEF DestinationIo, DestinationSubmitFails, Executed, JobTypes, Jobs
    <2> QED BY <1>8, <2>1, <2>2, <2>3
  <1>9. CASE UNCHANGED <<inflight, result, job>>
    BY <1>9 DEF Executed
  <1> QED
    BY <1>1, <1>2, <1>3, <1>4, <1>5, <1>6, <1>7, <1>8, <1>9, InflightFrame, ResultFrame, JobFrame
    DEF ResetDevice, DropBlock

\* What the guest reads stays legal.
LEMMA ImageStep ==
    ASSUME TypeOK, InactiveIsEmpty, JobShape, JobShape', StallShape, CallShape, CopyShape,
           LockShape, Acknowledged,
           Switching, NoneLeft, Sync, RequestsAreDistinct, OverIsSettled, HeldIsLegal,
               SourceIsSubmitted,
           ImageIsLegal, Next
    PROVE  ImageIsLegal'
  <1>0. HistoryTypes /\ RequestTypes /\ JobTypes /\ BackendTypes /\ CommandTypes BY DEF TypeOK
  <1>1. SUFFICES ASSUME "complete" \notin Faults PROVE ImageIsLegal'
    BY DEF ImageIsLegal
  <1>2. ASSUME NEW b \in Blocks PROVE Image'[b] \in legal'[b]
    <2>1. CASE Image'[b] # Image[b]
      <3>1. /\ \E q \in Queues : \E r \in Held(q) : r = Image'[b] /\ target[r] = b
            /\ legal' = legal
        BY <1>1, <2>1, ImageEffects
      <3> QED BY <3>1 DEF HeldIsLegal
    <2>2. CASE Image'[b] = Image[b]
      <3>0. Image[b] \in legal[b]
        BY <1>1 DEF ImageIsLegal
      <3>1. ASSUME NEW q \in Queues, Submit(q) PROVE legal[b] \subseteq legal'[b]
        <4> DEFINE h == Head(avail[q])
        <4>1. legal' = legal \/ legal' = [legal EXCEPT ![target[h]] = @ \cup {h}]
          BY <3>1 DEF Submit
        <4> HIDE DEF h
        <4> QED BY <1>0, <4>1 DEF HistoryTypes
      <3>2. ASSUME NEW q \in Queues, SourceSubmitFails(q) PROVE Image[b] \in legal'[b]
        <4>1. job[q].pc = "lock" /\ legal' = [legal EXCEPT ![target[job[q].req]] = @ \ {job[q].req}]
          BY <3>2 DEF SourceSubmitFails, At
        <4>2. Image = src
          BY <1>1, <4>1, MirroredOnSource
        <4>3. Image[b] # job[q].req
          BY <4>1, <4>2 DEF SourceIsSubmitted
        <4> QED BY <1>0, <3>0, <4>1, <4>3 DEF HistoryTypes
      <3>3. ASSUME NEW q \in Queues, Completion(q) PROVE Image[b] \in legal'[b]
        <4>1. \/ Image[b] \in legal'[b]
              \/ \E x \in inflight[q] : result[x] = "ok" /\ target[x] = b /\ Image[b] \in over[x]
          BY <3>0, <3>3 DEF Completion, ProcessQueueComplete
        <4>2. \A x \in inflight[q] : result[x] = "ok" => x \in Executed(q)
          BY DEF Executed
        <4> QED BY <1>1, <4>1, <4>2 DEF ImageIsLegal
      <3> QED BY <2>2, <3>0, <3>1, <3>2, <3>3, LegalFrame
    <2> QED BY <2>1, <2>2
  <1>3. ASSUME ~active', api' = "completeSwap", NEW b \in Blocks PROVE src'[b] \in legal'[b]
    <2>1. CASE Switch
      <3>1. api = "switch" /\ UNCHANGED <<src, legal>>
        BY <2>1 DEF Switch, ApiAt, notApi, diskVars, historyVars
      <3>2. Image = src
        BY <3>1 DEF Image, CallShape
      <3> QED BY <1>1, <3>1, <3>2 DEF ImageIsLegal
    <2>2. CASE ~Switch
      <3>1. api = "completeSwap"
        BY <1>3, <2>2, ApiFrame
        DEF StartMirror, CompleteMirror, CancelMirror, InstallAcked, InstallFails, Rollback,
            RevertEnds, DrainFails,
            RevertQueues, CancelDrained, CancelRevertFails, CancelReverted, CancelJoined,
                DropJoined, DropBlock,
            CompleteDrained, CompleteSwapped, ApiAt
      <3>2. ~active
        BY <1>3, <3>1, ActiveFrame DEF ResetDevice, DropBlock, ActivateDevice, ApiAt
      <3>3. \A q \in Queues : job[q].pc = "idle" /\ inflight[q] = {} /\ ~compEvt[q]
        BY <3>2 DEF InactiveIsEmpty
      <3>4. src'[b] = src[b]
        BY <3>1, <3>3, SourceEffects
      <3>5. legal' = legal
        BY <3>3, LegalFrame DEF Submit, SourceSubmitFails, Completion, At
      <3> QED BY <1>1, <3>1, <3>2, <3>4, <3>5 DEF ImageIsLegal
    <2> QED BY <2>1, <2>2
  <1>4. ASSUME NEW q \in Queues, NEW r \in Executed(q)' PROVE Image'[target'[r]] \notin over'[r]
    <2>1. r \in Held(q)
      BY <1>1, <1>4, ExecutedEffects DEF Executed, Held
    <2>2. r \in Reqs /\ r <= posted /\ r \notin finished /\ r # 0
      BY <2>1, HeldTypes DEF RequestsAreDistinct
    <2>3. target'[r] = target[r] /\ target[r] \in Blocks
      BY <1>0, <2>2, TargetEffects DEF RequestTypes
    <2>4. over'[r] = over[r]
      <3>1. ASSUME NEW p \in Queues, Submit(p) PROVE over'[r] = over[r]
        <4> DEFINE h == Head(avail[p])
        <4>1. over' = over \/ (avail[p] # <<>> /\ over' = [over EXCEPT ![h] = legal[target[h]] \cap (finished \cup {0})])
          BY <3>1 DEF Submit
        <4>2. avail[p] # <<>> => 1 \in DOMAIN avail[p] /\ h = avail[p][1]
          BY <1>0 DEF RequestTypes
        <4> HIDE DEF h
        <4>3. avail[p] # <<>> => h # r
          BY <2>1, <4>2 DEF RequestsAreDistinct
        <4> QED BY <1>0, <2>2, <4>1, <4>3 DEF HistoryTypes
      <3> QED BY <3>1, OverFrame
    <2>5. over[r] \subseteq finished \cup {0}
      BY <2>2 DEF OverIsSettled
    <2>6. CASE Image'[target[r]] # Image[target[r]]
      <3>1. PICK p \in Queues : Image'[target[r]] \in Held(p)
        BY <1>1, <2>3, <2>6, ImageEffects
      <3>2. Image'[target[r]] \notin finished /\ Image'[target[r]] # 0
        BY <3>1, HeldTypes DEF RequestsAreDistinct
      <3> QED BY <2>3, <2>4, <2>5, <3>2
    <2>7. CASE Image'[target[r]] = Image[target[r]] /\ r \in Executed(q)
      BY <1>1, <2>3, <2>4, <2>7 DEF ImageIsLegal
    <2>8. CASE r \notin Executed(q)
      <3>1. Image'[target[r]] = r
        BY <1>1, <1>4, <2>8, ExecutedEffects
      <3> QED BY <2>2, <2>3, <2>4, <2>5, <3>1
    <2> QED BY <2>6, <2>7, <2>8
  <1> QED BY <1>1, <1>2, <1>3, <1>4 DEF ImageIsLegal
-----------------------------------------------------------------------------
(***************************************************************************)
(* The inductive invariant.                                                *)
(***************************************************************************)
Shapes ==
    /\ InactiveIsEmpty /\ JobShape /\ StallShape /\ BackendShape /\ MirroredShape
    /\ CommandShape /\ PhaseShape /\ CallShape /\ CopyShape /\ LockShape
    /\ Acknowledged /\ AliveIsMirrored /\ Switching /\ NoneLeft /\ Cancelled /\ NoPanic

Contents ==
    /\ Sync /\ RequestsAreDistinct /\ OverIsSettled /\ HeldIsLegal
    /\ SourceIsSubmitted /\ ImageIsLegal

IndInv == TypeOK /\ Shapes /\ Contents

\* The initial state is typed.
LEMMA TypesInit ==
    ASSUME Init
    PROVE  TypeOK
  <1> USE ConstantsAssumption
  <1>1. DiskTypes /\ HistoryTypes
    BY DataFacts DEF Init, DiskTypes, HistoryTypes
  <1>2. PhaseTypes /\ LockTypes
    BY DEF Init, PhaseTypes, LockTypes, Phases
  <1>3. ApiTypes
    <2>1. active \in BOOLEAN /\ ackErr \in BOOLEAN
      BY Zenon DEF Init
    <2>2. 0 \in 0 .. MaxMirrors
      OBVIOUS
    <2> QED BY <2>1, <2>2 DEF Init, ApiTypes
  <1>4. EventTypes
    BY Zenon DEF Init, EventTypes
  <1>5. BackendTypes
    BY DEF Init, BackendTypes, Backends, SourceBackend
  <1>6. CommandTypes
    BY DEF Init, CommandTypes, Commands, NoCommand
  <1>7. RequestTypes
    BY DEF Init, RequestTypes, Blocks
  <1>8. JobTypes
    BY DEF Init, JobTypes, Jobs, IdleJob
  <1>9. CopyTypes
    BY DataFacts DEF Init, CopyTypes, Copies, NoCopy
  <1>10. CountTypes
    BY DEF Init, CountTypes
  <1> QED BY <1>1, <1>2, <1>3, <1>4, <1>5, <1>6, <1>7, <1>8, <1>9, <1>10 DEF TypeOK

\* The initial state satisfies the invariant.
LEMMA InvInit ==
    ASSUME Init
    PROVE  IndInv
  <1>0. TypeOK
    BY TypesInit
  <1>1. /\ \A q \in Queues : /\ job[q].pc = "idle" /\ inflight[q] = {} /\ avail[q] = <<>>
                             /\ slot[q] = NoCommand /\ pending[q] = NoCommand /\ ~stopped[q]
                             /\ backend[q].kind = "source" /\ backend[q].mirror = 0 /\ ~backend[q].bypass
        /\ copy.mirror = 0 /\ copy.pc = "none"
        /\ NoCommand.kind = "none" /\ ~NoCommand.live
    BY DEF Init, IdleJob, SourceBackend, NoCopy, NoCommand
  <1>2. /\ api = "idle" /\ handle = 0 /\ started = 0 /\ disk = 0 /\ active /\ crash = "no"
        /\ finished = {} /\ posted = 0
        /\ \A g \in Mirrors : phase[g] = "none" /\ \A b \in Blocks : lock[g][b] = Free
        /\ \A b \in Blocks : src[b] = 0 /\ 0 \in legal[b]
        /\ \A r \in Reqs : over[r] = {}
    BY DEF Init
  <1>3. InactiveIsEmpty /\ JobShape /\ StallShape /\ BackendShape /\ MirroredShape
    BY <1>1, <1>2 DEF InactiveIsEmpty, JobShape, StallShape, BackendShape, MirroredShape
  <1>4. CommandShape
    BY <1>1 DEF CommandShape, CommandOK
  <1>5. PhaseShape
    BY <1>2, ConstantsAssumption DEF PhaseShape, Mirrors
  <1>6. CallShape /\ CopyShape
    BY <1>1, <1>2 DEF CallShape, CopyShape
  <1>7. LockShape
    <2>1. \A g \in Mirrors, b \in Blocks : ~CopiesBlock(g, b) /\ \A q \in Queues : ~Writes(q, g, b)
      BY <1>1 DEF CopiesBlock, Writes
    <2>2. Free # CopyParty /\ \A q \in Queues : q # Free
      BY ConstantsAssumption DEF Free, CopyParty, Queues
    <2> QED BY <1>2, <2>1, <2>2 DEF LockShape
  <1>8. Acknowledged /\ AliveIsMirrored /\ Switching /\ NoneLeft /\ Cancelled /\ NoPanic
    BY <1>1, <1>2 DEF Acknowledged, AliveIsMirrored, Switching, NoneLeft, Cancelled, NoPanic
  <1>9. Sync /\ RequestsAreDistinct /\ OverIsSettled /\ HeldIsLegal
    <2>1. \A q \in Queues : Held(q) = {}
      BY <1>1 DEF Held
    <2> QED BY <1>1, <1>2, <2>1 DEF Sync, RequestsAreDistinct, OverIsSettled, HeldIsLegal
  <1>10. SourceIsSubmitted
    BY <1>1, <1>2 DEF SourceIsSubmitted
  <1>11. ImageIsLegal
    <2>1. \A q \in Queues : Executed(q) = {}
      BY <1>1 DEF Executed
    <2> QED BY <1>2, <2>1 DEF ImageIsLegal, Image
  <1> QED BY <1>0, <1>3, <1>4, <1>5, <1>6, <1>7, <1>8, <1>9, <1>10, <1>11 DEF IndInv, Shapes,
      Contents

\* Every step of the specification preserves the types.
LEMMA TypesStep ==
    ASSUME TypeOK, JobShape, CopyShape, Next
    PROVE  TypeOK'
  <1>1. DiskTypes' /\ PhaseTypes' /\ LockTypes' /\ ApiTypes' /\ BackendTypes' /\ RequestTypes'
    BY DiskTyped, PhaseTyped, LockTyped, ApiTyped, BackendTyped, RequestTyped
  <1>2. EventTypes' /\ CommandTypes' /\ JobTypes' /\ CopyTypes' /\ CountTypes' /\ HistoryTypes'
    BY EventTyped, CommandTyped, JobTyped, CopyTyped, CountTyped, HistoryTyped
  <1> QED BY <1>1, <1>2 DEF TypeOK

\* Every step of the specification preserves the invariant.
LEMMA InvStep ==
    ASSUME IndInv, Next
    PROVE  IndInv'
  <1>0. TypeOK /\ Shapes /\ Contents
    BY DEF IndInv
  <1>1. InactiveIsEmpty' /\ JobShape' /\ StallShape' /\ BackendShape' /\ MirroredShape'
    BY <1>0, InactiveStep, JobStep, StallStep, BackendStep, MirroredStep DEF Shapes, Contents
  <1>2. CommandShape' /\ PhaseShape' /\ CallShape' /\ CopyShape'
    BY <1>0, CommandStep, PhaseStep, CallStep, CopyStep DEF Shapes
  <1>3. LockShape' /\ Sync' /\ RequestsAreDistinct'
    BY <1>0, LockStep, SyncStep, RequestStep DEF Shapes, Contents
  <1>4. Acknowledged' /\ AliveIsMirrored' /\ Switching' /\ NoneLeft' /\ Cancelled' /\ NoPanic'
    BY <1>0, AckStep, AliveStep, SwitchStep, NoneLeftStep, CancelledStep, PanicStep DEF Shapes
  <1>5. OverIsSettled' /\ HeldIsLegal' /\ SourceIsSubmitted' /\ ImageIsLegal'
    BY <1>0, <1>1, <1>3, OverStep, HeldLegalStep, SourceStep, ImageStep DEF Shapes, Contents
  <1>6. TypeOK'
    BY <1>0, TypesStep DEF Shapes
  <1> QED BY <1>1, <1>2, <1>3, <1>4, <1>5, <1>6 DEF IndInv, Shapes, Contents

\* A stuttering step preserves it: no part looks at anything but the variables.
LEMMA InvStutter ==
    ASSUME IndInv, UNCHANGED vars
    PROVE  IndInv'
  <1>0. UNCHANGED <<src, dst, phase, lock, api, handle, started, disk, active, acks, ackErr, kick, avail, backend,
                    inflight, result, compEvt, slot, cmdEvt, pending, stopped, job, copy, posted,
                        target, calls,
                    faults, crash, finished, over, legal>>
    BY DEF vars, diskVars, stateVars, blockVars, ackVars, ringVars, requestVars, commandVars,
        guestVars, historyVars
  <1>1. TypeOK'
    BY <1>0
    DEF IndInv, TypeOK, DiskTypes, PhaseTypes, LockTypes, ApiTypes, BackendTypes, RequestTypes,
        EventTypes,
        CommandTypes, JobTypes, CopyTypes, CountTypes, HistoryTypes
  <1>2. InactiveIsEmpty' /\ JobShape' /\ StallShape' /\ BackendShape' /\ MirroredShape'
    BY <1>0 DEF IndInv, Shapes, InactiveIsEmpty, JobShape, StallShape, BackendShape, MirroredShape,
        Quiet
  <1>3. CommandShape' /\ PhaseShape' /\ CallShape' /\ CopyShape'
    BY <1>0 DEF IndInv, Shapes, CommandShape, CommandOK, PhaseShape, CallShape, CopyShape
  <1>4. LockShape'
    BY <1>0 DEF IndInv, Shapes, LockShape, CopiesBlock, Writes
  <1>5. Acknowledged'
    BY <1>0 DEF IndInv, Shapes, Acknowledged, Awaited, Done, Quiet, Senders, PlainBackend,
        DestinationBackend,
                SourceBackend
  <1>6. AliveIsMirrored' /\ Switching' /\ NoneLeft'
    BY <1>0 DEF IndInv, Shapes, AliveIsMirrored, Switching, NoneLeft, Quiet, MirrorBackend,
        DestinationBackend
  <1>7. Cancelled' /\ NoPanic'
    BY <1>0 DEF IndInv, Shapes, Cancelled, NoPanic
  <1>8. Sync' /\ OverIsSettled' /\ SourceIsSubmitted'
    BY <1>0 DEF IndInv, Contents, Sync, InSync, OverIsSettled, SourceIsSubmitted
  <1>9. /\ \A q \in Queues : Held(q)' = Held(q) /\ Executed(q)' = Executed(q)
        /\ Image' = Image
    BY <1>0 DEF Held, Executed, Image
  <1>10. RequestsAreDistinct' /\ HeldIsLegal'
    BY <1>0, <1>9 DEF IndInv, Contents, RequestsAreDistinct, HeldIsLegal
  <1>11. ImageIsLegal'
    BY <1>0, <1>9 DEF IndInv, Contents, ImageIsLegal
  <1> QED
    BY <1>1, <1>2, <1>3, <1>4, <1>5, <1>6, <1>7, <1>8, <1>10, <1>11 DEF IndInv, Shapes, Contents

(***************************************************************************)
(* The inductive invariant holds in every reachable state, whatever faults *)
(* happen and for any number of queues, blocks, requests and mirrors.      *)
(***************************************************************************)
THEOREM IndInvHolds == Spec => []IndInv
  <1>1. Init => IndInv
    BY InvInit
  <1>2. IndInv /\ [Next]_vars => IndInv'
    BY InvStep, InvStutter
  <1> QED BY <1>1, <1>2, PTL DEF Spec

(***************************************************************************)
(* Type correctness.                                                       *)
(***************************************************************************)
THEOREM TypeCorrect == Spec => []TypeOK
  <1>1. IndInv => TypeOK
    BY DEF IndInv
  <1> QED BY <1>1, IndInvHolds, PTL

(***************************************************************************)
(* A mirror reported as Ready is in sync outside the ranges that a write   *)
(* holds locked, whatever faults happen: the range lock orders the copy    *)
(* worker and the mirrored writes, and a write that fails on either side   *)
(* takes the mirror out of Ready before its range is unlocked.             *)
(***************************************************************************)
THEOREM ReadyIsInSync == Spec => []ReadyInSync
  <1>1. ASSUME IndInv PROVE ReadyInSync
    <2>0. TypeOK /\ PhaseShape /\ CopyShape /\ CallShape /\ Sync
      BY <1>1 DEF IndInv, Shapes, Contents
    <2>1. SUFFICES ASSUME NEW g \in Mirrors, NEW b \in Blocks, phase[g] = "Ready", lock[g][b] = Free
                   PROVE  src[b] = dst[g][b]
      BY DEF ReadyInSync
    <2>2. handle = g /\ g # 0
      BY <2>0, <2>1 DEF PhaseShape, Mirrors
    <2>3. copy.mirror = g /\ copy.block > NBlocks
      BY <2>0, <2>1, <2>2 DEF CopyShape, CallShape
    <2>4. b < copy.block
      BY <2>0, <2>3, ConstantsAssumption DEF TypeOK, CopyTypes, Copies, Blocks
    <2> QED BY <2>0, <2>1, <2>2, <2>4 DEF Sync, InSync, Alive
  <1> QED BY <1>1, IndInvHolds, PTL

(***************************************************************************)
(* A cancelled mirror has let go of its destination once cancel_mirror has *)
(* returned: no queue and no copy worker can touch it, whatever commands   *)
(* an earlier call that ran into its deadline left behind.                 *)
(***************************************************************************)
THEOREM CancelledDestinationIsReleased == Spec => []CancelReleasesDestination
  <1>1. ASSUME IndInv PROVE CancelReleasesDestination
    BY <1>1 DEF IndInv, Shapes, CopyShape, Cancelled, CancelReleasesDestination
  <1> QED BY <1>1, IndInvHolds, PTL

(***************************************************************************)
(* The switch-over does not fail at a queue: replace_disk_image can        *)
(* register the new backend's notifier with the queue's epoll instance.    *)
(* When it cannot, the queue resumes on the source, and the guest can use  *)
(* it until complete_mirror hears of the error and aborts the VMM.         *)
(***************************************************************************)
SwapsSucceed == "complete" \notin Faults

(***************************************************************************)
(* Unless a queue fails its switch-over, the queues that accept requests   *)
(* serve them from one disk, also while complete_mirror moves them one by  *)
(* one.                                                                    *)
(***************************************************************************)
THEOREM QueuesServeOneDisk ==
    ASSUME SwapsSucceed
    PROVE  Spec => []OneServingDisk
  <1>1. ASSUME IndInv PROVE OneServingDisk
    <2>0. /\ TypeOK /\ CallShape /\ Acknowledged /\ Switching /\ NoneLeft
      BY <1>1 DEF IndInv, Shapes
    <2>1. SUFFICES ASSUME NEW p \in Queues, NEW q \in Queues, ~stopped[p], ~stopped[q],
                          backend[p].kind = "destination"
                   PROVE  backend[q].kind = "destination"
      BY DEF OneServingDisk
    <2>2. CASE active
      BY <1>1, <2>0, <2>1, <2>2, ServingDisk, NewBackends DEF SwapsSucceed
    <2>3. CASE ~active
      BY <2>0, <2>1, <2>3 DEF Switching
    <2> QED BY <2>2, <2>3
  <1> QED BY <1>1, IndInvHolds, PTL

(***************************************************************************)
(* Unless a queue fails its switch-over, no write is lost or resurrected:  *)
(* what a queue that accepts requests reads, and what the device's disk    *)
(* holds while no worker serves it, was never overwritten by a write that  *)
(* the guest knows to have succeeded.                                      *)
(***************************************************************************)
THEOREM WritesAreNotLost ==
    ASSUME SwapsSucceed
    PROVE  Spec => []NoWriteLost
  <1>1. ASSUME IndInv PROVE NoWriteLost
    <2>0. TypeOK /\ CallShape /\ Acknowledged /\ Switching /\ NoneLeft /\ ImageIsLegal
      BY <1>1 DEF IndInv, Shapes, Contents
    <2>1. \A b \in Blocks : Image[b] \in legal[b]
      BY <1>1, <2>0 DEF ImageIsLegal, SwapsSucceed
    <2>2. ASSUME NEW q \in Queues, NEW b \in Blocks, active, ~stopped[q]
          PROVE  ReadDisk(backend[q])[b] \in legal[b]
      <3>1. ReadDisk(backend[q]) = Image
        BY <1>1, <2>0, <2>2, ServingDisk, NewBackends DEF SwapsSucceed, ReadDisk, Image
      <3> QED BY <2>1, <3>1
    <2>3. ASSUME NEW b \in Blocks, ~active
          PROVE  ReadDisk(PlainBackend(disk))[b] \in legal[b]
      <3>1. ReadDisk(PlainBackend(disk)) = IF disk = 0 THEN src ELSE dst[disk]
        BY NewBackends DEF ReadDisk
      <3>2. ReadDisk(PlainBackend(disk)) = Image \/ (api = "completeSwap" /\ ReadDisk(PlainBackend(disk)) = src)
        BY <3>1 DEF Image
      <3> QED BY <1>1, <2>0, <2>1, <2>3, <3>2 DEF ImageIsLegal, SwapsSucceed
    <2> QED BY <2>2, <2>3 DEF NoWriteLost
  <1> QED BY <1>1, IndInvHolds, PTL

(***************************************************************************)
(* Every queue carries out its commands in time: no call runs into the     *)
(* shared deadline, and no backend fails to be replaced when a mirror is   *)
(* cancelled or completed.                                                 *)
(***************************************************************************)
QueuesObey == Faults \cap {"timeout", "cancel", "complete"} = {}

(***************************************************************************)
(* As long as every queue carries out its commands, no thread attempts a   *)
(* phase transition that panics, whatever I/O fails: a failing mirror, a   *)
(* finishing copy and a call can meet in any order.  Without that          *)
(* hypothesis it is false: a cancel whose revert fails leaves queues       *)
(* mirroring for a mirror in Cancelling, and their next I/O error panics.  *)
(***************************************************************************)
THEOREM NoTransitionPanics ==
    ASSUME QueuesObey
    PROVE  Spec => []NoInvalidTransition
  <1>1. ASSUME IndInv PROVE NoInvalidTransition
    BY <1>1 DEF IndInv, Shapes, NoPanic, QueuesObey, NoInvalidTransition
  <1> QED BY <1>1, IndInvHolds, PTL
=============================================================================
