-------------------------- MODULE BlockDrainProofs --------------------------
(***************************************************************************)
(* Proofs about BlockDrain for every number of queues and every queue      *)
(* size, with every error return of the workers: the counter that pause    *)
(* polls is exact, a paused device holds no request and its image stays    *)
(* flushed, and no request is left in a ring that nobody looks at, except  *)
(* after an error that the module records.                                 *)
(***************************************************************************)
EXTENDS BlockDrain, FiniteSetTheorems, TLAPS

\* Every descriptor is with the driver, in the ring, with the worker, with the
\* host or lost to an error, and never in two places.
RingBound ==
    \A q \in Queues : free[q] + avail[q] + Taken(q) + lost[q] = QueueSize[q]

\* Where a batch can be, that a batch being counted was submitted, and what a
\* worker knows before its loop and at a pop.
BatchOfPass ==
    \A q \in Queues :
        /\ batch[q] > 0 => pc[q] \in {"loop", "pop", "submit", "count"}
        /\ pc[q] = "count" => batch[q] <= host[q] + done[q]
        /\ pc[q] = "pop" => avail[q] > 0
        /\ pc[q] \in {"idle", "complete", "apply", "enter", "first"} => processed[q] = 0

\* The flag is set exactly while a pause is under way; the guest runs only
\* outside of pauses.
FlagOfPause ==
    /\ draining <=> api # "idle"
    /\ paused => api = "idle"
    /\ vcpus => api = "idle" /\ ~paused

\* From the zero that pause has read to the resume nothing is taken: a worker
\* can enter a pass but not its loop.
NoneTaken ==
    (paused \/ api \in {"sync", "park"}) =>
        \A q \in Queues :
            /\ Taken(q) = 0
            /\ pc[q] \in {"idle", "complete", "enter", "first", "leave", "apply", "dead"}
            /\ paused => pc[q] = "idle"

\* What WaitingIsSignalled needs of a worker inside a pass: as long as no new
\* kick has come, ring and requests taken in this pass are within the cap.
RingIsSeen ==
    \A q \in Queues : vcpus =>
        /\ (pc[q] \in {"idle", "apply", "submit", "count", "leave"} /\ avail[q] > 0)
             => (Signalled(q) \/ Deferred(q))
        /\ (pc[q] = "loop" /\ ~kick[q]) => avail[q] + processed[q] <= QueueSize[q]
        /\ (pc[q] = "pop" /\ ~kick[q]) => avail[q] + processed[q] <= QueueSize[q] + 1

\* A completion of the host is announced, unless an error left it behind.
CompletionIsSeen ==
    \A q \in Queues : (done[q] > 0 /\ pc[q] # "complete") => (notified[q] \/ stuck[q])

\* A pending command keeps the worker out of the loop of a pass, and waits only
\* for requests in flight: whoever ends the last one tries it again.
CommandWaits ==
    \A q \in Queues : cmd[q] # "none" =>
        /\ pc[q] \notin {"loop", "pop", "submit", "count"}
        /\ (pc[q] = "idle" \/ (pc[q] \in {"enter", "first", "leave"} /\ then[q] = "idle"))
             => host[q] + done[q] > 0

\* The parts of the invariant that the counter does not depend on.
LocalInv == TypeOK /\ RingBound /\ BatchOfPass /\ FlagOfPause

(***************************************************************************)
(* The inductive invariant.  PausedIsDrained rests on the exact counter:   *)
(* the zero that pause reads means that no pass holds a guard and nothing  *)
(* is in flight, and the flag keeps it so.                                 *)
(***************************************************************************)
IndInv ==
    /\ LocalInv
    /\ CountIsExact
    /\ NoneTaken
    /\ PausedImageIsSynced
    /\ RingIsSeen
    /\ CompletionIsSeen
    /\ CommandWaits
-----------------------------------------------------------------------------
\* The counted requests of a queue are a number.
CountedFits == \A q \in Queues : Counted(q) \in Nat

\* A guard belongs to a pass or to a counted request.
GuardsAreMembers ==
    Guards = {g \in Queues \X Nat :
                \/ g[2] = 0 /\ g[1] \in InPass
                \/ g[2] > 0 /\ g[2] <= Counted(g[1])}

(***************************************************************************)
(* A batch that is being counted is in flight.                             *)
(***************************************************************************)
LEMMA CountedBound == LocalInv => CountedFits
  BY QueueSizeAssumption
     DEF LocalInv, TypeOK, RingBound, BatchOfPass, Taken, Counted, CountedFits

(***************************************************************************)
(* The guards of a queue are numbered without gaps.                        *)
(***************************************************************************)
LEMMA GuardMembers == LocalInv => GuardsAreMembers
<1> SUFFICES ASSUME LocalInv PROVE GuardsAreMembers
  OBVIOUS
<1> DEFINE G == {g \in Queues \X Nat :
                   \/ g[2] = 0 /\ g[1] \in InPass
                   \/ g[2] > 0 /\ g[2] <= Counted(g[1])}
<1>1. ASSUME NEW g \in Guards PROVE g \in G
  <2>1. CASE g \in InPass \X {0}
    BY <2>1, QueueSizeAssumption DEF InPass
  <2>2. CASE g \notin InPass \X {0}
    <3>1. PICK q \in Queues : g \in {q} \X (1..Counted(q))
      BY <2>2 DEF Guards
    <3> QED
      BY <3>1, CountedBound, QueueSizeAssumption DEF CountedFits
  <2> QED
    BY <2>1, <2>2
<1>2. ASSUME NEW g \in G PROVE g \in Guards
  <2>1. PICK q \in Queues, k \in Nat : g = <<q, k>>
    OBVIOUS
  <2>2. CASE k = 0
    BY <2>1, <2>2 DEF Guards
  <2>3. CASE k # 0
    <3>1. g \in {q} \X (1..Counted(q))
      BY <2>1, <2>3, CountedBound, QueueSizeAssumption DEF CountedFits
    <3> QED
      BY <3>1 DEF Guards
  <2> QED
    BY <2>2, <2>3
<1> QED
  BY <1>1, <1>2 DEF GuardsAreMembers

(***************************************************************************)
(* There are finitely many guards, and without any no pass is open and     *)
(* nothing is in flight.                                                   *)
(***************************************************************************)
LEMMA GuardsFinite ==
    ASSUME LocalInv
    PROVE  /\ IsFiniteSet(Guards) /\ Cardinality(Guards) \in Nat
           /\ Cardinality(Guards) = 0 =>
                InPass = {} /\ \A q \in Queues : Counted(q) = 0
<1> DEFINE f == [q \in Queues |-> {q} \X (1..Counted(q))]
           S == {{q} \X (1..Counted(q)) : q \in Queues}
<1>1. IsFiniteSet(S)
  <2>1. f \in Surjection(Queues, S)
    BY DEF Surjection
  <2> QED
    BY <2>1, QueuesAssumption, FS_Surjection
<1>2. ASSUME NEW T \in S PROVE IsFiniteSet(T)
  <2>1. PICK q \in Queues : T = {q} \X (1..Counted(q))
    OBVIOUS
  <2>2. IsFiniteSet({q}) /\ IsFiniteSet(1..Counted(q))
    <3>1. 1 \in Int /\ Counted(q) \in Int
      BY CountedBound DEF CountedFits
    <3> QED
      BY <3>1, FS_Singleton, FS_Interval
  <2> QED
    BY <2>1, <2>2, FS_Product
<1>3. IsFiniteSet(Guards) /\ Cardinality(Guards) \in Nat
  <2>1. IsFiniteSet(UNION S)
    BY <1>1, <1>2, FS_UNION
  <2>2. IsFiniteSet(InPass \X {0})
    <3>1. IsFiniteSet(InPass) /\ IsFiniteSet({0})
      BY QueuesAssumption, FS_Subset, FS_Singleton DEF InPass
    <3> QED
      BY <3>1, FS_Product
  <2>3. IsFiniteSet(Guards)
    BY <2>1, <2>2, FS_Union DEF Guards
  <2> QED
    BY <2>3, FS_CardinalityType
<1>4. ASSUME Guards = {} PROVE InPass = {} /\ \A q \in Queues : Counted(q) = 0
  <2>1. ASSUME NEW q \in InPass PROVE FALSE
    <3>1. <<q, 0>> \in InPass \X {0}
      OBVIOUS
    <3> QED
      BY <1>4, <3>1 DEF Guards
  <2>2. ASSUME NEW q \in Queues, Counted(q) # 0 PROVE FALSE
    <3>1. <<q, 1>> \in {q} \X (1..Counted(q))
      BY <2>2, CountedBound, QueueSizeAssumption DEF CountedFits
    <3> QED
      BY <1>4, <3>1 DEF Guards
  <2> QED
    BY <2>1, <2>2
<1> QED
  BY <1>3, <1>4, FS_EmptySet

\* The guards of b requests of q that are counted after a others.
NewGuards(q, a, b) == {q} \X ((a + 1)..(a + b))

(***************************************************************************)
(* Numbering b new guards after the first a takes b numbers.               *)
(***************************************************************************)
LEMMA BatchSize ==
    ASSUME NEW q, NEW a \in Nat, NEW b \in Nat
    PROVE  /\ IsFiniteSet(NewGuards(q, a, b))
           /\ Cardinality(NewGuards(q, a, b)) = b
<1>1. IsFiniteSet((a + 1)..(a + b)) /\ Cardinality((a + 1)..(a + b)) = b
  <2>1. a + 1 \in Int /\ a + b \in Int /\ (a + 1 > a + b <=> b = 0)
    OBVIOUS
  <2>2. Cardinality((a + 1)..(a + b)) =
          IF a + 1 > a + b THEN 0 ELSE (a + b) - (a + 1) + 1
    BY <2>1, FS_Interval
  <2>3. IsFiniteSet((a + 1)..(a + b))
    BY <2>1, FS_Interval
  <2> QED
    BY <2>1, <2>2, <2>3
<1>2. IsFiniteSet({q}) /\ Cardinality({q}) = 1
  BY FS_Singleton
<1>3. /\ IsFiniteSet({q} \X ((a + 1)..(a + b)))
      /\ Cardinality({q} \X ((a + 1)..(a + b))) =
            Cardinality({q}) * Cardinality((a + 1)..(a + b))
  BY <1>1, <1>2, FS_Product
<1> QED
  BY <1>1, <1>2, <1>3 DEF NewGuards

(***************************************************************************)
(* A completion by the host moves a request and changes neither how many   *)
(* are taken nor how many are counted.                                     *)
(***************************************************************************)
LEMMA HostCompleteKeeps ==
    ASSUME TypeOK, NEW q \in Queues, HostComplete(q)
    PROVE  \A p \in Queues : Taken(p)' = Taken(p) /\ Counted(p)' = Counted(p)
<1>1. /\ UNCHANGED <<pc, batch>>
      /\ host' = [host EXCEPT ![q] = @ - 1] /\ done' = [done EXCEPT ![q] = @ + 1]
  BY DEF HostComplete, worker
<1>2. /\ host \in [Queues -> Nat] /\ done \in [Queues -> Nat]
      /\ batch \in [Queues -> Nat]
  BY DEF TypeOK
<1>3. ASSUME NEW p \in Queues PROVE host'[p] + done'[p] = host[p] + done[p]
  BY <1>1, <1>2
<1>4. ASSUME NEW p \in Queues PROVE Taken(p)' = Taken(p) /\ Counted(p)' = Counted(p)
  <2> DEFINE b == IF pc[p] = "count" THEN 0 ELSE batch[p]
             d == IF pc[p] = "count" THEN batch[p] ELSE 0
  <2>1. b \in Nat /\ d \in Nat /\ host[p] \in Nat /\ done[p] \in Nat
    BY <1>2
  <2>2. host'[p] \in Int /\ done'[p] \in Int
    BY <1>1, <1>2
  <2>3. /\ Taken(p) = b + host[p] + done[p] /\ Taken(p)' = b + host'[p] + done'[p]
        /\ Counted(p) = host[p] + done[p] - d /\ Counted(p)' = host'[p] + done'[p] - d
    BY <1>1 DEF Taken, Counted
  <2>4. host'[p] + done'[p] = host[p] + done[p]
    BY <1>3
  <2> HIDE DEF b, d
  <2>5. b + host'[p] + done'[p] = b + host[p] + done[p]
    BY <2>1, <2>2, <2>4
  <2>6. host'[p] + done'[p] - d = host[p] + done[p] - d
    BY <2>1, <2>2, <2>4
  <2> QED
    BY <2>3, <2>5, <2>6
<1> QED
  BY <1>4

(***************************************************************************)
(* Rings and flags: no step takes a request from an empty place, and the   *)
(* counter never goes below zero.                                          *)
(***************************************************************************)
LEMMA LocalStep == LocalInv /\ CountIsExact /\ [Next]_vars => LocalInv'
<1> SUFFICES ASSUME LocalInv, CountIsExact, [Next]_vars PROVE LocalInv'
  OBVIOUS
<1> USE QueueSizeAssumption
        DEF LocalInv, TypeOK, RingBound, BatchOfPass, FlagOfPause, Taken, Deferred, Signalled,
            rings, evts, mirror, errors, worker, Goes, Then
<1>1. ASSUME NEW q \in Queues, GuestPost(q) PROVE LocalInv'
  <2>1. TypeOK'
    BY <1>1 DEF GuestPost
  <2>2. RingBound'
    BY <1>1 DEF GuestPost
  <2>3. BatchOfPass' /\ FlagOfPause'
    BY <1>1 DEF GuestPost
  <2> QED
    BY <2>1, <2>2, <2>3
<1>2. ASSUME NEW q \in Queues, HostComplete(q) PROVE LocalInv'
  <2>1. TypeOK'
    BY <1>2 DEF HostComplete
  <2>2. RingBound'
    <3>1. ASSUME NEW r \in Queues, r # q
          PROVE  (free[r] + avail[r] + Taken(r) + lost[r] = QueueSize[r])'
      BY <1>2, <3>1 DEF HostComplete
    <3>2. Taken(q)' = Taken(q) /\ UNCHANGED <<free, avail, lost>>
      BY <1>2, HostCompleteKeeps DEF HostComplete
    <3>3. (free[q] + avail[q] + Taken(q) + lost[q] = QueueSize[q])'
      BY <3>2
    <3> QED
      BY <3>1, <3>3
  <2>3. BatchOfPass' /\ FlagOfPause'
    BY <1>2 DEF HostComplete
  <2> QED
    BY <2>1, <2>2, <2>3
<1>3. ASSUME NEW q \in Queues, HandleQueueAvail(q) PROVE LocalInv'
  BY <1>3 DEF HandleQueueAvail
<1>4. ASSUME NEW q \in Queues, HandleRateLimiter(q) PROVE LocalInv'
  BY <1>4 DEF HandleRateLimiter
<1>5. ASSUME NEW q \in Queues, NEW kind \in {"stall", "swap"}, HandleCommand(q, kind)
       PROVE  LocalInv'
  BY <1>5 DEF HandleCommand
<1>6. ASSUME NEW q \in Queues, Apply(q) PROVE LocalInv'
  <2>1. TypeOK'
    BY <1>6 DEF Apply, MayApply
  <2>2. RingBound'
    BY <1>6 DEF Apply, MayApply
  <2>3. BatchOfPass' /\ FlagOfPause'
    BY <1>6 DEF Apply, MayApply
  <2> QED
    BY <2>1, <2>2, <2>3
<1>7. ASSUME NEW q \in Queues, HandleCompletion(q) PROVE LocalInv'
  BY <1>7 DEF HandleCompletion
<1>8. ASSUME NEW q \in Queues, CompleteOne(q) PROVE LocalInv'
  <2>1. Counted(q) # 0
    BY <1>8 DEF CompleteOne, Counted
  <2>2. count # 0
    BY <2>1, GuardsFinite DEF CountIsExact
  <2> QED
    BY <1>8, <2>2 DEF CompleteOne
<1>9. ASSUME NEW q \in Queues, CompleteEnd(q) PROVE LocalInv'
  BY <1>9 DEF CompleteEnd, AfterCompletions, Dies
<1>10. ASSUME NEW q \in Queues, CompleteFails(q) PROVE LocalInv'
  <2>1. Counted(q) # 0
    BY <1>10 DEF CompleteFails, Counted
  <2>2. count # 0
    BY <2>1, GuardsFinite DEF CountIsExact
  <2> QED
    BY <1>10, <2>2 DEF CompleteFails, AfterCompletions, Dies
<1>11. ASSUME NEW q \in Queues, Enter(q) PROVE LocalInv'
  BY <1>11 DEF Enter, Bump
<1>12. ASSUME NEW q \in Queues, FirstCheck(q) PROVE LocalInv'
  BY <1>12 DEF FirstCheck
<1>13. ASSUME NEW q \in Queues, LoopCheck(q) PROVE LocalInv'
  BY <1>13 DEF LoopCheck, CapReached
<1>14. ASSUME NEW q \in Queues, RingFails(q) PROVE LocalInv'
  BY <1>14 DEF RingFails, GuardDropped
<1>15. ASSUME NEW q \in Queues, PopAnswered(q) PROVE LocalInv'
  <2>1. TypeOK'
    BY <1>15 DEF PopAnswered
  <2>2. RingBound'
    <3>1. ASSUME NEW r \in Queues, r # q
          PROVE  (free[r] + avail[r] + Taken(r) + lost[r] = QueueSize[r])'
      BY <1>15, <3>1 DEF PopAnswered
    <3>2. (free[q] + avail[q] + Taken(q) + lost[q] = QueueSize[q])'
      BY <1>15 DEF PopAnswered
    <3> QED
      BY <3>1, <3>2
  <2>3. BatchOfPass' /\ FlagOfPause'
    BY <1>15 DEF PopAnswered
  <2> QED
    BY <2>1, <2>2, <2>3
<1>16. ASSUME NEW q \in Queues, PopFails(q) PROVE LocalInv'
  BY <1>16 DEF PopFails
<1>17. ASSUME NEW q \in Queues, PopLimited(q) PROVE LocalInv'
  BY <1>17 DEF PopLimited
<1>18. ASSUME NEW q \in Queues, PopSubmitted(q) PROVE LocalInv'
  <2>1. TypeOK'
    BY <1>18 DEF PopSubmitted
  <2>2. RingBound'
    BY <1>18 DEF PopSubmitted
  <2>3. BatchOfPass' /\ FlagOfPause'
    BY <1>18 DEF PopSubmitted
  <2> QED
    BY <2>1, <2>2, <2>3
<1>19. ASSUME NEW q \in Queues, PopBatched(q) PROVE LocalInv'
  BY <1>19 DEF PopBatched
<1>20. ASSUME NEW q \in Queues, Submit(q) PROVE LocalInv'
  BY <1>20 DEF Submit
<1>21. ASSUME NEW q \in Queues, NEW k \in 0..QueueSize[q], SubmitFails(q, k)
       PROVE  LocalInv'
  BY <1>21 DEF SubmitFails
<1>22. ASSUME NEW q \in Queues, SubmitNothing(q) PROVE LocalInv'
  BY <1>22 DEF SubmitNothing
<1>23. ASSUME NEW q \in Queues, CountBatch(q) PROVE LocalInv'
  BY <1>23 DEF CountBatch
<1>24. ASSUME NEW q \in Queues, Leave(q) PROVE LocalInv'
  BY <1>24 DEF Leave, GuardDropped, Dies
<1>25. CASE PauseBegin
  BY <1>25 DEF PauseBegin
<1>26. CASE Drained
  BY <1>26 DEF Drained
<1>27. CASE SyncMetadata
  BY <1>27 DEF SyncMetadata
<1>28. CASE PauseFails
  BY <1>28 DEF PauseFails
<1>29. CASE ParkWorkers
  BY <1>29 DEF ParkWorkers
<1>30. CASE Resume
  BY <1>30 DEF Resume, QueueEvts
<1>31. CASE UNCHANGED vars
  BY <1>31 DEF vars
<1> QED
  BY <1>1, <1>2, <1>3, <1>4, <1>5, <1>6, <1>7, <1>8, <1>9, <1>10, <1>11, <1>12,
     <1>13, <1>14, <1>15, <1>16, <1>17, <1>18, <1>19, <1>20, <1>21, <1>22, <1>23, <1>24,
     <1>25, <1>26, <1>27, <1>28, <1>29, <1>30, <1>31
     DEF Next, Pass, Pause

(***************************************************************************)
(* A step that changes no pass's guard and no queue's counted requests     *)
(* changes no guard.                                                       *)
(***************************************************************************)
LEMMA SameGuards ==
    ASSUME CountIsExact, count' = count, InPass' = InPass,
           \A q \in Queues : Counted(q)' = Counted(q)
    PROVE  CountIsExact'
  BY DEF CountIsExact, Guards

(***************************************************************************)
(* active_request_count follows the guards through every step: a pass and  *)
(* a request each add one, a batch adds all its requests in one step, and  *)
(* each is taken off once.                                                 *)
(***************************************************************************)
LEMMA CountStep == LocalInv /\ CountIsExact /\ [Next]_vars => CountIsExact'
<1> SUFFICES ASSUME LocalInv, CountIsExact, [Next]_vars PROVE CountIsExact'
  OBVIOUS
<1>0. LocalInv' /\ IsFiniteSet(Guards) /\ Cardinality(Guards) \in Nat
  BY LocalStep, GuardsFinite
<1>m. GuardsAreMembers /\ GuardsAreMembers'
  BY <1>0, GuardMembers, PTL
<1>c. CountedFits /\ CountedFits'
  BY <1>0, CountedBound, PTL
<1>t. count \in Nat
  BY DEF LocalInv, TypeOK
<1> USE DEF LocalInv, TypeOK, BatchOfPass, rings, evts, mirror, errors, worker,
           Goes, Then
<1>1. ASSUME NEW q \in Queues, GuestPost(q) PROVE CountIsExact'
  BY <1>1, SameGuards DEF GuestPost, InPass, Counted
<1>2. ASSUME NEW q \in Queues, HostComplete(q) PROVE CountIsExact'
  <2>1. count' = count /\ InPass' = InPass
    BY <1>2 DEF HostComplete, InPass
  <2>2. \A p \in Queues : Counted(p)' = Counted(p)
    BY <1>2, HostCompleteKeeps
  <2> QED
    BY <2>1, <2>2, SameGuards
<1>3. ASSUME NEW q \in Queues, HandleQueueAvail(q) PROVE CountIsExact'
  BY <1>3, SameGuards DEF HandleQueueAvail, InPass, Counted
<1>4. ASSUME NEW q \in Queues, HandleRateLimiter(q) PROVE CountIsExact'
  BY <1>4, SameGuards DEF HandleRateLimiter, InPass, Counted
<1>5. ASSUME NEW q \in Queues, NEW kind \in {"stall", "swap"}, HandleCommand(q, kind)
       PROVE  CountIsExact'
  BY <1>5, SameGuards DEF HandleCommand, InPass, Counted
<1>6. ASSUME NEW q \in Queues, Apply(q) PROVE CountIsExact'
  BY <1>6, SameGuards DEF Apply, MayApply, InPass, Counted
<1>7. ASSUME NEW q \in Queues, HandleCompletion(q) PROVE CountIsExact'
  BY <1>7, SameGuards DEF HandleCompletion, InPass, Counted
<1>8. ASSUME NEW q \in Queues, CompleteOne(q) PROVE CountIsExact'
  <2>1. /\ InPass' = InPass
        /\ \A p \in Queues : Counted(p)' = IF p = q THEN Counted(p) - 1 ELSE Counted(p)
        /\ count' = count - 1
    BY <1>8 DEF CompleteOne, InPass, Counted
  <2>2. Guards' = Guards \ {<<q, Counted(q)>>} /\ <<q, Counted(q)>> \in Guards
    BY <1>m, <1>c, <1>t, <2>1 DEF GuardsAreMembers, CountedFits
  <2> QED
    BY <1>0, <2>1, <2>2, FS_RemoveElement DEF CountIsExact
<1>9. ASSUME NEW q \in Queues, CompleteEnd(q) PROVE CountIsExact'
  BY <1>9, SameGuards DEF CompleteEnd, AfterCompletions, Dies, InPass, Counted
<1>10. ASSUME NEW q \in Queues, CompleteFails(q) PROVE CountIsExact'
  <2>1. /\ InPass' = InPass
        /\ \A p \in Queues : Counted(p)' = IF p = q THEN Counted(p) - 1 ELSE Counted(p)
        /\ count' = count - 1
    BY <1>10 DEF CompleteFails, AfterCompletions, Dies, InPass, Counted
  <2>2. Guards' = Guards \ {<<q, Counted(q)>>} /\ <<q, Counted(q)>> \in Guards
    BY <1>m, <1>c, <1>t, <2>1 DEF GuardsAreMembers, CountedFits
  <2> QED
    BY <1>0, <2>1, <2>2, FS_RemoveElement DEF CountIsExact
<1>11. ASSUME NEW q \in Queues, Enter(q) PROVE CountIsExact'
  <2>1. /\ InPass' = InPass \cup {q} /\ q \notin InPass
        /\ \A p \in Queues : Counted(p)' = Counted(p)
        /\ count' = count + 1
    BY <1>11 DEF Enter, Bump, InPass, Counted
  <2>2. Guards' = Guards \cup {<<q, 0>>} /\ <<q, 0>> \notin Guards
    BY <1>m, <1>c, <1>t, <2>1 DEF GuardsAreMembers, CountedFits
  <2> QED
    BY <1>0, <2>1, <2>2, FS_AddElement DEF CountIsExact
<1>12. ASSUME NEW q \in Queues, FirstCheck(q) PROVE CountIsExact'
  BY <1>12, SameGuards DEF FirstCheck, InPass, Counted
<1>13. ASSUME NEW q \in Queues, LoopCheck(q) PROVE CountIsExact'
  BY <1>13, SameGuards DEF LoopCheck, CapReached, InPass, Counted
<1>14. ASSUME NEW q \in Queues, RingFails(q) PROVE CountIsExact'
  <2>1. /\ InPass' = InPass \ {q} /\ q \in InPass
        /\ \A p \in Queues : Counted(p)' = Counted(p)
    BY <1>14 DEF RingFails, InPass, Counted
  <2>2. Guards' = Guards \ {<<q, 0>>} /\ <<q, 0>> \in Guards
    BY <1>m, <1>c, <1>t, <2>1 DEF GuardsAreMembers, CountedFits
  <2>3. count' = count - 1
    BY <1>14, <1>0, <1>t, <2>2, FS_EmptySet DEF RingFails, GuardDropped, CountIsExact
  <2> QED
    BY <1>0, <2>2, <2>3, FS_RemoveElement DEF CountIsExact
<1>15. ASSUME NEW q \in Queues, PopAnswered(q) PROVE CountIsExact'
  BY <1>15, SameGuards DEF PopAnswered, InPass, Counted
<1>16. ASSUME NEW q \in Queues, PopFails(q) PROVE CountIsExact'
  BY <1>16, SameGuards DEF PopFails, InPass, Counted
<1>17. ASSUME NEW q \in Queues, PopLimited(q) PROVE CountIsExact'
  BY <1>17, SameGuards DEF PopLimited, InPass, Counted
<1>18. ASSUME NEW q \in Queues, PopSubmitted(q) PROVE CountIsExact'
  <2>1. /\ InPass' = InPass
        /\ \A p \in Queues : Counted(p)' = IF p = q THEN Counted(p) + 1 ELSE Counted(p)
        /\ count' = count + 1
    BY <1>18 DEF PopSubmitted, InPass, Counted
  <2>2. Guards' = Guards \cup {<<q, Counted(q) + 1>>} /\ <<q, Counted(q) + 1>> \notin Guards
    BY <1>m, <1>c, <1>t, <2>1 DEF GuardsAreMembers, CountedFits
  <2> QED
    BY <1>0, <2>1, <2>2, FS_AddElement DEF CountIsExact
<1>19. ASSUME NEW q \in Queues, PopBatched(q) PROVE CountIsExact'
  BY <1>19, SameGuards DEF PopBatched, InPass, Counted
<1>20. ASSUME NEW q \in Queues, Submit(q) PROVE CountIsExact'
  BY <1>20, SameGuards DEF Submit, InPass, Counted
<1>21. ASSUME NEW q \in Queues, NEW k \in 0..QueueSize[q], SubmitFails(q, k)
       PROVE  CountIsExact'
  BY <1>21, SameGuards DEF SubmitFails, InPass, Counted
<1>22. ASSUME NEW q \in Queues, SubmitNothing(q) PROVE CountIsExact'
  BY <1>22, SameGuards DEF SubmitNothing, InPass, Counted
<1>23. ASSUME NEW q \in Queues, CountBatch(q) PROVE CountIsExact'
  <2> DEFINE c == Counted(q)
             new == NewGuards(q, c, batch[q])
  <2>1. /\ InPass' = InPass
        /\ \A p \in Queues : Counted(p)' = IF p = q THEN c + batch[q] ELSE Counted(p)
        /\ count' = count + batch[q] /\ batch[q] \in Nat
    BY <1>23 DEF CountBatch, InPass, Counted
  <2>2. Guards' = Guards \cup new /\ Guards \cap new = {}
    BY <1>m, <1>c, <1>t, <2>1 DEF GuardsAreMembers, CountedFits, NewGuards
  <2>3. IsFiniteSet(new) /\ Cardinality(new) = batch[q]
    <3>1. Counted(q) \in Nat /\ batch[q] \in Nat
      BY <1>c, <1>t, <2>1 DEF CountedFits
    <3> QED
      BY <3>1, BatchSize
  <2>4. Cardinality(Guards \cup new) = Cardinality(Guards) + batch[q]
    <3>1. Cardinality(Guards \cup new) =
            Cardinality(Guards) + Cardinality(new) - Cardinality(Guards \cap new)
      BY <1>0, <2>3, FS_Union
    <3>2. Cardinality(Guards \cap new) = 0
      BY <2>2, FS_EmptySet
    <3> QED
      BY <1>0, <2>1, <2>3, <3>1, <3>2
  <2> QED
    BY <2>1, <2>2, <2>4 DEF CountIsExact
<1>24. ASSUME NEW q \in Queues, Leave(q) PROVE CountIsExact'
  <2>1. /\ InPass' = InPass \ {q} /\ q \in InPass
        /\ \A p \in Queues : Counted(p)' = Counted(p)
    BY <1>24 DEF Leave, Dies, InPass, Counted
  <2>2. Guards' = Guards \ {<<q, 0>>} /\ <<q, 0>> \in Guards
    BY <1>m, <1>c, <1>t, <2>1 DEF GuardsAreMembers, CountedFits
  <2>3. count' = count - 1
    BY <1>24, <1>0, <1>t, <2>2, FS_EmptySet DEF Leave, GuardDropped, CountIsExact
  <2> QED
    BY <1>0, <2>2, <2>3, FS_RemoveElement DEF CountIsExact
<1>25. CASE PauseBegin
  BY <1>25, SameGuards DEF PauseBegin, InPass, Counted
<1>26. CASE Drained
  BY <1>26, SameGuards DEF Drained, InPass, Counted
<1>27. CASE SyncMetadata
  BY <1>27, SameGuards DEF SyncMetadata, InPass, Counted
<1>28. CASE PauseFails
  BY <1>28, SameGuards DEF PauseFails, InPass, Counted
<1>29. CASE ParkWorkers
  BY <1>29, SameGuards DEF ParkWorkers, InPass, Counted
<1>30. CASE Resume
  BY <1>30, SameGuards DEF Resume, QueueEvts, InPass, Counted
<1>31. CASE UNCHANGED vars
  BY <1>31, SameGuards DEF vars, InPass, Counted
<1> QED
  BY <1>1, <1>2, <1>3, <1>4, <1>5, <1>6, <1>7, <1>8, <1>9, <1>10, <1>11, <1>12,
     <1>13, <1>14, <1>15, <1>16, <1>17, <1>18, <1>19, <1>20, <1>21, <1>22, <1>23, <1>24,
     <1>25, <1>26, <1>27, <1>28, <1>29, <1>30, <1>31
     DEF Next, Pass, Pause

(***************************************************************************)
(* From the zero that pause reads to the resume no request is taken and    *)
(* the image stays flushed; and no worker goes to sleep on a ring that     *)
(* nobody signals.                                                         *)
(***************************************************************************)
LEMMA DrainStep ==
    IndInv /\ [Next]_vars => 
        /\ NoneTaken' /\ PausedImageIsSynced'
        /\ RingIsSeen' /\ CompletionIsSeen' /\ CommandWaits'
<1> DEFINE Goal == /\ NoneTaken /\ PausedImageIsSynced
                   /\ RingIsSeen /\ CompletionIsSeen /\ CommandWaits
<1> SUFFICES ASSUME IndInv, [Next]_vars PROVE Goal'
  OBVIOUS
<1>0. LocalInv /\ LocalInv'
  BY LocalStep DEF IndInv
<1> USE <1>0, QueueSizeAssumption
        DEF IndInv, LocalInv, TypeOK, RingBound, BatchOfPass, FlagOfPause, NoneTaken,
            PausedImageIsSynced, RingIsSeen, CompletionIsSeen, CommandWaits, Taken, Deferred, Signalled,
            rings, evts, mirror, errors, worker, Goes, Then
<1>1. ASSUME NEW q \in Queues, GuestPost(q) PROVE Goal'
  BY <1>1 DEF GuestPost
<1>2. ASSUME NEW q \in Queues, HostComplete(q) PROVE Goal'
  BY <1>2 DEF HostComplete
<1>3. ASSUME NEW q \in Queues, HandleQueueAvail(q) PROVE Goal'
  BY <1>3 DEF HandleQueueAvail
<1>4. ASSUME NEW q \in Queues, HandleRateLimiter(q) PROVE Goal'
  BY <1>4 DEF HandleRateLimiter
<1>5. ASSUME NEW q \in Queues, NEW kind \in {"stall", "swap"}, HandleCommand(q, kind)
       PROVE  Goal'
  BY <1>5 DEF HandleCommand
<1>6. ASSUME NEW q \in Queues, Apply(q) PROVE Goal'
  <2>1. NoneTaken' /\ PausedImageIsSynced'
    <3>1. pc' = [pc EXCEPT ![q] = pc'[q]] /\ pc'[q] \in {"idle", "enter"} /\ ~paused
      BY <1>6 DEF Apply, MayApply
    <3> QED
      BY <1>6, <3>1 DEF Apply
  <2>2. RingIsSeen'
    BY <1>6 DEF Apply, MayApply
  <2>3. CompletionIsSeen'
    BY <1>6 DEF Apply, MayApply
  <2>4. CommandWaits'
    BY <1>6 DEF Apply, MayApply
  <2> QED
    BY <2>1, <2>2, <2>3, <2>4
<1>7. ASSUME NEW q \in Queues, HandleCompletion(q) PROVE Goal'
  BY <1>7 DEF HandleCompletion
<1>8. ASSUME NEW q \in Queues, CompleteOne(q) PROVE Goal'
  <2>1. NoneTaken' /\ PausedImageIsSynced'
    BY <1>8 DEF CompleteOne
  <2>2. RingIsSeen'
    BY <1>8 DEF CompleteOne
  <2>3. CompletionIsSeen'
    BY <1>8 DEF CompleteOne
  <2>4. CommandWaits'
    <3>1. /\ pc[q] = "complete" /\ UNCHANGED <<cmd, pc, then, host>>
          /\ \A r \in Queues : r # q => done'[r] = done[r]
      BY <1>8 DEF CompleteOne
    <3> QED
      BY <3>1
  <2> QED
    BY <2>1, <2>2, <2>3, <2>4
<1>9. ASSUME NEW q \in Queues, CompleteEnd(q) PROVE Goal'
  BY <1>9 DEF CompleteEnd, AfterCompletions, Dies
<1>10. ASSUME NEW q \in Queues, CompleteFails(q) PROVE Goal'
  <2>1. NoneTaken' /\ PausedImageIsSynced'
    BY <1>10 DEF CompleteFails, AfterCompletions, Dies
  <2>2. RingIsSeen'
    BY <1>10 DEF CompleteFails, AfterCompletions, Dies
  <2>3. CompletionIsSeen'
    <3>1. done'[q] = done[q] - 1 /\ done[q] \in Nat
      BY <1>10 DEF CompleteFails
    <3>2. stuck' = [stuck EXCEPT ![q] = done[q] > 1]
      BY <1>10 DEF CompleteFails
    <3>3. /\ UNCHANGED notified
          /\ \A r \in Queues : r # q =>
                done'[r] = done[r] /\ stuck'[r] = stuck[r] /\ pc'[r] = pc[r]
      BY <1>10 DEF CompleteFails
    <3>4. ASSUME done'[q] > 0 PROVE stuck'[q]
      <4>1. done[q] > 1
        BY <3>1, <3>4
      <4>2. q \in DOMAIN stuck
        OBVIOUS
      <4>3. stuck'[q] = (done[q] > 1)
        BY <3>2, <4>2, Zenon
      <4> QED
        BY <4>1, <4>3, Zenon
    <3> QED
      BY <3>3, <3>4
  <2>4. CommandWaits'
    BY <1>10 DEF CompleteFails, AfterCompletions, Dies
  <2> QED
    BY <2>1, <2>2, <2>3, <2>4
<1>11. ASSUME NEW q \in Queues, Enter(q) PROVE Goal'
  BY <1>11 DEF Enter, Bump
<1>12. ASSUME NEW q \in Queues, FirstCheck(q) PROVE Goal'
  BY <1>12 DEF FirstCheck
<1>13. ASSUME NEW q \in Queues, LoopCheck(q) PROVE Goal'
  BY <1>13 DEF LoopCheck, CapReached
<1>14. ASSUME NEW q \in Queues, RingFails(q) PROVE Goal'
  BY <1>14 DEF RingFails, GuardDropped
<1>15. ASSUME NEW q \in Queues, PopAnswered(q) PROVE Goal'
  BY <1>15 DEF PopAnswered
<1>16. ASSUME NEW q \in Queues, PopFails(q) PROVE Goal'
  BY <1>16 DEF PopFails
<1>17. ASSUME NEW q \in Queues, PopLimited(q) PROVE Goal'
  BY <1>17 DEF PopLimited
<1>18. ASSUME NEW q \in Queues, PopSubmitted(q) PROVE Goal'
  BY <1>18 DEF PopSubmitted
<1>19. ASSUME NEW q \in Queues, PopBatched(q) PROVE Goal'
  BY <1>19 DEF PopBatched
<1>20. ASSUME NEW q \in Queues, Submit(q) PROVE Goal'
  BY <1>20 DEF Submit
<1>21. ASSUME NEW q \in Queues, NEW k \in 0..QueueSize[q], SubmitFails(q, k)
       PROVE  Goal'
  BY <1>21 DEF SubmitFails
<1>22. ASSUME NEW q \in Queues, SubmitNothing(q) PROVE Goal'
  BY <1>22 DEF SubmitNothing
<1>23. ASSUME NEW q \in Queues, CountBatch(q) PROVE Goal'
  <2>1. NoneTaken'
    BY <1>23 DEF CountBatch
  <2>2. PausedImageIsSynced'
    BY <1>23 DEF CountBatch
  <2>3. RingIsSeen'
    BY <1>23 DEF CountBatch
  <2>4. CompletionIsSeen' /\ CommandWaits'
    BY <1>23 DEF CountBatch
  <2> QED
    BY <2>1, <2>2, <2>3, <2>4
<1>24. ASSUME NEW q \in Queues, Leave(q) PROVE Goal'
  BY <1>24 DEF Leave, GuardDropped, Dies
<1>25. CASE PauseBegin
  BY <1>25 DEF PauseBegin
<1>26. CASE Drained
  <2>1. InPass = {} /\ \A q \in Queues : Counted(q) = 0
    BY <1>26, GuardsFinite DEF Drained, CountIsExact
  <2> QED
    BY <1>26, <2>1 DEF Drained, InPass, Counted
<1>27. CASE SyncMetadata
  BY <1>27 DEF SyncMetadata
<1>28. CASE PauseFails
  BY <1>28 DEF PauseFails
<1>29. CASE ParkWorkers
  BY <1>29 DEF ParkWorkers
<1>30. CASE Resume
  BY <1>30 DEF Resume, QueueEvts
<1>31. CASE UNCHANGED vars
  BY <1>31 DEF vars
<1> HIDE DEF Goal, IndInv
<1> QED
  BY <1>1, <1>2, <1>3, <1>4, <1>5, <1>6, <1>7, <1>8, <1>9, <1>10, <1>11, <1>12,
     <1>13, <1>14, <1>15, <1>16, <1>17, <1>18, <1>19, <1>20, <1>21, <1>22, <1>23, <1>24,
     <1>25, <1>26, <1>27, <1>28, <1>29, <1>30, <1>31
     DEF Next, Pass, Pause
-----------------------------------------------------------------------------
(***************************************************************************)
(* The inductive invariant holds of Block::pause, resume and the queue     *)
(* workers for every number of queues and every queue size.                *)
(***************************************************************************)
THEOREM IndInvHolds == Spec => []IndInv
<1>1. Init => IndInv
  <2> SUFFICES ASSUME Init PROVE IndInv
    OBVIOUS
  <2>1. /\ LocalInv /\ NoneTaken /\ PausedImageIsSynced
        /\ RingIsSeen /\ CompletionIsSeen /\ CommandWaits
    <3> USE QueueSizeAssumption DEF Init, Zero, None, All, Taken
    <3>0. Zero \in [Queues -> Nat] /\ None \in [Queues -> BOOLEAN]
      OBVIOUS
    <3>1. TypeOK
      BY <3>0 DEF TypeOK
    <3>2. RingBound /\ BatchOfPass /\ FlagOfPause
      BY DEF RingBound, BatchOfPass, FlagOfPause
    <3>3. NoneTaken /\ PausedImageIsSynced /\ RingIsSeen
      BY DEF NoneTaken, PausedImageIsSynced, RingIsSeen
    <3>4. CompletionIsSeen /\ CommandWaits
      BY DEF CompletionIsSeen, CommandWaits
    <3> QED
      BY <3>1, <3>2, <3>3, <3>4 DEF LocalInv
  <2>2. Guards = {}
    <3>1. InPass = {} /\ \A q \in Queues : Counted(q) = 0
      BY DEF Init, InPass, Counted, Zero, All
    <3> QED
      BY <2>1, <3>1, GuardMembers, QueueSizeAssumption DEF GuardsAreMembers
  <2> QED
    BY <2>1, <2>2, FS_EmptySet DEF Init, IndInv, CountIsExact
<1>2. IndInv /\ [Next]_vars => IndInv'
  BY LocalStep, CountStep, DrainStep DEF IndInv
<1> QED
  BY <1>1, <1>2, PTL DEF Spec

(***************************************************************************)
(* active_request_count is exactly the number of live ActiveRequestGuards, *)
(* so the zero that wait_for_active_requests reads is the truth.           *)
(***************************************************************************)
THEOREM CounterIsExact == Spec => []CountIsExact
<1>1. IndInv => CountIsExact
  BY DEF IndInv
<1> QED
  BY <1>1, IndInvHolds, PTL

(***************************************************************************)
(* A paused device holds no request: it has answered every request that it *)
(* took from its rings, except those that an error return of               *)
(* process_queue_submit or process_queue_complete had dropped before.      *)
(***************************************************************************)
THEOREM PausedDeviceIsDrained == Spec => []PausedIsDrained
<1>1. IndInv => PausedIsDrained
  BY QueueSizeAssumption
     DEF IndInv, LocalInv, TypeOK, RingBound, NoneTaken, Taken, PausedIsDrained
<1> QED
  BY <1>1, IndInvHolds, PTL

(***************************************************************************)
(* No host I/O dirties the image between the flush of pause and the        *)
(* resume.                                                                 *)
(***************************************************************************)
THEOREM PausedImageStaysSynced == Spec => []PausedImageIsSynced
<1>1. IndInv => PausedImageIsSynced
  BY DEF IndInv
<1> QED
  BY <1>1, IndInvHolds, PTL

(***************************************************************************)
(* A worker that goes idle on a ring with requests has a queue event or a  *)
(* timer that brings it back, or is kept by the mirror and has the command *)
(* or completion to come that lets it go on, whatever number of            *)
(* descriptors the ring has.  The errors that consume the event (skipped)  *)
(* or the notifier (stuck) are the exceptions the property names.          *)
(***************************************************************************)
THEOREM WaitingRingIsSignalled == Spec => []WaitingIsSignalled
<1>1. IndInv => WaitingIsSignalled
  BY DEF IndInv, LocalInv, TypeOK, RingIsSeen, CompletionIsSeen, CommandWaits,
         Signalled, Deferred, KeptByMirror, WaitingIsSignalled
<1> QED
  BY <1>1, IndInvHolds, PTL
=============================================================================
