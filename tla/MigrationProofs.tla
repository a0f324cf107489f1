-------------------------- MODULE MigrationProofs ---------------------------
(***************************************************************************)
(* Proofs about module Migration: for every memory, every set of disks and *)
(* every number of attempts, the guest runs at one end only, the source    *)
(* gives its VM up only for one that was taken over, the destination runs  *)
(* on complete memory, and a guest runs only where all disks are locked.   *)
(*                                                                         *)
(* None of them is inductive.  What holds them together is what the two    *)
(* ends know of each other when the connection is gone: which request may  *)
(* still arrive (RequestOfWorker), what an answer says (AnswerIsTrue), and *)
(* what the source may still do once Complete is on its way or was carried *)
(* out (Committed).                                                        *)
(***************************************************************************)
EXTENDS Migration, TLAPS

\* The worker waits for the answer to a request, and which request that is.
Waiting == {"Start", "MemoryFd", "Config", "Memory", "FinalMemory", "SnapMemory",
            "State", "Complete"}
Completes == {"Complete", "CompletePaused"}
Pending ==
    CASE wpc \in {"Memory", "FinalMemory", "SnapMemory"} -> {"Memory"}
      [] wpc = "Complete" -> Completes
      [] OTHER -> {wpc}

\* The worker has no connection yet, or no longer.
Apart == {"idle", "connect", "done"}

\* Where the worker is once it has paused the VM, and once it released the locks.
Released == {"fault", "snapshot", "snapMemory", "SnapMemory", "state", "State",
             "Complete", "drain", "notify"}
Stopped == {"final", "FinalMemory", "check", "release"} \cup Released

\* The worker and its connection live as long as the migration.
WorkerOfMigration ==
    /\ wpc # "idle" <=> owner = "Migration"
    /\ conn = "up" => wpc \notin Apart
    /\ wpc \in Apart => ack = None
    /\ wpc \notin Apart => ~split
    /\ wpc \in Stopped => vm = "Paused"
    /\ wpc = "Memory" => iter < MaxIterations
    /\ wpc \in {"iterate", "Memory", "final", "FinalMemory", "snapMemory", "SnapMemory"}
         => cfg.mode = "Precopy"
    /\ cfg.preserve => cfg.mode = "MemFDs"

\* On the wire is at most the request the worker waits for, or its answer.
RequestOfWorker ==
    /\ wpc \in Waiting => req \in {None} \cup Pending /\ (ack = None \/ req = None)
    /\ wpc \notin Waiting \cup Apart => req = None /\ ack = None

\* The destination has the VM, or will have it when the request arrives.
Complete ==
    req \in Completes \/ dvm = "Running" \/ dstate \in {"Completed", "Exited"}

\* Then the source does not run it again, but where the migration failed after
\* Complete was sent and was not a postcopy, or the operator asked for a copy.
Committed ==
    Complete =>
        \/ split
        \/ vm = "none"
        \/ wpc \in {"Complete", "drain", "notify"} /\ moved
        \/ /\ wpc = "done" /\ moved /\ vm = "Paused"
           /\ result = "ok" \/ (result = "failed" /\ cfg.mode = "Postcopy")
        \/ owner = "Owned" /\ result = "ok" /\ cfg.preserve

\* What the source takes for a success is one.
AnswerIsTrue ==
    \/ wpc = "Complete" /\ ack = "ok"
    \/ wpc \in {"drain", "notify"}
    \/ wpc = "done" /\ result = "ok"
    => dstate \in {"Completed", "Exited"}

\* The pages that the destination lacks are those the source still has to send.
Unsent ==
    CASE wpc \in {"iterate", "pause", "final"} -> table \cup dirty
      [] wpc \in {"Memory", "snapMemory"} -> dirty
      [] OTHER -> {}

PrecopyMemory ==
    cfg.mode = "Precopy" /\ wpc \notin Apart \cup {"Start", "MemoryFd", "Config"}
        => /\ stale \subseteq Unsent
           /\ wpc \in {"drain", "notify"} \/ logging

\* Shared memory is complete once the destination mapped it.
SharedMemory ==
    cfg.mode = "MemFDs" =>
        /\ wpc = "MemoryFd" /\ ack = "ok" => dstate = "MemoryFdsReceived" \/ conn # "up"
        /\ wpc = "Config" /\ req = "Config" => dstate = "MemoryFdsReceived"
        /\ wpc = "Config" /\ ack = "ok" => stale = {}
        /\ wpc \notin Apart \cup {"Start", "MemoryFd", "Config"} => stale = {}

\* The source of a postcopy keeps the pages and the connection they are fetched by.
FaultIsServed ==
    /\ cfg.mode = "Postcopy" /\ wpc \in {"snapshot", "state", "State"} /\ conn = "up"
         => fault \in {"up", "down"}
    /\ req \in Completes \/ dstate = "Completed" =>
         \/ stale = {}
         \/ /\ cfg.mode = "Postcopy" /\ moved /\ fault \in {"up", "down"}
            /\ \/ wpc \in {"Complete", "drain"}
               \/ wpc = "done" /\ result = "failed" /\ vm = "Paused"
               \/ owner = "None"
               \/ owner = "Exited" /\ fault = "down"

\* A source that has not lost its locks in a failed migration has them, or
\* gives them away with its VM.
SourceLocks ==
    (vm # "none" /\ ~lateFail) =>
        \/ \A d \in Disks : lock[d] = "src"
        \/ /\ unlocked /\ ~cfg.preserve
           /\ wpc \in Released \/ (wpc = "done" /\ result = "ok" /\ vm = "Paused")

\* A VM at the destination was created with all locks, and ends with its locks.
DestLocks ==
    /\ dvm # "none" => \A d \in Disks : lock[d] = "dst"
    /\ dstate = "StateReceived" => dvm = "Paused"
    /\ dstate = "Completed" /\ devts # {} => dvm # "none"
    /\ dvm = "Running" => dstate \in {"Completed", "Failing"}

\* There is no other event than the one the guest raised.
OneEvent ==
    /\ evts \cup devts \subseteq {raised}
    /\ postponed \in {None, raised} /\ snap \in {None, raised} /\ devent \in {None, raised}

IndInv ==
    /\ TypeOK /\ WorkerOfMigration /\ RequestOfWorker /\ Committed /\ AnswerIsTrue
    /\ NotLost /\ PrecopyMemory /\ SharedMemory /\ FaultIsServed
    /\ SourceLocks /\ DestLocks /\ OneEvent
-----------------------------------------------------------------------------
\* What happens outside the two VMMs' own threads: the guest, another user of
\* the disks, the network, and the operator.
Environment ==
    \/ \E p \in Pages : GuestWrite(p)
    \/ \E e \in Events : GuestRaises(e)
    \/ \E d \in Disks : OtherLocks(d)
    \/ Break \/ BreakFault
    \/ VmPause \/ VmResume \/ VmCancelMigration
    \/ \E m \in Modes, p \in BOOLEAN : VmSendMigration(m, p)

(***************************************************************************)
(* The four kinds of steps.                                                *)
(***************************************************************************)
LEMMA StepKinds ==
    ASSUME Next
    PROVE  Environment \/ ControlLoop \/ Worker \/ (Dest \/ DestResume)
<1>1. \A m \in Modes, p \in (IF MayPreserve THEN BOOLEAN ELSE {FALSE}) :
        VmSendMigration(m, p) => \E q \in BOOLEAN : VmSendMigration(m, q)
  OBVIOUS
<1>2. QED
  BY <1>1 DEF Next, Environment

USE ModesAssumption, BoundsAssumption
USE DEF sourceVars, snapVars, eventVars, memoryVars, netVars, destVars, workerVars,
        notWorker, notDest, None, Events, Receiving,
        Waiting, Completes, Pending, Apart, Released, Stopped, Complete, Unsent

(***************************************************************************)
(* Every step keeps the types.  Flags that a step clears have a step of    *)
(* their own: the provers take them apart from the rest.                   *)
(***************************************************************************)
LEMMA TypeStep ==
    ASSUME IndInv, Next
    PROVE  TypeOK'
<1> USE DEF IndInv, TypeOK, RequestOfWorker, WorkerOfMigration
<1>1. CASE Environment
  <2>1. ASSUME NEW p \in Pages, GuestWrite(p) PROVE TypeOK'
    BY <2>1 DEF GuestWrite
  <2>2. ASSUME NEW e \in Events, GuestRaises(e) PROVE TypeOK'
    BY <2>2 DEF GuestRaises
  <2>3. ASSUME NEW d \in Disks, OtherLocks(d) PROVE TypeOK'
    BY <2>3 DEF OtherLocks
  <2>4. CASE Break
    BY <2>4 DEF Break
  <2>5. CASE BreakFault
    BY <2>5 DEF BreakFault
  <2>6. CASE VmPause
    BY <2>6 DEF VmPause
  <2>7. CASE VmResume
    BY <2>7 DEF VmResume
  <2>8. CASE VmCancelMigration
    BY <2>8 DEF VmCancelMigration
  <2>9. ASSUME NEW m \in Modes, NEW b \in BOOLEAN, VmSendMigration(m, b) PROVE TypeOK'
    <3>1. cancel' \in BOOLEAN /\ moved' \in BOOLEAN /\ unlocked' \in BOOLEAN
      BY <2>9 DEF VmSendMigration
    <3>2. QED
      BY <2>9, <3>1 DEF VmSendMigration
  <2>10. QED
    BY <1>1, <2>1, <2>2, <2>3, <2>4, <2>5, <2>6, <2>7, <2>8, <2>9 DEF Environment
<1>2. CASE ControlLoop
  <2>1. ASSUME NEW e \in Events, HandleMigrating(e) PROVE TypeOK'
    BY <2>1 DEF HandleMigrating, PostponeEvent
  <2>2. ASSUME NEW e \in Events, HandleWithoutVm(e) PROVE TypeOK'
    BY <2>2 DEF HandleWithoutVm, FaultAtExit
  <2>3. CASE HandleReset
    <3>1. lateFail' \in BOOLEAN
      BY <2>3 DEF HandleReset, Dropped, Lockable, Locked, FaultAtExit
    <3>2. QED
      BY <2>3, <3>1 DEF HandleReset, Dropped, Lockable, Locked, FaultAtExit
  <2>4. CASE HandleGuestExit
    BY <2>4 DEF HandleGuestExit, Dropped, FaultAtExit
  <2>5. CASE HandleExit
    BY <2>5 DEF HandleExit, Dropped, FaultAtExit
  <2>6. CASE CheckPreserved
    BY <2>6 DEF CheckPreserved, WorkerEnded, Replay
  <2>7. CASE CheckMoved
    BY <2>7 DEF CheckMoved, WorkerEnded, TearDown, Dropped
  <2>8. CASE CheckPostcopyFailed
    BY <2>8 DEF CheckPostcopyFailed, WorkerEnded, TearDown, MovedForGood, Dropped
  <2>9. CASE CheckFailed
    <3>1. logging' \in BOOLEAN /\ exit' \in BOOLEAN
      BY <2>9 DEF CheckFailed, WorkerEnded, Replay, MovedForGood
    <3>2. QED
      BY <2>9, <3>1 DEF CheckFailed, WorkerEnded, Replay, MovedForGood
  <2>10. QED
    BY <1>2, <2>1, <2>2, <2>3, <2>4, <2>5, <2>6, <2>7, <2>8, <2>9
      DEF ControlLoop, CheckMigration
<1>3. CASE Worker
  <2>1. CASE Connect
    <3>1. split' \in BOOLEAN
      BY <2>1 DEF Connect
    <3>2. QED
      BY <2>1, <3>1 DEF Connect
  <2>2. CASE ConnectFails
    BY <2>2 DEF ConnectFails, FinishOnly, Finish
  <2>3. CASE AnswerFails
    BY <2>3 DEF AnswerFails, FinishOnly, Finish
  <2>4. CASE SendConfig
    BY <2>4 DEF SendConfig, Request, Goto, Acked
  <2>5. CASE NotifyFails
    BY <2>5 DEF NotifyFails, FinishOnly, Finish
  <2>6. CASE StartMemory
    <3>1. logging' \in BOOLEAN
      BY <2>6 DEF StartMemory, Goto, Acked
    <3>2. QED
      BY <2>6, <3>1 DEF StartMemory, Goto, Acked
  <2>7. CASE Converged
    BY <2>7 DEF Converged, Goto
  <2>8. CASE ConvergeTimeout
    BY <2>8 DEF ConvergeTimeout, FinishOnly, Finish
  <2>9. CASE SendMemory
    BY <2>9 DEF SendMemory, Finish, Request, Goto
  <2>10. CASE NextIteration
    BY <2>10 DEF NextIteration, Goto, Acked
  <2>11. CASE PauseVm
    BY <2>11 DEF PauseVm, Goto
  <2>12. CASE PauseFails
    BY <2>12 DEF PauseFails, FinishOnly, Finish
  <2>13. CASE SendFinal
    BY <2>13 DEF SendFinal, Finish, Request, Goto, FinalTable
  <2>14. CASE FinalSent
    BY <2>14 DEF FinalSent, Goto, Acked
  <2>15. CASE CheckCancel
    BY <2>15 DEF CheckCancel, Finish, Goto
  <2>16. CASE ReleaseLocks
    BY <2>16 DEF ReleaseLocks, ReleasedLocks, Dropped
  <2>17. CASE ReleaseFails
    BY <2>17 DEF ReleaseFails, Dropped
  <2>18. CASE OpenFault
    BY <2>18 DEF OpenFault, Goto
  <2>19. CASE OpenFaultFails
    BY <2>19 DEF OpenFaultFails, FinishOnly, Finish
  <2>20. CASE TakeSnapshot
    BY <2>20 DEF TakeSnapshot, Goto
  <2>21. CASE SnapshotFails
    BY <2>21 DEF SnapshotFails, FinishOnly, Finish
  <2>22. CASE SendSnapMemory
    BY <2>22 DEF SendSnapMemory, Request, Goto
  <2>23. CASE SendState
    BY <2>23 DEF SendState, Request, Goto, Acked
  <2>24. CASE SendComplete
    BY <2>24 DEF SendComplete, Request, Acked
  <2>25. CASE Completed
    <3>1. logging' \in BOOLEAN
      BY <2>25 DEF Completed, Acked
    <3>2. QED
      BY <2>25, <3>1 DEF Completed, Acked
  <2>26. CASE FinishMigration
    BY <2>26 DEF FinishMigration, FinishOnly, Finish
  <2>27. QED
    BY <1>3, <2>1, <2>2, <2>3, <2>4, <2>5, <2>6, <2>7, <2>8, <2>9, <2>10, <2>11, <2>12,
       <2>13, <2>14, <2>15, <2>16, <2>17, <2>18, <2>19, <2>20, <2>21, <2>22, <2>23,
       <2>24, <2>25, <2>26 DEF Worker
<1>4. CASE Dest \/ DestResume
  <2>1. CASE Listen
    BY <2>1 DEF Listen
  <2>2. CASE ReceiveStart
    BY <2>2 DEF ReceiveStart, Respond
  <2>3. CASE ReceiveMemoryFd
    BY <2>3 DEF ReceiveMemoryFd, Respond
  <2>4. CASE ReceiveConfig
    BY <2>4 DEF ReceiveConfig, Respond
  <2>5. CASE ReceiveMemory
    BY <2>5 DEF ReceiveMemory, Respond
  <2>6. CASE ReceiveState
    BY <2>6 DEF ReceiveState, Respond, CanRestore, Lockable
  <2>7. CASE ReceiveComplete
    BY <2>7 DEF ReceiveComplete, Respond, ReplayedEvents
  <2>8. CASE ReceiveFails
    BY <2>8 DEF ReceiveFails
  <2>9. CASE ReadFails
    BY <2>9 DEF ReadFails
  <2>10. CASE ReceiveFailed
    BY <2>10 DEF ReceiveFailed, Dropped
  <2>11. CASE AllFetched
    BY <2>11 DEF AllFetched
  <2>12. CASE FetchFails
    BY <2>12 DEF FetchFails, Dropped
  <2>13. ASSUME NEW p \in Pages, FetchPage(p) PROVE TypeOK'
    BY <2>13 DEF FetchPage
  <2>14. ASSUME NEW e \in Events, DestHandleEvent(e) PROVE TypeOK'
    BY <2>14 DEF DestHandleEvent, Dropped
  <2>15. CASE DestResume
    BY <2>15 DEF DestResume
  <2>16. QED
    BY <1>4, <2>1, <2>2, <2>3, <2>4, <2>5, <2>6, <2>7, <2>8, <2>9, <2>10, <2>11, <2>12,
       <2>13, <2>14, <2>15 DEF Dest
<1>5. QED
  BY <1>1, <1>2, <1>3, <1>4, StepKinds

\* Environment and its parts.
USE DEF Environment, GuestWrite, GuestRaises, OtherLocks, Break, BreakFault, VmPause,
        VmResume, VmCancelMigration, VmSendMigration

\* The control loop.
USE DEF ControlLoop, HandleMigrating, PostponeEvent, HandleWithoutVm, HandleReset,
        HandleGuestExit, HandleExit, FaultAtExit, CheckMigration, WorkerEnded, Replay,
        CheckPreserved, CheckMoved, TearDown, CheckPostcopyFailed, MovedForGood,
        CheckFailed, Dropped, Lockable, Locked

\* The worker.
USE DEF Worker, Finish, FinishOnly, Request, Goto, Acked, Connect, ConnectFails,
        AnswerFails, SendConfig, NotifyFails, StartMemory, Converged, ConvergeTimeout,
        SendMemory, NextIteration, PauseVm, PauseFails, FinalTable, SendFinal, FinalSent,
        CheckCancel, ReleasedLocks, ReleaseLocks, ReleaseFails, OpenFault,
        OpenFaultFails, TakeSnapshot, SnapshotFails, SendSnapMemory, SendState,
        SendComplete, Completed, FinishMigration

\* The destination.
USE DEF Dest, Listen, Respond, ReceiveStart, ReceiveMemoryFd, ReceiveConfig,
        ReceiveMemory, CanRestore, ReceiveState, ReplayedEvents, ReceiveComplete,
        ReceiveFails, ReadFails, ReceiveFailed, FetchPage, AllFetched, FetchFails,
        DestHandleEvent, DestResume

(***************************************************************************)
(* The worker runs and is connected as long as the migration lasts, and the *)
(* wire carries what it waits for.  Committed excludes a destination that  *)
(* is still busy with an earlier migration.                                *)
(***************************************************************************)
LEMMA WorkerStep ==
    ASSUME IndInv, Next
    PROVE  (WorkerOfMigration /\ RequestOfWorker)'
<1> USE DEF IndInv, TypeOK, WorkerOfMigration, RequestOfWorker, Committed
<1>1. CASE Environment
  BY <1>1
<1>2. CASE ControlLoop
  BY <1>2
<1>3. CASE Worker
  BY <1>3
<1>4. CASE Dest \/ DestResume
  BY <1>4
<1> HIDE DEF Environment, ControlLoop, Worker, Dest, DestResume
<1>5. QED
  BY <1>1, <1>2, <1>3, <1>4, StepKinds

(***************************************************************************)
(* Once Complete is on its way, no step lets the source run the guest again *)
(* in a case that Committed does not name, whatever is lost; and the answer *)
(* that ends a migration comes from a destination that took the VM over.   *)
(***************************************************************************)
LEMMA CommitStep ==
    ASSUME IndInv, Next
    PROVE  (Committed /\ AnswerIsTrue /\ NotLost)'
<1> USE DEF IndInv, TypeOK, WorkerOfMigration, RequestOfWorker, Committed, AnswerIsTrue,
            NotLost, DestLocks
<1>1. CASE Environment
  BY <1>1
<1>2. CASE ControlLoop
  BY <1>2
<1>3. CASE Worker
  BY <1>3
<1>4. CASE Dest \/ DestResume
  BY <1>4
<1> HIDE DEF Environment, ControlLoop, Worker, Dest, DestResume
<1>5. QED
  BY <1>1, <1>2, <1>3, <1>4, StepKinds

(***************************************************************************)
(* No page is missed: what a step writes it logs, what it takes from the   *)
(* log it sends, and a postcopy source ends no connection that is needed.  *)
(***************************************************************************)
LEMMA MemoryStep ==
    ASSUME IndInv, Next
    PROVE  (PrecopyMemory /\ SharedMemory /\ FaultIsServed)'
<1> USE DEF IndInv, TypeOK, WorkerOfMigration, RequestOfWorker, Committed, PrecopyMemory,
            SharedMemory, FaultIsServed
<1>1. CASE Environment
  BY <1>1
<1>2. CASE ControlLoop
  BY <1>2
<1>3. CASE Worker
  BY <1>3
<1>4. CASE Dest \/ DestResume
  BY <1>4
<1> HIDE DEF Environment, ControlLoop, Worker, Dest, DestResume
<1>5. QED
  BY <1>1, <1>2, <1>3, <1>4, StepKinds

(***************************************************************************)
(* The locks move with the VM: release happens once the VM is paused, and a *)
(* destination creates its VM only with all of them.  The release is a case *)
(* of its own, with and without preserve_source.                           *)
(***************************************************************************)
LEMMA LockStep ==
    ASSUME IndInv, Next
    PROVE  (SourceLocks /\ DestLocks)'
<1> USE DEF IndInv, TypeOK, WorkerOfMigration, RequestOfWorker, SourceLocks,
            DestLocks, OneEvent
<1>1. CASE Environment
  BY <1>1
<1>2. CASE ControlLoop
  BY <1>2
<1>3. CASE ReleaseLocks
  <2>1. CASE cfg.preserve
    BY <1>3, <2>1
  <2>2. CASE ~cfg.preserve
    <3>1. unlocked' /\ ~cfg'.preserve /\ wpc' \in Released
      BY <1>3, <2>2
    <3>2. DestLocks'
      BY <1>3, <2>2
    <3>3. QED
      BY <3>1, <3>2
  <2>3. QED
    BY <2>1, <2>2
<1>4. CASE Worker /\ ~ReleaseLocks
  BY <1>4
<1>5. CASE Dest \/ DestResume
  BY <1>5
<1> HIDE DEF Environment, ControlLoop, Worker, Dest, DestResume, ReleaseLocks
<1>6. QED
  BY <1>1, <1>2, <1>3, <1>4, <1>5, StepKinds

(***************************************************************************)
(* One event at most is anywhere in the system.                            *)
(***************************************************************************)
LEMMA EventStep ==
    ASSUME IndInv, Next
    PROVE  (OneEvent)'
<1> USE DEF IndInv, TypeOK, RequestOfWorker, OneEvent
<1>1. CASE Environment
  BY <1>1
<1>2. CASE ControlLoop
  BY <1>2
<1>3. CASE Worker
  BY <1>3
<1>4. CASE Dest \/ DestResume
  BY <1>4
<1> HIDE DEF Environment, ControlLoop, Worker, Dest, DestResume
<1>5. QED
  BY <1>1, <1>2, <1>3, <1>4, StepKinds
-----------------------------------------------------------------------------
(***************************************************************************)
(* The inductive invariant holds in every reachable state of a migration,  *)
(* for every memory, every set of disks and every number of attempts.      *)
(***************************************************************************)
THEOREM IndInvHolds == Spec => []IndInv
<1>1. Init => IndInv
  <2>1. ASSUME Init PROVE TypeOK
    <3>1. /\ cancel \in BOOLEAN /\ exit \in BOOLEAN /\ moved \in BOOLEAN
          /\ logging \in BOOLEAN /\ handled \in BOOLEAN /\ unlocked \in BOOLEAN
          /\ lateFail \in BOOLEAN /\ split \in BOOLEAN /\ lateEvent \in BOOLEAN
      BY <2>1 DEF Init
    <3>2. cfg \in [mode : Modes \cup {"Precopy"}, preserve : BOOLEAN]
      BY <2>1 DEF Init
    <3>3. QED
      BY <2>1, <3>1, <3>2 DEF Init, TypeOK
  <2>2. Init => WorkerOfMigration /\ RequestOfWorker /\ Committed /\ AnswerIsTrue /\ NotLost
    BY DEF Init, WorkerOfMigration, RequestOfWorker, Committed, AnswerIsTrue, NotLost
  <2>3. Init => PrecopyMemory /\ SharedMemory /\ FaultIsServed
    BY DEF Init, PrecopyMemory, SharedMemory, FaultIsServed
  <2>4. Init => SourceLocks /\ DestLocks /\ OneEvent
    BY DEF Init, SourceLocks, DestLocks, OneEvent
  <2>5. QED
    BY <2>1, <2>2, <2>3, <2>4 DEF IndInv
<1>2. IndInv /\ [Next]_vars => IndInv'
  <2>1. ASSUME IndInv, Next PROVE IndInv'
    BY <2>1, TypeStep, WorkerStep, CommitStep, MemoryStep, LockStep, EventStep DEF IndInv
  <2>2. ASSUME IndInv, UNCHANGED vars PROVE IndInv'
    BY <2>2 DEF IndInv, vars, TypeOK, WorkerOfMigration, RequestOfWorker, Committed,
                AnswerIsTrue, NotLost, PrecopyMemory, SharedMemory, FaultIsServed,
                SourceLocks, DestLocks, OneEvent
  <2>3. QED
    BY <2>1, <2>2
<1>3. QED
  BY <1>1, <1>2, PTL DEF Spec

(***************************************************************************)
(* The variables of a migration keep their types, and the source has a VM  *)
(* exactly while it or its worker owns one.                                *)
(***************************************************************************)
THEOREM TypeCorrect == Spec => []TypeOK
<1>1. IndInv => TypeOK
  BY DEF IndInv
<1>2. QED
  BY <1>1, IndInvHolds, PTL

(***************************************************************************)
(* The guest runs at one end only, whatever is lost, cancelled or retried, *)
(* unless preserve_source asked for a copy or a migration other than a     *)
(* postcopy failed once Complete was sent: check_migration resumes the     *)
(* source only where Committed leaves it the VM.                           *)
(***************************************************************************)
THEOREM GuestRunsOnce == Spec => []AtMostOneRunning
<1>1. IndInv => AtMostOneRunning
  BY DEF IndInv, TypeOK, WorkerOfMigration, Committed, AtMostOneRunning
<1>2. QED
  BY <1>1, IndInvHolds, PTL

(***************************************************************************)
(* The source gives its VM up only for one that the destination took over, *)
(* for a guest that asked for it, or where postcopy makes recovery         *)
(* impossible.                                                             *)
(***************************************************************************)
THEOREM VmIsNotLost == Spec => []NotLost
<1>1. IndInv => NotLost
  BY DEF IndInv
<1>2. QED
  BY <1>1, IndInvHolds, PTL

(***************************************************************************)
(* A destination that completed the migration has all of the memory, or    *)
(* fetches the rest from a source that holds it and does not run.          *)
(***************************************************************************)
THEOREM DestinationMemoryIsComplete == Spec => []MemoryIsComplete
<1>1. IndInv => MemoryIsComplete
  BY DEF IndInv, TypeOK, WorkerOfMigration, FaultIsServed, MemoryIsComplete
<1>2. QED
  BY <1>1, IndInvHolds, PTL

(***************************************************************************)
(* Wherever the guest runs, that end holds the locks of all disks, but for *)
(* a source whose migration failed after it released them.                 *)
(***************************************************************************)
THEOREM GuestRunsWithItsLocks == Spec => []RunsWithItsLocks
<1>1. IndInv => RunsWithItsLocks
  BY DEF IndInv, TypeOK, WorkerOfMigration, RequestOfWorker, SourceLocks, DestLocks,
         RunsWithItsLocks
<1>2. QED
  BY <1>1, IndInvHolds, PTL
=============================================================================
