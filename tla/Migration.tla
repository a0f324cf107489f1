----------------------------- MODULE Migration -----------------------------
(***************************************************************************)
(* Live migration of a VM between two VMMs (vmm/src/lib.rs,                *)
(* vmm/src/migration/worker.rs): the control loop of the source, the       *)
(* migration worker that owns the VM meanwhile, the receive protocol of    *)
(* the destination, the connection between them, the advisory locks of the *)
(* disk images that both hosts share, the dirty log of the guest memory    *)
(* and the lifecycle event that a guest raises while it is migrated.       *)
(*                                                                         *)
(* Abstractions: a page is stale while the destination lacks its current   *)
(* content; convergence and the precopy timeout are choices; one memory    *)
(* connection; a guest raises at most one lifecycle event.                 *)
(***************************************************************************)
EXTENDS Naturals

CONSTANTS
    Pages,          \* pages of guest memory
    Disks,          \* disk images, reachable from both hosts
    Modes,          \* memory modes an operator may ask for
    MayPreserve,    \* preserve_source may be asked for
    MaxAttempts,    \* bound: migrations started
    MaxIterations   \* bound: precopy iterations of one migration

ASSUME ModesAssumption == Modes \subseteq {"Precopy", "Postcopy", "MemFDs"}
ASSUME BoundsAssumption == MaxAttempts \in Nat /\ MaxIterations \in Nat

VARIABLES
    owner,      \* Vmm.vm of the source; "Exited" once its control loop ended
    vm,         \* state of the source VM
    cfg,        \* memory_mode and preserve_source of the migration
    initial,    \* initial_vm_state
    cancel,     \* cancel_migration
    exit,       \* exit_evt of the source
    attempts,   \* migrations started
    evts,       \* reset_evt and guest_exit_evt of the source
    postponed,  \* postponed_lifecycle_event
    snap,       \* post_migration_lifecycle_event in the snapshot
    wpc,        \* migration worker: what it does, or the request it waits for
    moved,      \* vm_moved_to_destination
    result,     \* migration_result
    iter,       \* MemoryMigrationContext.iteration
    logging,    \* the dirty log is on
    dirty,      \* pages in the dirty log
    table,      \* pages taken from the log
    stale,      \* pages whose current content the destination lacks
    conn,       \* main connection
    req,        \* request on its way to the destination
    ack,        \* response on its way to the source
    fault,      \* page fault connection of a postcopy migration
    dstate,     \* ReceiveMigrationState, or where the destination is besides
    dvm,        \* state of the VM at the destination
    devent,     \* post_migration_lifecycle_event of the received VM
    devts,      \* reset_evt and guest_exit_evt of the destination
    lock,       \* holder of each disk image's lock
    raised,     \* history: the event the guest raised
    handled,    \* history: a VMM carried it out
    unlocked,   \* history: this migration released disk locks
    lateFail,   \* history: a migration failed after it released disk locks
    split,      \* history: the last one that connected was not postcopy, and failed
                \* after Complete was sent
    lateEvent   \* history: the last snapshot missed an event of the guest

sourceVars == <<owner, vm, cfg, initial, cancel, exit, attempts>>
snapVars == <<snap, lateEvent>>
eventVars == <<evts, postponed, snapVars, devent, devts, raised, handled>>
memoryVars == <<logging, dirty, table, stale>>
netVars == <<conn, req, ack, fault>>
destVars == <<dstate, dvm, devent, devts>>
workerVars == <<wpc, moved, result, iter, unlocked, lateFail, split>>
vars == <<sourceVars, eventVars, memoryVars, netVars, dstate, dvm, workerVars, lock>>

None == "none"
Events == {"reboot", "shutdown"}

Init ==
    /\ owner = "Owned" /\ vm = "Running" /\ initial = "Running"
    /\ cfg = [mode |-> "Precopy", preserve |-> FALSE]
    /\ cancel = FALSE /\ exit = FALSE /\ attempts = 0
    /\ evts = {} /\ postponed = None /\ snap = None
    /\ wpc = "idle" /\ moved = FALSE /\ result = None /\ iter = 0
    /\ logging = FALSE /\ dirty = {} /\ table = {} /\ stale = {}
    /\ conn = "none" /\ req = None /\ ack = None /\ fault = "none"
    /\ dstate = "Idle" /\ dvm = "none" /\ devent = None /\ devts = {}
    /\ lock = [d \in Disks |-> "src"]
    /\ raised = None /\ handled = FALSE /\ unlocked = FALSE /\ lateFail = FALSE
    /\ split = FALSE /\ lateEvent = FALSE

\* Locks after host h closed its images.
Dropped(h) == [d \in Disks |-> IF lock[d] = h THEN "none" ELSE lock[d]]

\* try_lock_disks by h finds no image locked by anyone else.
Lockable(h) == \A d \in Disks : lock[d] \in {"none", h}
Locked(h) == [d \in Disks |-> h]
-----------------------------------------------------------------------------
(***************************************************************************)
(* Guest, another user of the disk images, and the network.                *)
(***************************************************************************)
GuestWrite(p) ==
    /\ owner = "Migration" /\ vm = "Running"
    /\ dirty' = IF logging THEN dirty \cup {p} ELSE dirty
    /\ stale' = IF cfg.mode = "MemFDs" \/ dstate = "Completed" \/ split THEN stale
                ELSE stale \cup {p}
    /\ UNCHANGED <<sourceVars, eventVars, logging, table, netVars, dstate, dvm,
                   workerVars, lock>>

\* A vCPU of the source asks for a reset or a shutdown and stops.
GuestRaises(e) ==
    /\ vm = "Running" /\ raised = None
    /\ raised' = e /\ evts' = evts \cup {e}
    /\ UNCHANGED <<sourceVars, postponed, snapVars, devent, devts, handled, memoryVars,
                   netVars, dstate, dvm, workerVars, lock>>

OtherLocks(d) ==
    /\ lock[d] = "none"
    /\ lock' = [lock EXCEPT ![d] = "other"]
    /\ UNCHANGED <<sourceVars, eventVars, memoryVars, netVars, dstate, dvm, workerVars>>

\* The main connection breaks; what was under way arrives or does not.
Break ==
    /\ conn = "up"
    /\ conn' = "down"
    /\ req' \in {req, None} /\ ack' \in {ack, None}
    /\ UNCHANGED <<sourceVars, eventVars, memoryVars, fault, dstate, dvm, workerVars, lock>>

BreakFault ==
    /\ fault = "up"
    /\ fault' = "down"
    /\ UNCHANGED <<sourceVars, eventVars, memoryVars, conn, req, ack, dstate, dvm,
                   workerVars, lock>>
-----------------------------------------------------------------------------
(***************************************************************************)
(* The control loop of the source: API calls.                              *)
(***************************************************************************)
VmPause ==
    /\ owner = "Owned" /\ vm = "Running"
    /\ vm' = "Paused"
    /\ UNCHANGED <<owner, cfg, initial, cancel, exit, attempts, eventVars, memoryVars,
                   netVars, dstate, dvm, workerVars, lock>>

VmResume ==
    /\ owner = "Owned" /\ vm = "Paused"
    /\ vm' = "Running"
    /\ UNCHANGED <<owner, cfg, initial, cancel, exit, attempts, eventVars, memoryVars,
                   netVars, dstate, dvm, workerVars, lock>>

\* The worker takes the VM.  A bound of the model: a preserved VM is not sent a
\* second time.
VmSendMigration(mode, preserve) ==
    /\ owner = "Owned" /\ vm \in {"Running", "Paused"} /\ ~exit
    /\ preserve => mode = "MemFDs"
    /\ attempts < MaxAttempts /\ result # "ok"
    /\ owner' = "Migration" /\ initial' = vm /\ cancel' = FALSE
    /\ cfg' = [mode |-> mode, preserve |-> preserve]
    /\ attempts' = attempts + 1
    /\ postponed' = None
    /\ wpc' = "connect" /\ moved' = FALSE /\ result' = None /\ iter' = 0
    /\ unlocked' = FALSE
    /\ UNCHANGED <<vm, exit, evts, snapVars, destVars, raised, handled, memoryVars, netVars,
                   lateFail, split, lock>>

VmCancelMigration ==
    /\ owner = "Migration" /\ ~cancel
    /\ cancel' = TRUE
    /\ UNCHANGED <<owner, vm, cfg, initial, exit, attempts, eventVars, memoryVars, netVars,
                   dstate, dvm, workerVars, lock>>
-----------------------------------------------------------------------------
(***************************************************************************)
(* The control loop of the source: events.                                 *)
(***************************************************************************)
\* Mutant: an event is dropped while the VM is migrated.
PostponeNothing(e) == postponed

\* postpone_lifecycle_event keeps the first event.
PostponeEvent(e) == IF postponed = None THEN e ELSE postponed

\* The VM belongs to the worker: the event is postponed.
HandleMigrating(e) ==
    /\ owner = "Migration" /\ e \in evts
    /\ evts' = evts \ {e}
    /\ postponed' = PostponeEvent(e)
    /\ UNCHANGED <<sourceVars, snapVars, destVars, raised, handled, memoryVars, netVars,
                   workerVars, lock>>

\* The fault connection when the process of the source ends.
FaultAtExit == IF fault = "up" THEN "down" ELSE fault

\* vm_reboot drops the VM with its disk locks, and boots a new one that locks
\* the disks, or ends the control loop with an error.
HandleReset ==
    /\ owner = "Owned" /\ "reboot" \in evts
    /\ evts' = evts \ {"reboot"}
    /\ handled' = TRUE
    /\ \/ /\ Lockable("src")
          /\ lock' = Locked("src")
          /\ vm' = "Running" /\ lateFail' = FALSE
          /\ UNCHANGED <<owner, fault>>
       \/ /\ ~Lockable("src")
          /\ lock' = Dropped("src")
          /\ vm' = "none" /\ owner' = "Exited" /\ fault' = FaultAtExit
          /\ UNCHANGED lateFail
    /\ UNCHANGED <<cfg, initial, cancel, exit, attempts, postponed, snapVars, destVars, raised,
                   memoryVars, conn, req, ack, wpc, moved, result, iter, unlocked, split>>

\* The VM is shut down, with the VMM or (no_shutdown) without it.
HandleGuestExit ==
    /\ owner = "Owned" /\ "shutdown" \in evts
    /\ evts' = evts \ {"shutdown"}
    /\ handled' = TRUE
    /\ lock' = Dropped("src")
    /\ vm' = "none"
    /\ \/ owner' = "None" /\ UNCHANGED fault
       \/ owner' = "Exited" /\ fault' = FaultAtExit
    /\ UNCHANGED <<cfg, initial, cancel, exit, attempts, postponed, snapVars, destVars, raised,
                   memoryVars, conn, req, ack, workerVars>>

\* There is no VM any more: vm_reboot fails, vmm_shutdown succeeds; the control
\* loop ends either way.
HandleWithoutVm(e) ==
    /\ owner = "None" /\ e \in evts
    /\ evts' = evts \ {e}
    /\ owner' = "Exited" /\ fault' = FaultAtExit
    /\ UNCHANGED <<vm, cfg, initial, cancel, exit, attempts, postponed, snapVars, destVars,
                   raised, handled, memoryVars, conn, req, ack, workerVars, lock>>

HandleExit ==
    /\ exit /\ owner \in {"Owned", "None"}
    /\ owner' = "Exited" /\ vm' = "none" /\ lock' = Dropped("src")
    /\ fault' = FaultAtExit
    /\ UNCHANGED <<cfg, initial, cancel, exit, attempts, eventVars, memoryVars, conn, req, ack,
                   dstate, dvm, workerVars>>
-----------------------------------------------------------------------------
(***************************************************************************)
(* check_migration, once the worker has ended.                             *)
(***************************************************************************)
WorkerEnded == owner = "Migration" /\ wpc = "done" /\ wpc' = "idle"

\* replay_postponed_lifecycle_event.
Replay ==
    /\ evts' = IF postponed = None THEN evts ELSE evts \cup {postponed}
    /\ postponed' = None

\* Success with preserve_source: the VM comes back, paused.
CheckPreserved ==
    /\ WorkerEnded /\ result = "ok" /\ cfg.preserve
    /\ owner' = "Owned"
    /\ Replay
    /\ UNCHANGED <<vm, cfg, initial, cancel, exit, attempts, snapVars, destVars, raised, handled,
                   memoryVars, netVars, moved, result, iter, unlocked, lateFail, split, lock>>

\* The VM is shut down and dropped.
TearDown ==
    /\ owner' = "None" /\ vm' = "none" /\ postponed' = None
    /\ lock' = Dropped("src")
    /\ UNCHANGED <<cfg, initial, cancel, attempts, evts, snapVars, destVars, raised, handled,
                   memoryVars, netVars, moved, result, iter, unlocked, lateFail, split>>

\* Success: the VMM exits unless keep_alive.
CheckMoved ==
    /\ WorkerEnded /\ result = "ok" /\ ~cfg.preserve
    /\ exit' \in BOOLEAN
    /\ TearDown

\* Mutant: the flag does not count.
NeverMoved == FALSE

\* Mutant: the flag counts in every mode.
MovedInAnyMode == result = "failed" /\ moved

\* Postcopy failed after the VM moved: recovery is impossible.
MovedForGood == result = "failed" /\ cfg.mode = "Postcopy" /\ moved

CheckPostcopyFailed ==
    /\ WorkerEnded /\ MovedForGood
    /\ TearDown /\ UNCHANGED exit

\* Cancelled or failed: a VM that ran is resumed (or the VMM exits), and the
\* postponed event is replayed.
CheckFailed ==
    /\ WorkerEnded /\ result \in {"cancelled", "failed"} /\ ~MovedForGood
    /\ owner' = "Owned"
    /\ IF initial = "Running" /\ vm = "Paused"
       THEN \/ vm' = "Running" /\ UNCHANGED exit
            \/ exit' = TRUE /\ UNCHANGED vm
       ELSE UNCHANGED <<vm, exit>>
    /\ logging' = FALSE
    /\ Replay
    /\ UNCHANGED <<cfg, initial, cancel, attempts, snapVars, destVars, raised, handled, dirty,
                   table, stale, netVars, moved, result, iter, unlocked, lateFail, split, lock>>

CheckMigration == CheckPreserved \/ CheckMoved \/ CheckPostcopyFailed \/ CheckFailed

ControlLoop ==
    \/ \E e \in Events : HandleMigrating(e) \/ HandleWithoutVm(e)
    \/ HandleReset \/ HandleGuestExit \/ HandleExit \/ CheckMigration
-----------------------------------------------------------------------------
(***************************************************************************)
(* The migration worker: send_migration.                                   *)
(***************************************************************************)
notWorker == <<owner, cfg, initial, cancel, exit, attempts, evts, postponed, destVars,
               raised, handled>>

\* send_migration returns: its socket is closed.
Finish(r) ==
    /\ wpc' = "done" /\ result' = r
    /\ conn' = (IF conn = "up" THEN "down" ELSE conn) /\ ack' = None
    /\ dirty' = {} /\ table' = {}
    /\ lateFail' = (lateFail \/ (r = "failed" /\ unlocked))
    /\ split' = (split \/ (r = "failed" /\ moved /\ cfg.mode # "Postcopy"))
    /\ UNCHANGED <<moved, iter, req, fault, stale, unlocked>>

FinishOnly(r) == Finish(r) /\ UNCHANGED <<notWorker, vm, snapVars, logging, lock>>

\* A request that is written to a broken connection is lost.
Request(c) == req' = IF conn = "up" THEN c ELSE req

\* The worker goes on; the variables it leaves alone.
Goto(pc) == wpc' = pc /\ UNCHANGED <<moved, result, unlocked, lateFail, split>>

\* The peer answered request w.
Acked(w) == wpc = w /\ ack = "ok" /\ ack' = None

Connect ==
    /\ wpc = "connect" /\ dstate = "Listening"
    /\ conn' = "up" /\ req' = "Start" /\ ack' = None /\ fault' = "none"
    /\ wpc' = "Start" /\ split' = FALSE
    /\ UNCHANGED <<notWorker, vm, snapVars, memoryVars, moved, result, iter, unlocked,
                   lateFail, lock>>

ConnectFails == wpc = "connect" /\ FinishOnly("failed")

\* Mutant: the worker waits for an answer over a broken connection.
AnswerIsError ==
    /\ wpc \in {"Start", "MemoryFd", "Config", "Memory", "FinalMemory", "SnapMemory",
                "State", "Complete"}
    /\ ack = "error"
    /\ FinishOnly("failed")

\* The peer answered with an error, or the connection is gone.
AnswerFails ==
    /\ wpc \in {"Start", "MemoryFd", "Config", "Memory", "FinalMemory", "SnapMemory",
                "State", "Complete"}
    /\ ack = "error" \/ (conn = "down" /\ ack = None)
    /\ FinishOnly("failed")

\* Memory files first where they are shared, then the configuration.
SendConfig ==
    /\ \/ /\ Acked("Start") /\ cfg.mode = "MemFDs"
          /\ Request("MemoryFd") /\ Goto("MemoryFd")
       \/ /\ Acked("Start") /\ cfg.mode # "MemFDs"
          /\ Request("Config") /\ Goto("Config")
       \/ /\ Acked("MemoryFd")
          /\ Request("Config") /\ Goto("Config")
    /\ UNCHANGED <<notWorker, vm, snapVars, memoryVars, conn, fault, iter, lock>>

\* notify_started_migration may fail.
NotifyFails == wpc = "Config" /\ ack = "ok" /\ ~cfg.preserve /\ FinishOnly("failed")

\* Precopy starts with the dirty log and all of memory; the other modes pause.
StartMemory ==
    /\ Acked("Config")
    /\ IF cfg.mode = "Precopy"
       THEN logging' = TRUE /\ dirty' = {} /\ table' = Pages /\ Goto("iterate")
       ELSE Goto("pause") /\ UNCHANGED <<logging, dirty, table>>
    /\ UNCHANGED <<notWorker, vm, snapVars, stale, conn, req, fault, iter, lock>>

\* is_precopy_converged: nothing to send, the downtime fits, or a timeout that
\* is ignored.  The table was taken from the log and is not sent yet.
Converged ==
    /\ wpc = "iterate"
    /\ Goto("pause")
    /\ UNCHANGED <<notWorker, vm, snapVars, memoryVars, netVars, iter, lock>>

\* The timeout with TimeoutStrategy::Cancel is an error.
ConvergeTimeout == wpc = "iterate" /\ table # {} /\ FinishOnly("failed")

\* send_memory of one iteration looks at the cancellation first.
SendMemory ==
    /\ wpc = "iterate" /\ table # {} /\ iter < MaxIterations
    /\ IF cancel THEN Finish("cancelled")
       ELSE /\ Request("Memory") /\ Goto("Memory")
            /\ stale' = stale \ table
            /\ UNCHANGED <<dirty, table, conn, ack, fault, iter>>
    /\ UNCHANGED <<notWorker, vm, snapVars, logging, lock>>

\* The end of an iteration: a postponed event ends the loop early.
NextIteration ==
    /\ Acked("Memory")
    /\ iter' = iter + 1
    /\ IF postponed # None
       THEN table' = {} /\ Goto("pause") /\ UNCHANGED dirty
       ELSE table' = dirty /\ dirty' = {} /\ Goto("iterate")
    /\ UNCHANGED <<notWorker, vm, snapVars, logging, stale, conn, req, fault, lock>>

PauseVm ==
    /\ wpc = "pause"
    /\ vm' = "Paused"
    /\ Goto(IF cfg.mode = "Precopy" THEN "final" ELSE "check")
    /\ UNCHANGED <<notWorker, snapVars, memoryVars, netVars, iter, lock>>

PauseFails == wpc = "pause" /\ vm = "Running" /\ FinishOnly("failed")

\* Mutant: the table of the last iteration is not merged.
LogOnly == dirty

\* remaining.merge(final_dirty_log).
FinalTable == table \cup dirty

SendFinal ==
    /\ wpc = "final"
    /\ \/ FinalTable = {} /\ Goto("check")
          /\ UNCHANGED <<dirty, table, stale, netVars, iter>>
       \/ FinalTable # {} /\ cancel /\ Finish("cancelled")
       \/ /\ FinalTable # {} /\ ~cancel
          /\ Request("Memory") /\ Goto("FinalMemory")
          /\ stale' = stale \ FinalTable
          /\ dirty' = {} /\ table' = {}
          /\ UNCHANGED <<conn, ack, fault, iter>>
    /\ UNCHANGED <<notWorker, vm, snapVars, logging, lock>>

FinalSent ==
    /\ Acked("FinalMemory")
    /\ Goto("check")
    /\ UNCHANGED <<notWorker, vm, snapVars, memoryVars, conn, req, fault, iter, lock>>

\* "Final cancellation check before releasing disk locks".
CheckCancel ==
    /\ wpc = "check"
    /\ IF cancel THEN Finish("cancelled")
       ELSE Goto("release") /\ UNCHANGED <<dirty, table, stale, netVars, iter>>
    /\ UNCHANGED <<notWorker, vm, snapVars, logging, lock>>

\* release_disk_locks, unless the source must be preserved.
ReleasedLocks == IF cfg.preserve THEN lock ELSE Dropped("src")

ReleaseLocks ==
    /\ wpc = "release"
    /\ lock' = ReleasedLocks
    /\ wpc' = IF cfg.mode = "Postcopy" THEN "fault" ELSE "snapshot"
    /\ unlocked' = ~cfg.preserve
    /\ UNCHANGED <<notWorker, vm, snapVars, memoryVars, netVars, moved, result, iter,
                   lateFail, split>>

\* Some images are unlocked, the next one fails.
ReleaseFails ==
    /\ wpc = "release" /\ ~cfg.preserve
    /\ \E S \in SUBSET Disks :
         /\ S # Disks
         /\ lock' = [d \in Disks |-> IF d \in S THEN Dropped("src")[d] ELSE lock[d]]
    /\ wpc' = "done" /\ result' = "failed" /\ unlocked' = TRUE /\ lateFail' = TRUE
    /\ conn' = (IF conn = "up" THEN "down" ELSE conn) /\ ack' = None
    /\ UNCHANGED <<notWorker, vm, snapVars, memoryVars, req, fault, moved, iter, split>>

OpenFault ==
    /\ wpc = "fault" /\ conn = "up"
    /\ fault' = "up"
    /\ Goto("snapshot")
    /\ UNCHANGED <<notWorker, vm, snapVars, memoryVars, conn, req, ack, iter, lock>>

OpenFaultFails == wpc = "fault" /\ FinishOnly("failed")

\* The snapshot carries the postponed event; devices that drain write memory.
TakeSnapshot ==
    /\ wpc = "snapshot"
    /\ snap' = postponed /\ lateEvent' = (evts # {})
    /\ IF cfg.mode = "Precopy"
       THEN /\ \E S \in SUBSET Pages :
                 /\ dirty' = (IF logging THEN dirty \cup S ELSE dirty)
                 /\ stale' = stale \cup S
            /\ Goto("snapMemory")
       ELSE Goto("state") /\ UNCHANGED <<dirty, stale>>
    /\ UNCHANGED <<notWorker, vm, logging, table, netVars, iter, lock>>

SnapshotFails == wpc = "snapshot" /\ FinishOnly("failed")

\* "One final memory iteration to handle side effects from snapshot", which
\* cannot be cancelled.
SendSnapMemory ==
    /\ wpc = "snapMemory"
    /\ dirty' = {} /\ stale' = stale \ dirty
    /\ IF dirty = {} THEN Goto("state") /\ UNCHANGED req
       ELSE Request("Memory") /\ Goto("SnapMemory")
    /\ UNCHANGED <<notWorker, vm, snapVars, logging, table, conn, ack, fault, iter, lock>>

SendState ==
    /\ \/ wpc = "state" /\ UNCHANGED ack
       \/ Acked("SnapMemory")
    /\ Request("State") /\ Goto("State")
    /\ UNCHANGED <<notWorker, vm, snapVars, memoryVars, conn, fault, iter, lock>>

\* The VM counts as moved before Complete is sent.
SendComplete ==
    /\ Acked("State")
    /\ moved' = TRUE
    /\ Request(IF initial = "Running" THEN "Complete" ELSE "CompletePaused")
    /\ wpc' = "Complete"
    /\ UNCHANGED <<notWorker, vm, snapVars, memoryVars, conn, fault, result, iter, unlocked,
                   lateFail, split, lock>>

\* stop_dirty_log; a postcopy migration goes on until its pages are fetched.
Completed ==
    /\ Acked("Complete")
    /\ logging' = FALSE
    /\ wpc' = IF cfg.mode = "Postcopy" THEN "drain" ELSE "notify"
    /\ UNCHANGED <<notWorker, vm, snapVars, dirty, table, stale, conn, req, fault, moved, result,
                   iter, unlocked, lateFail, split, lock>>

\* The serve thread ends with the fault connection, and its error counts; an
\* error of stop_dirty_log or of notify_completed_migration.
FinishMigration ==
    \/ /\ wpc = "drain" /\ fault # "up"
       /\ FinishOnly(IF fault = "down" THEN "failed" ELSE "ok")
    \/ wpc = "notify" /\ FinishOnly("ok")
    \/ wpc = "notify" /\ ~cfg.preserve /\ FinishOnly("failed")

Worker ==
    \/ Connect \/ ConnectFails \/ AnswerFails \/ SendConfig \/ NotifyFails
    \/ StartMemory \/ Converged \/ ConvergeTimeout \/ SendMemory \/ NextIteration
    \/ PauseVm \/ PauseFails \/ SendFinal \/ FinalSent \/ CheckCancel
    \/ ReleaseLocks \/ ReleaseFails \/ OpenFault \/ OpenFaultFails
    \/ TakeSnapshot \/ SnapshotFails \/ SendSnapMemory \/ SendState
    \/ SendComplete \/ Completed \/ FinishMigration
-----------------------------------------------------------------------------
(***************************************************************************)
(* The destination: vm_receive_migration.                                  *)
(***************************************************************************)
notDest == <<sourceVars, evts, postponed, snapVars, raised, logging, dirty, table, workerVars>>

Listen ==
    /\ dstate = "Idle"
    /\ dstate' = "Listening"
    /\ UNCHANGED <<notDest, dvm, devent, devts, handled, stale, netVars, lock>>

\* Response::ok: over a broken connection it is lost, with or without an error.
Respond(to) ==
    /\ req' = None
    /\ ack' = IF conn = "up" THEN "ok" ELSE ack
    /\ \/ dstate' = to
       \/ conn # "up" /\ dstate' = "Failing"
    /\ UNCHANGED <<conn, fault>>

Receiving == {"Listening", "Started", "MemoryFdsReceived", "Configured", "StateReceived"}

ReceiveStart ==
    /\ dstate = "Listening" /\ req = "Start"
    /\ Respond("Started")
    /\ UNCHANGED <<notDest, dvm, devent, devts, handled, stale, lock>>

ReceiveMemoryFd ==
    /\ dstate \in {"Started", "MemoryFdsReceived"} /\ req = "MemoryFd"
    /\ Respond("MemoryFdsReceived")
    /\ UNCHANGED <<notDest, dvm, devent, devts, handled, stale, lock>>

\* The memory is created: shared with the source, or without content.
ReceiveConfig ==
    /\ dstate \in {"Started", "MemoryFdsReceived"} /\ req = "Config"
    /\ stale' = IF dstate = "MemoryFdsReceived" THEN {} ELSE Pages
    /\ Respond("Configured")
    /\ UNCHANGED <<notDest, dvm, devent, devts, handled, lock>>

ReceiveMemory ==
    /\ dstate = "Configured" /\ req = "Memory"
    /\ Respond("Configured")
    /\ UNCHANGED <<notDest, dvm, devent, devts, handled, stale, lock>>

\* Mutant: the VM is restored although a disk is locked by someone else.
LockedOrNot(h) == TRUE

\* restore acquires every lock before the vCPUs start.
CanRestore(h) == Lockable(h)

\* vm_receive_state: the VM is created from the snapshot, paused.
ReceiveState ==
    /\ dstate = "Configured" /\ req = "State" /\ CanRestore("dst")
    /\ cfg.mode = "Postcopy" => fault # "none"
    /\ lock' = [d \in Disks |-> IF lock[d] = "none" THEN "dst" ELSE lock[d]]
    /\ dvm' = "Paused" /\ devent' = snap
    /\ Respond("StateReceived")
    /\ UNCHANGED <<notDest, devts, handled, stale>>

\* replay_received_lifecycle_event.
ReplayedEvents == IF devent = None THEN devts ELSE devts \cup {devent}

\* The event is replayed instead of a resume.
ReceiveComplete ==
    /\ dstate = "StateReceived" /\ req \in {"Complete", "CompletePaused"}
    /\ devts' = ReplayedEvents /\ devent' = None
    /\ dvm' = IF req = "Complete" /\ devent = None THEN "Running" ELSE dvm
    /\ Respond("Completed")
    /\ UNCHANGED <<notDest, handled, stale, lock>>

\* A step fails (a disk is locked, too): Response::error.
ReceiveFails ==
    /\ dstate \in Receiving \ {"Listening"} /\ req # None
    /\ req' = None /\ ack' = (IF conn = "up" THEN "error" ELSE ack)
    /\ dstate' = "Failing"
    /\ UNCHANGED <<notDest, dvm, devent, devts, handled, stale, conn, fault, lock>>

\* The next request cannot be read.
ReadFails ==
    /\ dstate \in Receiving /\ conn = "down" /\ req = None
    /\ dstate' = "Failing"
    /\ UNCHANGED <<notDest, dvm, devent, devts, handled, stale, netVars, lock>>

\* A received VM is shut down and dropped with its locks and connections.
ReceiveFailed ==
    /\ dstate = "Failing"
    /\ dstate' = "Idle" /\ dvm' = "none" /\ devent' = None
    /\ lock' = Dropped("dst") /\ stale' = {}
    /\ conn' = (IF conn = "up" THEN "down" ELSE conn) /\ req' = None
    /\ fault' = IF fault = "none" THEN "none" ELSE "closed"
    /\ UNCHANGED <<notDest, devts, handled, ack>>

\* The uffd handler fetches a page from the source.
FetchPage(p) ==
    /\ dstate \in {"StateReceived", "Completed"} /\ fault = "up" /\ p \in stale
    /\ stale' = stale \ {p}
    /\ UNCHANGED <<notDest, destVars, handled, netVars, lock>>

\* All pages are there: the handler closes the connection.
AllFetched ==
    /\ dstate = "Completed" /\ fault = "up" /\ stale = {}
    /\ fault' = "closed"
    /\ UNCHANGED <<notDest, destVars, handled, stale, conn, req, ack, lock>>

\* A page cannot be fetched any more: exit_evt ends the VMM.
FetchFails ==
    /\ dstate = "Completed" /\ fault = "down" /\ stale # {}
    /\ dstate' = "Exited" /\ dvm' = "none" /\ lock' = Dropped("dst")
    /\ UNCHANGED <<notDest, devent, devts, handled, stale, netVars>>

\* The control loop of the destination, after the protocol: the received VM is
\* dropped with its uffd handler, and booted anew or not.
DestHandleEvent(e) ==
    /\ dstate = "Completed" /\ e \in devts
    /\ devts' = devts \ {e}
    /\ handled' = TRUE
    /\ IF e = "reboot" THEN dvm' = "Running" /\ UNCHANGED lock
       ELSE dvm' = "none" /\ lock' = Dropped("dst")
    /\ stale' = {} /\ fault' = (IF fault = "none" THEN "none" ELSE "closed")
    /\ UNCHANGED <<notDest, dstate, devent, conn, req, ack>>

DestResume ==
    /\ dstate = "Completed" /\ dvm = "Paused"
    /\ dvm' = "Running"
    /\ UNCHANGED <<notDest, dstate, devent, devts, handled, stale, netVars, lock>>

Dest ==
    \/ Listen \/ ReceiveStart \/ ReceiveMemoryFd \/ ReceiveConfig \/ ReceiveMemory
    \/ ReceiveState \/ ReceiveComplete \/ ReceiveFails \/ ReadFails \/ ReceiveFailed
    \/ AllFetched \/ FetchFails
    \/ \E p \in Pages : FetchPage(p)
    \/ \E e \in Events : DestHandleEvent(e)
-----------------------------------------------------------------------------
Next ==
    \/ \E p \in Pages : GuestWrite(p)
    \/ \E e \in Events : GuestRaises(e)
    \/ \E d \in Disks : OtherLocks(d)
    \/ Break \/ BreakFault
    \/ VmPause \/ VmResume \/ VmCancelMigration
    \/ \E m \in Modes, p \in (IF MayPreserve THEN BOOLEAN ELSE {FALSE}) :
         VmSendMigration(m, p)
    \/ ControlLoop \/ Worker \/ Dest \/ DestResume

\* Every thread is scheduled; pages are fetched in the background.
Fairness == WF_vars(ControlLoop) /\ WF_vars(Worker) /\ WF_vars(Dest)

Spec == Init /\ [][Next]_vars

FairSpec == Spec /\ Fairness
-----------------------------------------------------------------------------
(***************************************************************************)
(* Types, and the source has a VM exactly while it or its worker owns one. *)
(***************************************************************************)
TypeOK ==
    /\ owner \in {"Owned", "Migration", "None", "Exited"}
    /\ vm \in {"Running", "Paused", "none"} /\ initial \in {"Running", "Paused"}
    /\ vm = "none" <=> owner \in {"None", "Exited"}
    /\ cfg \in [mode : Modes \cup {"Precopy"}, preserve : BOOLEAN]
    /\ attempts \in 0 .. MaxAttempts /\ iter \in 0 .. MaxIterations
    /\ evts \in SUBSET Events /\ devts \in SUBSET Events
    /\ postponed \in Events \cup {None} /\ snap \in Events \cup {None}
    /\ devent \in Events \cup {None} /\ raised \in Events \cup {None}
    /\ wpc \in {"idle", "connect", "Start", "MemoryFd", "Config", "iterate", "Memory",
                "pause", "final", "FinalMemory", "check", "release", "fault", "snapshot",
                "snapMemory", "SnapMemory", "state", "State", "Complete", "drain",
                "notify", "done"}
    /\ result \in {None, "ok", "cancelled", "failed"}
    /\ dirty \in SUBSET Pages /\ table \in SUBSET Pages /\ stale \in SUBSET Pages
    /\ conn \in {"none", "up", "down"} /\ fault \in {"none", "up", "down", "closed"}
    /\ req \in {None, "Start", "MemoryFd", "Config", "Memory", "State", "Complete",
                "CompletePaused"}
    /\ ack \in {None, "ok", "error"}
    /\ dstate \in Receiving \cup {"Idle", "Completed", "Failing", "Exited"}
    /\ dvm \in {"Running", "Paused", "none"}
    /\ lock \in [Disks -> {"src", "dst", "other", "none"}]
    /\ cancel \in BOOLEAN /\ exit \in BOOLEAN /\ moved \in BOOLEAN
    /\ logging \in BOOLEAN /\ handled \in BOOLEAN /\ unlocked \in BOOLEAN
    /\ lateFail \in BOOLEAN /\ split \in BOOLEAN /\ lateEvent \in BOOLEAN

(***************************************************************************)
(* The guest runs at one end only, whatever is lost, cancelled or retried, *)
(* unless the operator asked for a copy with preserve_source or a          *)
(* migration that is not postcopy failed once Complete was sent.           *)
(***************************************************************************)
AtMostOneRunning ==
    (vm = "Running" /\ dvm = "Running") => (cfg.preserve \/ split)

(***************************************************************************)
(* The source gives its VM up only for one that the destination took over, *)
(* for a guest that asked for it, or where postcopy makes recovery         *)
(* impossible.                                                             *)
(***************************************************************************)
NotLost ==
    owner = "None" =>
        \/ dstate \in {"Completed", "Exited"}
        \/ handled
        \/ cfg.mode = "Postcopy" /\ moved

(***************************************************************************)
(* A VM at the destination runs on the memory of the source: no page       *)
(* written during the iterations, after convergence, or by the devices     *)
(* while they are saved is missed, and a page that postcopy has yet to     *)
(* fetch is still held by a source whose guest does not run.               *)
(***************************************************************************)
MemoryIsComplete ==
    dstate = "Completed" =>
        \/ stale = {}
        \/ /\ cfg.mode = "Postcopy"
           /\ fault = "down" \/ (vm # "Running" /\ owner # "Exited")

(***************************************************************************)
(* "A new VMM [...] should then acquire all locks before the VM starts to  *)
(* run": wherever the guest runs, that end holds the locks of all disks.   *)
(* A cancelled source has not given them away and preserve_source keeps    *)
(* them; excepted is a source whose migration failed after the release.    *)
(***************************************************************************)
RunsWithItsLocks ==
    /\ (vm = "Running" /\ ~lateFail) => \A d \in Disks : lock[d] = "src"
    /\ dvm = "Running" => \A d \in Disks : lock[d] = "dst"

\* The guest is gone for another reason than its event.
Gone ==
    \/ owner = "Exited" /\ (dstate # "Completed" \/ split)
    \/ dstate = "Exited"
    \/ owner = "None" /\ cfg.mode = "Postcopy" /\ result = "failed"

\* The guest was given away with a snapshot that missed its event.
LeftBehind == lateEvent /\ owner \in {"None", "Exited"}

(***************************************************************************)
(* A migration ends: succeeded, cancelled or failed, the control loop      *)
(* learns of it.                                                           *)
(***************************************************************************)
MigrationEnds == (owner = "Migration") ~> (owner # "Migration")

(***************************************************************************)
(* A lifecycle event that the guest raised is carried out in the end, at   *)
(* whichever end the guest is then, unless the control loop took it only   *)
(* after the snapshot of a migration that succeeded.                       *)
(***************************************************************************)
EventIsHandled == (raised # None) ~> (handled \/ Gone \/ LeftBehind)
=============================================================================
