----------------------------- MODULE DiskMirror -----------------------------
(***************************************************************************)
(* Live disk mirroring of a virtio block device: the phases, the mirroring *)
(* backend and the copy worker of block/src/mirror.rs, and the queue       *)
(* workers, the command protocol and the start, complete, cancel, reset    *)
(* and drop operations of virtio-devices/src/block.rs.                     *)
(*                                                                         *)
(* Four kinds of thread run concurrently:                                  *)
(*  - the guest, which posts writes on virtqueues and resets the device;   *)
(*  - one worker per virtqueue, an epoll loop that submits and completes   *)
(*    requests and applies staged commands;                                *)
(*  - the copy worker of the active mirror;                                *)
(*  - the API thread, which holds the device's mutex during a call, so     *)
(*    calls, resets and activations exclude each other.                    *)
(*                                                                         *)
(* A write is named by its request number, which is also the data it       *)
(* writes, and covers one block; a block stands for a lockable range (the  *)
(* range lock itself is module RangeLock).  write_zeroes and punch_hole    *)
(* are writes.  Reads leave no trace in the model: what a read would       *)
(* return is the content of the queue's disk (ReadDisk).                   *)
(***************************************************************************)
EXTENDS Naturals, Sequences, FiniteSets

CONSTANTS NQueues,    \* virtqueues of the device
          NBlocks,    \* blocks of the disk
          NReqs,      \* bound: writes the guest posts
          MaxMirrors, \* bound: mirrors started
          MaxCalls,   \* bound: complete and cancel calls that find a mirror
          MaxFaults,  \* bound: faults that happen
          Faults      \* the kinds of fault that may happen

FaultKinds == {"source", "destination", "copy", "spawn", "backend", "timeout",
               "install", "cancel", "complete"}

ASSUME ConstantsAssumption ==
    /\ NQueues \in Nat \ {0} /\ NBlocks \in Nat \ {0} /\ NReqs \in Nat
    /\ MaxMirrors \in Nat \ {0} /\ MaxCalls \in Nat /\ MaxFaults \in Nat
    /\ Faults \subseteq FaultKinds

Queues == 1 .. NQueues
Blocks == 1 .. NBlocks
Reqs == 1 .. NReqs
Mirrors == 1 .. MaxMirrors
CopyParty == NQueues + 1      \* the copy worker as a holder of block locks
Free == 0                     \* a block nobody has locked
Junk == NReqs + 1             \* what a new destination holds
Data == 0 .. Junk             \* 0: what the source held at the start
Phases == {"none", "Running", "Ready", "Completing", "Completed",
           "Cancelling", "Failed"}

VARIABLES
    \* The two disks of a mirror.
    src,      \* content of the source
    dst,      \* dst[g]: content of the destination of the g-th mirror
    \* MirrorState, one per mirror started.
    phase,    \* phase[g]
    lock,     \* lock[g][b]: who holds the range lock of block b
    \* Block, the API thread's side.
    api,      \* where the API thread is
    handle,   \* mirror_handle: the active mirror, or 0
    started,  \* mirrors started so far
    disk,     \* disk_image: 0 for the source, g for a destination
    active,   \* the device is activated: it has queue workers
    acks,     \* queues that acknowledged the staged command
    ackErr,   \* the staging or an acknowledgement reported an error
    \* BlockEpollHandler, one per queue.
    kick,     \* queue_evt is signalled
    avail,    \* requests in the available ring
    backend,  \* the worker's disk_image
    inflight, \* inflight_requests
    result,   \* result[r]: the completion of request r
    compEvt,  \* the backend's notifier is signalled
    slot,     \* the command slot shared with the API thread
    cmdEvt,   \* the command eventfd is signalled
    pending,  \* pending_block_queue_command
    stopped,  \* submissions_stopped
    job,      \* what the worker is doing
    \* CopyWorker.
    copy,     \* its mirror, program counter, block and buffer
    \* The environment and the history.
    posted,   \* writes posted so far
    target,   \* target[r]: the block request r writes
    calls,    \* complete and cancel calls so far
    faults,   \* faults so far
    crash,    \* "no", or why the VMM went down
    finished, \* requests whose outcome the guest knows
    over,     \* over[r]: data that request r overwrites when it succeeds
    legal     \* legal[b]: data that a read of block b may return

diskVars == <<src, dst>>
stateVars == <<phase, lock>>
blockVars == <<handle, started, disk, active>>
ackVars == <<acks, ackErr>>
ringVars == <<kick, avail>>
requestVars == <<inflight, result, compEvt>>
commandVars == <<slot, cmdEvt, pending>>
guestVars == <<posted, target>>
historyVars == <<finished, over, legal>>
vars == <<diskVars, stateVars, api, blockVars, ackVars, ringVars, backend,
          requestVars, commandVars, stopped, job, copy, guestVars, calls,
          faults, crash, historyVars>>

NoCommand == [kind |-> "none", mirror |-> 0, live |-> FALSE]
SourceBackend == [kind |-> "source", mirror |-> 0, bypass |-> FALSE]
MirrorBackend(g) == [kind |-> "mirror", mirror |-> g, bypass |-> FALSE]
DestinationBackend(g) == [kind |-> "destination", mirror |-> g, bypass |-> FALSE]
PlainBackend(d) == IF d = 0 THEN SourceBackend ELSE DestinationBackend(d)
IdleJob == [pc |-> "idle", req |-> 0, sio |-> "none", dio |-> "none"]
NoCopy == [mirror |-> 0, pc |-> "none", block |-> 1, buffer |-> 0]

Init ==
    /\ src = [b \in Blocks |-> 0]
    /\ dst = [g \in Mirrors |-> [b \in Blocks |-> Junk]]
    /\ phase = [g \in Mirrors |-> "none"]
    /\ lock = [g \in Mirrors |-> [b \in Blocks |-> Free]]
    /\ api = "idle" /\ handle = 0 /\ started = 0 /\ disk = 0 /\ active = TRUE
    /\ acks = {} /\ ackErr = FALSE
    /\ kick = [q \in Queues |-> FALSE]
    /\ avail = [q \in Queues |-> <<>>]
    /\ backend = [q \in Queues |-> SourceBackend]
    /\ inflight = [q \in Queues |-> {}]
    /\ result = [r \in Reqs |-> "none"]
    /\ compEvt = [q \in Queues |-> FALSE]
    /\ slot = [q \in Queues |-> NoCommand]
    /\ cmdEvt = [q \in Queues |-> FALSE]
    /\ pending = [q \in Queues |-> NoCommand]
    /\ stopped = [q \in Queues |-> FALSE]
    /\ job = [q \in Queues |-> IdleJob]
    /\ copy = NoCopy
    /\ posted = 0 /\ target = [r \in Reqs |-> 1]
    /\ calls = 0 /\ faults = 0 /\ crash = "no"
    /\ finished = {} /\ over = [r \in Reqs |-> {}]
    /\ legal = [b \in Blocks |-> {0}]

\* The VMM is up and a thread is at this place of its code.
At(q, pc) == crash = "no" /\ job[q].pc = pc
CopyAt(pc) == crash = "no" /\ copy.pc = pc
ApiAt(pc) == crash = "no" /\ api = pc

\* A fault of this kind happens now.
Fault(kind) ==
    /\ kind \in Faults /\ faults < MaxFaults
    /\ faults' = faults + 1

-----------------------------------------------------------------------------
(***************************************************************************)
(* MirrorState: the phase machine.                                         *)
(***************************************************************************)
\* try_transition_to_phase accepts the step.
Allowed(from, to) ==
    \/ from = to
    \/ from = "Running" /\ to \in {"Ready", "Cancelling", "Failed"}
    \/ from = "Ready" /\ to \in {"Completing", "Cancelling", "Failed"}
    \/ from = "Completing" /\ to = "Completed"
    \/ from = "Failed" /\ to = "Cancelling"

\* transition_to_phase: a step that is not allowed panics, and a panic of a
\* worker or of the API thread takes the VMM down.
TransitionToPhase(g, to) ==
    IF Allowed(phase[g], to)
    THEN phase' = [phase EXCEPT ![g] = to] /\ UNCHANGED crash
    ELSE crash' = "transition" /\ UNCHANGED phase

\* finish_copy: the copy worker's result counts only while Running.
FinishCopy(g, to) ==
    phase' = [phase EXCEPT ![g] = IF Allowed(@, to) THEN to ELSE @]

-----------------------------------------------------------------------------
(***************************************************************************)
(* Queue workers: BlockEpollHandler and its MirroringAsyncIo backend.      *)
(***************************************************************************)
Mirroring(q) == backend[q].kind = "mirror" /\ ~backend[q].bypass

\* The content that a read through backend be returns.
ReadDisk(be) == IF be.kind = "destination" THEN dst[be.mirror] ELSE src

\* RangeGuard::drop.
Unlocked(g, b) == [lock EXCEPT ![g][b] = Free]

\* The guest posts a write to block b and kicks the queue.
GuestWrite(q, b) ==
    /\ crash = "no" /\ active /\ posted < NReqs
    /\ posted' = posted + 1
    /\ target' = [target EXCEPT ![posted'] = b]
    /\ avail' = [avail EXCEPT ![q] = Append(@, posted')]
    /\ kick' = [kick EXCEPT ![q] = TRUE]
    /\ UNCHANGED <<diskVars, stateVars, api, blockVars, ackVars, backend,
                   requestVars, commandVars, stopped, job, copy, calls, faults,
                   crash, historyVars>>

\* Mutant: a stalled queue accepts requests.
DeferredByCommand(q) == pending[q] # NoCommand

\* process_queue_submit returns at once while a command is pending or the
\* queue is stalled; the kick is consumed all the same.
Deferred(q) == stopped[q] \/ pending[q] # NoCommand

SubmitOrDefer(q) == IF Deferred(q) THEN "idle" ELSE "submit"

\* QUEUE_AVAIL_EVENT.
QueueAvail(q) ==
    /\ At(q, "idle") /\ kick[q]
    /\ kick' = [kick EXCEPT ![q] = FALSE]
    /\ job' = [job EXCEPT ![q].pc = SubmitOrDefer(q)]
    /\ UNCHANGED <<diskVars, stateVars, api, blockVars, ackVars, avail, backend,
                   requestVars, commandVars, stopped, copy, guestVars, calls,
                   faults, crash, historyVars>>

\* One turn of the loop of process_queue_submit: the next request goes to the
\* backend.  A mirrored write first locks its range; any other write is
\* submitted and completes later.
Submit(q) ==
    /\ At(q, "submit")
    /\ IF avail[q] = <<>>
       THEN /\ job' = [job EXCEPT ![q] = IdleJob]
            /\ UNCHANGED <<avail, inflight, result, over, legal>>
       ELSE LET r == Head(avail[q])
                b == target[r]
            IN  /\ avail' = [avail EXCEPT ![q] = Tail(@)]
                /\ over' = [over EXCEPT ![r] = legal[b] \cap (finished \cup {0})]
                /\ legal' = [legal EXCEPT ![b] = @ \cup {r}]
                /\ IF Mirroring(q)
                   THEN /\ job' = [job EXCEPT ![q].pc = "lock", ![q].req = r]
                        /\ UNCHANGED <<inflight, result>>
                   ELSE /\ inflight' = [inflight EXCEPT ![q] = @ \cup {r}]
                        /\ result' = [result EXCEPT ![r] = "pending"]
                        /\ UNCHANGED job
    /\ UNCHANGED <<diskVars, stateVars, api, blockVars, ackVars, kick, backend,
                   compEvt, commandVars, stopped, copy, guestVars, calls, faults,
                   crash, finished>>

\* lock_range returns, and the write is submitted to both disks.
LockRange(q) ==
    LET g == backend[q].mirror
        b == target[job[q].req]
    IN  /\ At(q, "lock") /\ lock[g][b] = Free
        /\ lock' = [lock EXCEPT ![g][b] = q]
        /\ job' = [job EXCEPT ![q].pc = "io", ![q].sio = "pending", ![q].dio = "pending"]
        /\ UNCHANGED <<diskVars, phase, api, blockVars, ackVars, ringVars, backend,
                       requestVars, commandVars, stopped, copy, guestVars, calls,
                       faults, crash, historyVars>>

\* The source refuses the submission: the guest gets the error, the guard is
\* dropped, the destination is left alone and the mirror goes on.
SourceSubmitFails(q) ==
    LET b == target[job[q].req]
    IN  /\ At(q, "lock") /\ lock[backend[q].mirror][b] = Free
        /\ Fault("source")
        /\ finished' = finished \cup {job[q].req}
        /\ legal' = [legal EXCEPT ![b] = @ \ {job[q].req}]
        /\ job' = [job EXCEPT ![q] = [IdleJob EXCEPT !.pc = "submit"]]
        /\ UNCHANGED <<diskVars, stateVars, api, blockVars, ackVars, ringVars,
                       backend, requestVars, commandVars, stopped, copy, guestVars,
                       calls, crash, over>>

\* MirroringAsyncIo::fail: the phase first, then this queue's passthrough.
Fail(q) ==
    /\ TransitionToPhase(backend[q].mirror, "Failed")
    /\ backend' = [backend EXCEPT ![q].bypass = TRUE]

\* The destination refuses the submission.
DestinationSubmitFails(q) ==
    /\ At(q, "io") /\ job[q].sio = "pending" /\ job[q].dio = "pending"
    /\ Fault("destination")
    /\ Fail(q)
    /\ job' = [job EXCEPT ![q].dio = "skipped"]
    /\ UNCHANGED <<diskVars, lock, api, blockVars, ackVars, ringVars, requestVars,
                   commandVars, stopped, copy, guestVars, calls, historyVars>>

\* The source executes the write; one that fails may have changed the block.
SourceIo(q) ==
    /\ At(q, "io") /\ job[q].sio = "pending"
    /\ \/ /\ src' = [src EXCEPT ![target[job[q].req]] = job[q].req]
          /\ job' = [job EXCEPT ![q].sio = "ok"]
          /\ UNCHANGED faults
       \/ /\ Fault("source")
          /\ \/ src' = [src EXCEPT ![target[job[q].req]] = job[q].req]
             \/ UNCHANGED src
          /\ job' = [job EXCEPT ![q].sio = "error"]
    /\ UNCHANGED <<dst, stateVars, api, blockVars, ackVars, ringVars, backend,
                   requestVars, commandVars, stopped, copy, guestVars, calls,
                   crash, historyVars>>

\* The destination executes the write, in any order with the source.
DestinationIo(q) ==
    LET g == backend[q].mirror
        written == [dst EXCEPT ![g][target[job[q].req]] = job[q].req]
    IN  /\ At(q, "io") /\ job[q].dio = "pending"
        /\ \/ /\ dst' = written
              /\ job' = [job EXCEPT ![q].dio = "ok"]
              /\ UNCHANGED faults
           \/ /\ Fault("destination")
              /\ dst' = written \/ UNCHANGED dst
              /\ job' = [job EXCEPT ![q].dio = "error"]
        /\ UNCHANGED <<src, stateVars, api, blockVars, ackVars, ringVars, backend,
                       requestVars, commandVars, stopped, copy, guestVars, calls,
                       crash, historyVars>>

\* wait_for_completions ends: a failure on either side fails the mirror; the
\* source's completion is queued for the guest and the guard is dropped.
WaitForCompletions(q) ==
    LET r == job[q].req
    IN  /\ At(q, "io") /\ "pending" \notin {job[q].sio, job[q].dio}
        /\ IF "error" \in {job[q].sio, job[q].dio}
           THEN Fail(q)
           ELSE UNCHANGED <<phase, backend, crash>>
        /\ lock' = Unlocked(backend[q].mirror, target[r])
        /\ inflight' = [inflight EXCEPT ![q] = @ \cup {r}]
        /\ result' = [result EXCEPT ![r] = job[q].sio]
        /\ compEvt' = [compEvt EXCEPT ![q] = TRUE]
        /\ job' = [job EXCEPT ![q] = [IdleJob EXCEPT !.pc = "submit"]]
        /\ UNCHANGED <<diskVars, api, blockVars, ackVars, ringVars, commandVars,
                       stopped, copy, guestVars, calls, faults, historyVars>>

\* A write submitted to one disk only is executed by the host.
HostCompletes(q, r) ==
    LET b == target[r]
        g == backend[q].mirror
        write == IF backend[q].kind = "destination"
                 THEN dst' = [dst EXCEPT ![g][b] = r] /\ UNCHANGED src
                 ELSE src' = [src EXCEPT ![b] = r] /\ UNCHANGED dst
    IN  /\ crash = "no" /\ r \in inflight[q] /\ result[r] = "pending"
        /\ \/ /\ write
              /\ result' = [result EXCEPT ![r] = "ok"]
              /\ UNCHANGED faults
           \/ /\ Fault("source")
              /\ write \/ UNCHANGED diskVars
              /\ result' = [result EXCEPT ![r] = "error"]
        /\ compEvt' = [compEvt EXCEPT ![q] = TRUE]
        /\ UNCHANGED <<stateVars, api, blockVars, ackVars, ringVars, backend,
                       inflight, commandVars, stopped, job, copy, guestVars, calls,
                       crash, historyVars>>

\* process_queue_complete: the guest learns the outcome of every request that
\* has completed, and what a successful write overwrote cannot be read again.
ProcessQueueComplete(q) ==
    LET reaped == {r \in inflight[q] : result[r] # "pending"}
        gone(b) == UNION {over[r] : r \in {x \in reaped : target[x] = b /\ result[x] = "ok"}}
    IN  /\ inflight' = [inflight EXCEPT ![q] = @ \ reaped]
        /\ finished' = finished \cup reaped
        /\ legal' = [b \in Blocks |-> legal[b] \ gone(b)]
        /\ UNCHANGED <<result, over>>

Swaps == {"install", "cancel", "complete"}

NewBackend(cmd) ==
    CASE cmd.kind = "install"  -> MirrorBackend(cmd.mirror)
      [] cmd.kind = "complete" -> DestinationBackend(cmd.mirror)
      [] cmd.kind = "cancel"   -> PlainBackend(disk)

\* An acknowledgement reaches the API thread if it still waits for it.
Acknowledge(q, cmd, ok) ==
    IF cmd.live
    THEN /\ acks' = IF ok THEN acks \cup {q} ELSE acks
         /\ ackErr' = (ackErr \/ ~ok)
    ELSE UNCHANGED ackVars

\* Mutant: the kicks consumed while a command was pending are forgotten.
WaitForKick(cmd) == "idle"

\* Except after a drain the available ring is processed next.
AfterCommand(cmd) == IF cmd.kind = "drain" THEN "idle" ELSE "submit"

\* try_apply_pending_block_queue_command with nothing in flight: a drain
\* stalls the queue, a resume lets it go on, a swap replaces the backend or
\* fails at the epoll registration and keeps it (replace_disk_image).  The
\* available ring is processed next, whatever the result.
ApplyCommand(q, cmd) ==
    /\ pending' = [pending EXCEPT ![q] = NoCommand]
    /\ stopped' = [stopped EXCEPT ![q] = (cmd.kind = "drain")]
    /\ job' = [job EXCEPT ![q].pc = AfterCommand(cmd)]
    /\ \/ /\ backend' = IF cmd.kind \in Swaps
                        THEN [backend EXCEPT ![q] = NewBackend(cmd)]
                        ELSE backend
          /\ Acknowledge(q, cmd, TRUE)
          /\ UNCHANGED faults
       \/ /\ cmd.kind \in Swaps /\ Fault(cmd.kind)
          /\ Acknowledge(q, cmd, FALSE)
          /\ UNCHANGED backend

\* COMPLETION_EVENT: completions, then new requests, then a pending command
\* if the queue has drained.  New requests are deferred exactly when a command
\* is pending or the queue is stalled.
Completion(q) ==
    /\ At(q, "idle") /\ compEvt[q]
    /\ compEvt' = [compEvt EXCEPT ![q] = FALSE]
    /\ ProcessQueueComplete(q)
    /\ IF pending[q] # NoCommand /\ inflight'[q] = {}
       THEN ApplyCommand(q, pending[q])
       ELSE /\ job' = [job EXCEPT ![q].pc = SubmitOrDefer(q)]
            /\ UNCHANGED <<pending, stopped, backend, ackVars, faults>>
    /\ UNCHANGED <<diskVars, stateVars, api, blockVars, ringVars, slot, cmdEvt,
                   copy, guestVars, calls, crash>>

\* BLOCK_COMMAND_EVENT: a staged command replaces the pending one, and is
\* applied at once if the queue has drained.
BlockCommand(q) ==
    LET cmd == IF slot[q] # NoCommand THEN slot[q] ELSE pending[q]
    IN  /\ At(q, "idle") /\ cmdEvt[q]
        /\ cmdEvt' = [cmdEvt EXCEPT ![q] = FALSE]
        /\ slot' = [slot EXCEPT ![q] = NoCommand]
        /\ IF cmd # NoCommand /\ inflight[q] = {}
           THEN ApplyCommand(q, cmd)
           ELSE /\ pending' = [pending EXCEPT ![q] = cmd]
                /\ UNCHANGED <<stopped, job, backend, ackVars, faults>>
        /\ UNCHANGED <<diskVars, stateVars, api, blockVars, ringVars, requestVars,
                       copy, guestVars, calls, crash, historyVars>>

Worker(q) ==
    \/ QueueAvail(q) \/ Submit(q) \/ LockRange(q) \/ SourceSubmitFails(q)
    \/ DestinationSubmitFails(q) \/ WaitForCompletions(q)
    \/ Completion(q) \/ BlockCommand(q)

HostIo(q) == SourceIo(q) \/ DestinationIo(q) \/ \E r \in Reqs : HostCompletes(q, r)
-----------------------------------------------------------------------------
(***************************************************************************)
(* CopyWorker: one block after the other, each under its range lock.       *)
(***************************************************************************)
notCopy == <<api, blockVars, ackVars, ringVars, backend, requestVars, commandVars,
             stopped, job, guestVars, calls, crash, historyVars>>

\* Mutant: the worker waits for the mirror to run again instead of returning.
CopySpins ==
    /\ CopyAt("next")
    /\ copy' = [copy EXCEPT !.pc =
                  IF copy.block > NBlocks THEN "flush"
                  ELSE IF phase[copy.mirror] # "Running" THEN "next" ELSE "lock"]
    /\ UNCHANGED <<diskVars, stateVars, faults, notCopy>>

\* The head of the loop in run: the end of the disk, then the phase.
CopyNext ==
    /\ CopyAt("next")
    /\ copy' = [copy EXCEPT !.pc =
                  IF copy.block > NBlocks THEN "flush"
                  ELSE IF phase[copy.mirror] # "Running" THEN "finish" ELSE "lock"]
    /\ UNCHANGED <<diskVars, stateVars, faults, notCopy>>

\* Mutant: copy_block does not lock its range.
CopyNoLock ==
    /\ CopyAt("lock")
    /\ copy' = [copy EXCEPT !.pc = "read"]
    /\ UNCHANGED <<diskVars, stateVars, faults, notCopy>>

\* copy_block takes the range lock.
CopyLock ==
    /\ CopyAt("lock") /\ lock[copy.mirror][copy.block] = Free
    /\ lock' = [lock EXCEPT ![copy.mirror][copy.block] = CopyParty]
    /\ copy' = [copy EXCEPT !.pc = "read"]
    /\ UNCHANGED <<diskVars, phase, faults, notCopy>>

\* copy_block reads the source.
CopyRead ==
    /\ CopyAt("read")
    /\ copy' = [copy EXCEPT !.pc = "write", !.buffer = src[copy.block]]
    /\ UNCHANGED <<diskVars, stateVars, faults, notCopy>>

\* copy_block writes the destination (a hole or the data) and drops the guard.
CopyWrite ==
    /\ CopyAt("write")
    /\ dst' = [dst EXCEPT ![copy.mirror][copy.block] = copy.buffer]
    /\ lock' = Unlocked(copy.mirror, copy.block)
    /\ copy' = [copy EXCEPT !.pc = "next", !.block = @ + 1, !.buffer = 0]
    /\ UNCHANGED <<src, phase, faults, notCopy>>

\* A read, write or flush fails: the guard is dropped, then finish_copy.
CopyFails ==
    /\ \E pc \in {"read", "write", "flush"} : CopyAt(pc)
    /\ Fault("copy")
    /\ IF copy.pc = "flush"
       THEN UNCHANGED lock
       ELSE lock' = Unlocked(copy.mirror, copy.block)
    /\ FinishCopy(copy.mirror, "Failed")
    /\ copy' = [copy EXCEPT !.pc = "done", !.buffer = 0]
    /\ UNCHANGED <<diskVars, notCopy>>

\* The destination is flushed once all blocks are copied.
CopyFlush ==
    /\ CopyAt("flush")
    /\ copy' = [copy EXCEPT !.pc = "finish"]
    /\ UNCHANGED <<diskVars, stateVars, faults, notCopy>>

\* run returned Ok, with all blocks copied or because the mirror left Running.
CopyFinish ==
    /\ CopyAt("finish")
    /\ FinishCopy(copy.mirror, "Ready")
    /\ copy' = [copy EXCEPT !.pc = "done"]
    /\ UNCHANGED <<diskVars, lock, faults, notCopy>>

Copy ==
    \/ CopyNext \/ CopyLock \/ CopyRead \/ CopyWrite \/ CopyFails
    \/ CopyFlush \/ CopyFinish
-----------------------------------------------------------------------------
(***************************************************************************)
(* Block: the API thread's operations.  A call stages a command for every  *)
(* queue, waits for all acknowledgements and goes on; a call that runs     *)
(* into the shared deadline takes its error path and nobody listens to the *)
(* commands it leaves behind.                                              *)
(***************************************************************************)
\* The queues that have a command sender.
Senders == IF active THEN Queues ELSE {}

\* Nobody waits for the acknowledgement of this command (any more).
Orphan(cmd) == [cmd EXCEPT !.live = FALSE]

\* send_mirror_queue_commands, in queue order up to the first occupied slot.
Stage(kind, g) ==
    LET occupied == {q \in Senders : slot[q] # NoCommand}
        staged == {q \in Senders : \A o \in occupied : q < o}
    IN  /\ slot' = [q \in Queues |->
                      IF q \in staged
                      THEN [kind |-> kind, mirror |-> g, live |-> TRUE]
                      ELSE Orphan(slot[q])]
        /\ cmdEvt' = [q \in Queues |-> cmdEvt[q] \/ q \in staged]
        /\ pending' = [q \in Queues |-> Orphan(pending[q])]
        /\ acks' = {}
        /\ ackErr' = (occupied # {})

\* The same after the slots were emptied, so that none is occupied; a resume
\* is not waited for.
StageOver(kind, g, live) ==
    /\ slot' = [q \in Queues |->
                  IF q \in Senders
                  THEN [kind |-> kind, mirror |-> g, live |-> live]
                  ELSE NoCommand]
    /\ cmdEvt' = [q \in Queues |-> cmdEvt[q] \/ q \in Senders]
    /\ pending' = [q \in Queues |-> Orphan(pending[q])]
    /\ acks' = {}
    /\ ackErr' = FALSE

\* wait_for_mirror_queue_command_acks returns Ok.
AllAcked == acks = Senders /\ ~ackErr

\* It returns an error: a failed acknowledgement, or the deadline.
AckFails ==
    \/ ackErr /\ UNCHANGED faults
    \/ acks # Senders /\ Fault("timeout")

notApi == <<diskVars, lock, ringVars, backend, requestVars, stopped, job,
            guestVars, historyVars>>

\* revert_queues_to_source: every queue is told to go back to disk_image.
\* If no new backend can be opened nothing is staged and the call fails.
RevertQueues(then, giveUp) ==
    \/ /\ StageOver("cancel", 0, TRUE)
       /\ api' = then
       /\ UNCHANGED faults
    \/ /\ Fault("backend")
       /\ slot' = [q \in Queues |-> IF q \in Senders THEN NoCommand ELSE slot[q]]
       /\ api' = giveUp
       /\ UNCHANGED <<cmdEvt, pending, ackVars>>

\* start_mirror with initialize_mirror: a new state, one install per queue.
\* disk = 0 is a bound of the model: a disk that moved is not mirrored again.
StartMirror ==
    /\ ApiAt("idle") /\ active /\ handle = 0 /\ disk = 0 /\ started < MaxMirrors
    /\ started' = started + 1
    /\ phase' = [phase EXCEPT ![started'] = "Running"]
    /\ Stage("install", started')
    /\ api' = "install"
    /\ UNCHANGED <<notApi, handle, disk, active, copy, calls, faults, crash>>

\* The copy worker starts when every queue mirrors.
Installed == AllAcked

InstallAcked ==
    /\ ApiAt("install") /\ Installed
    /\ \/ /\ copy' = [NoCopy EXCEPT !.mirror = started, !.pc = "next"]
          /\ handle' = started
          /\ api' = "idle"
          /\ UNCHANGED faults
       \/ /\ Fault("spawn")
          /\ api' = "rollback"
          /\ UNCHANGED <<copy, handle>>
    /\ UNCHANGED <<notApi, phase, started, disk, active, ackVars, commandVars,
                   calls, crash>>

InstallFails ==
    /\ ApiAt("install") /\ AckFails
    /\ api' = "rollback"
    /\ UNCHANGED <<notApi, phase, blockVars, ackVars, commandVars, copy, calls, crash>>

\* rollback_mirror_installation: an error of the revert is only logged.
Rollback ==
    /\ ApiAt("rollback")
    /\ TransitionToPhase(started, "Failed")
    /\ RevertQueues("revert", "idle")
    /\ UNCHANGED <<notApi, blockVars, copy, calls>>

\* The revert after a failed start or a failed complete is over; its outcome
\* changes only the error that the call returns.
RevertEnds ==
    /\ ApiAt("revert")
    /\ \/ AllAcked /\ UNCHANGED faults
       \/ AckFails
    /\ api' = "idle"
    /\ UNCHANGED <<notApi, phase, blockVars, ackVars, commandVars, copy, calls, crash>>

\* Mutant: the queues are switched without being drained.
CompleteNoDrain ==
    /\ ApiAt("idle") /\ handle # 0 /\ calls < MaxCalls
    /\ phase[handle] = "Ready"
    /\ calls' = calls + 1
    /\ api' = "switch"
    /\ UNCHANGED <<notApi, phase, blockVars, ackVars, commandVars, copy, faults, crash>>

\* complete_mirror up to drain_and_stall_queues.
CompleteMirror ==
    /\ ApiAt("idle") /\ handle # 0 /\ calls < MaxCalls
    /\ phase[handle] = "Ready"
    /\ calls' = calls + 1
    /\ Stage("drain", handle)
    /\ api' = "completeDrain"
    /\ UNCHANGED <<notApi, phase, blockVars, copy, faults, crash>>

\* cancel_mirror up to drain_and_stall_queues.
CancelMirror ==
    /\ ApiAt("idle") /\ handle # 0 /\ calls < MaxCalls
    /\ phase[handle] \in {"Running", "Ready", "Failed", "Cancelling"}
    /\ calls' = calls + 1
    /\ Stage("drain", handle)
    /\ api' = "cancelDrain"
    /\ UNCHANGED <<notApi, phase, blockVars, copy, faults, crash>>

\* The drain fails: resume_queues, and the call returns the error.
DrainFails ==
    /\ ApiAt("completeDrain") \/ ApiAt("cancelDrain")
    /\ AckFails
    /\ StageOver("resume", handle, FALSE)
    /\ api' = "idle"
    /\ UNCHANGED <<notApi, phase, blockVars, copy, calls, crash>>

\* All queues are stalled.  A mirror that failed meanwhile goes back to the
\* source and the call returns NotReady; otherwise the switch-over begins.
CompleteDrained ==
    /\ ApiAt("completeDrain") /\ AllAcked
    /\ IF phase[handle] = "Failed"
       THEN RevertQueues("revert", "idle")
       ELSE api' = "switch" /\ UNCHANGED <<commandVars, ackVars, faults>>
    /\ UNCHANGED <<notApi, phase, blockVars, copy, calls, crash>>

Switch ==
    /\ ApiAt("switch")
    /\ TransitionToPhase(handle, "Completing")
    /\ Stage("complete", handle)
    /\ api' = "completeSwap"
    /\ UNCHANGED <<notApi, blockVars, copy, calls, faults>>

\* The disk_image of a device whose mirror is complete.
CompletedDisk == handle

\* Every queue is on the destination; the copy worker is joined and the
\* destination becomes the device's disk.
CompleteSwapped ==
    /\ ApiAt("completeSwap") /\ AllAcked /\ copy.pc = "done"
    /\ TransitionToPhase(handle, "Completed")
    /\ disk' = CompletedDisk
    /\ handle' = 0
    /\ copy' = NoCopy
    /\ api' = "idle"
    /\ UNCHANGED <<notApi, started, active, ackVars, commandVars, calls, faults>>

\* Mutant: a switch-over that fails is reported as an error.
SwapFailsWithError ==
    /\ ApiAt("completeSwap") /\ AckFails
    /\ api' = "idle"
    /\ UNCHANGED <<notApi, phase, blockVars, ackVars, commandVars, copy, calls, crash>>

\* A queue did not switch: the VMM aborts rather than lose writes.
CompleteSwapFails ==
    /\ ApiAt("completeSwap") /\ AckFails
    /\ crash' = "switch-over"
    /\ UNCHANGED <<notApi, phase, api, blockVars, ackVars, commandVars, copy, calls>>

CancelDrained ==
    /\ ApiAt("cancelDrain") /\ AllAcked
    /\ TransitionToPhase(handle, "Cancelling")
    /\ RevertQueues("cancelRevert", "idle")
    /\ UNCHANGED <<notApi, blockVars, copy, calls>>

\* Mutant: the handle is dropped although the revert failed.
CancelAnyway ==
    /\ ApiAt("cancelRevert") /\ AckFails
    /\ handle' = 0
    /\ api' = "cancelJoin"
    /\ UNCHANGED <<notApi, phase, started, disk, active, ackVars, commandVars,
                   copy, calls, crash>>

\* The revert failed: the mirror stays in Cancelling with its handle.
CancelRevertFails ==
    /\ ApiAt("cancelRevert") /\ AckFails
    /\ api' = "idle"
    /\ UNCHANGED <<notApi, phase, blockVars, ackVars, commandVars, copy, calls, crash>>

CancelReverted ==
    /\ ApiAt("cancelRevert") /\ AllAcked
    /\ handle' = 0
    /\ api' = "cancelJoin"
    /\ UNCHANGED <<notApi, phase, started, disk, active, ackVars, commandVars,
                   copy, calls, faults, crash>>

\* The copy worker is joined and the destination released.
CancelJoined ==
    /\ ApiAt("cancelJoin") /\ copy.pc = "done"
    /\ copy' = NoCopy
    /\ api' = "idle"
    /\ UNCHANGED <<notApi, phase, blockVars, ackVars, commandVars, calls, faults, crash>>

AllIdle == \A q \in Queues : job[q].pc = "idle"

\* The queue workers are joined: a request in flight on the host may or may
\* not reach the device's disk, and the guest hears of none of them.
JoinWorkers ==
    LET lost == UNION {inflight[q] : q \in Queues}
        late == {r \in lost : result[r] = "pending"}
        Landed(c) == {d \in [Blocks -> Data] :
                        \A b \in Blocks :
                            d[b] \in {c[b]} \cup {r \in late : target[r] = b}}
    IN  /\ AllIdle
        /\ IF disk = 0
           THEN src' \in Landed(src) /\ UNCHANGED dst
           ELSE /\ \E d \in Landed(dst[disk]) : dst' = [dst EXCEPT ![disk] = d]
                /\ UNCHANGED src
        /\ finished' = finished \cup lost
        /\ inflight' = [q \in Queues |-> {}]
        /\ compEvt' = [q \in Queues |-> FALSE]
        /\ kick' = [q \in Queues |-> FALSE]
        /\ avail' = [q \in Queues |-> <<>>]
        /\ slot' = [q \in Queues |-> NoCommand]
        /\ cmdEvt' = [q \in Queues |-> FALSE]
        /\ pending' = [q \in Queues |-> NoCommand]
        /\ stopped' = [q \in Queues |-> FALSE]
        /\ UNCHANGED <<result, lock, job, over, legal>>

\* The guest resets the device.  An active mirror stays.
ResetDevice ==
    /\ ApiAt("idle") /\ active
    /\ JoinWorkers
    /\ active' = FALSE
    /\ UNCHANGED <<phase, api, handle, started, disk, ackVars, backend, copy,
                   guestVars, calls, faults, crash>>

\* create_queue_async_io: a worker reattaches to a mirror that is alive.
QueueBackend ==
    IF handle # 0 /\ phase[handle] \in {"Running", "Ready"}
    THEN MirrorBackend(handle)
    ELSE PlainBackend(disk)

\* The guest activates the device again: new workers, empty command slots.
\* Each queue's backend is created from the phase at that moment.
ActivateDevice ==
    /\ ApiAt("idle") /\ ~active
    /\ active' = TRUE
    /\ backend' = [q \in Queues |-> QueueBackend]
    /\ UNCHANGED <<diskVars, stateVars, api, handle, started, disk, ackVars,
                   ringVars, requestVars, commandVars, stopped, job, copy,
                   guestVars, calls, faults, crash, historyVars>>

\* Drop for Block: workers first, then the mirror is cancelled.
DropBlock ==
    /\ ApiAt("idle")
    /\ JoinWorkers
    /\ active' = FALSE
    /\ IF handle # 0 /\ phase[handle] \in {"Running", "Ready", "Failed"}
       THEN TransitionToPhase(handle, "Cancelling")
       ELSE UNCHANGED <<phase, crash>>
    /\ api' = IF handle # 0 THEN "dropJoin" ELSE "dropped"
    /\ UNCHANGED <<handle, started, disk, ackVars, backend, copy, guestVars,
                   calls, faults>>

DropJoined ==
    /\ ApiAt("dropJoin") /\ copy.pc = "done"
    /\ copy' = NoCopy
    /\ handle' = 0
    /\ api' = "dropped"
    /\ UNCHANGED <<notApi, phase, started, disk, active, ackVars, commandVars,
                   calls, faults, crash>>

\* The steps of a call that has begun.
ApiStep ==
    \/ InstallAcked \/ InstallFails \/ Rollback \/ RevertEnds \/ DrainFails
    \/ CompleteDrained \/ Switch \/ CompleteSwapped \/ CompleteSwapFails
    \/ CancelDrained \/ CancelRevertFails \/ CancelReverted \/ CancelJoined
    \/ DropJoined

\* The device is gone, or the VMM is.
Terminated == (api = "dropped" \/ crash # "no") /\ UNCHANGED vars

Next ==
    \/ \E q \in Queues : Worker(q) \/ HostIo(q)
    \/ \E q \in Queues, b \in Blocks : GuestWrite(q, b)
    \/ Copy
    \/ StartMirror \/ CompleteMirror \/ CancelMirror \/ ApiStep
    \/ ResetDevice \/ ActivateDevice \/ DropBlock
    \/ Terminated

\* Threads are scheduled, the host finishes I/O, and a call runs to its end;
\* nobody has to call, to post writes or to reset.
Fairness ==
    /\ \A q \in Queues : WF_vars(Worker(q)) /\ WF_vars(HostIo(q))
    /\ WF_vars(Copy)
    /\ WF_vars(ApiStep)

Spec == Init /\ [][Next]_vars

FairSpec == Spec /\ Fairness
-----------------------------------------------------------------------------
Commands == [kind : {"none", "install", "drain", "resume", "complete", "cancel"},
             mirror : 0 .. MaxMirrors, live : BOOLEAN]
Backends == [kind : {"source", "mirror", "destination"},
             mirror : 0 .. MaxMirrors, bypass : BOOLEAN]
Jobs == [pc : {"idle", "submit", "lock", "io"}, req : 0 .. NReqs,
         sio : {"none", "pending", "ok", "error"},
         dio : {"none", "pending", "ok", "error", "skipped"}]
Copies == [mirror : 0 .. MaxMirrors, block : 1 .. NBlocks + 1, buffer : Data,
           pc : {"none", "next", "lock", "read", "write", "flush", "finish", "done"}]

DiskTypes == src \in [Blocks -> Data] /\ dst \in [Mirrors -> [Blocks -> Data]]
PhaseTypes == phase \in [Mirrors -> Phases]
LockTypes == lock \in [Mirrors -> [Blocks -> {Free, CopyParty} \cup Queues]]
ApiTypes ==
    /\ api \in {"idle", "install", "rollback", "revert", "completeDrain", "switch",
                "completeSwap", "cancelDrain", "cancelRevert", "cancelJoin",
                "dropJoin", "dropped"}
    /\ handle \in 0 .. MaxMirrors /\ started \in 0 .. MaxMirrors
    /\ disk \in 0 .. MaxMirrors /\ active \in BOOLEAN
    /\ acks \in SUBSET Queues /\ ackErr \in BOOLEAN
BackendTypes == backend \in [Queues -> Backends]
RequestTypes ==
    /\ avail \in [Queues -> Seq(Reqs)] /\ inflight \in [Queues -> SUBSET Reqs]
    /\ result \in [Reqs -> {"none", "pending", "ok", "error"}]
    /\ posted \in 0 .. NReqs /\ target \in [Reqs -> Blocks]
EventTypes ==
    /\ kick \in [Queues -> BOOLEAN] /\ compEvt \in [Queues -> BOOLEAN]
    /\ cmdEvt \in [Queues -> BOOLEAN]
CommandTypes ==
    /\ slot \in [Queues -> Commands] /\ pending \in [Queues -> Commands]
    /\ stopped \in [Queues -> BOOLEAN]
JobTypes == job \in [Queues -> Jobs]
CopyTypes == copy \in Copies
CountTypes ==
    /\ calls \in 0 .. MaxCalls /\ faults \in 0 .. MaxFaults
    /\ crash \in {"no", "transition", "switch-over"}
HistoryTypes ==
    /\ finished \in SUBSET Reqs /\ over \in [Reqs -> SUBSET Data]
    /\ legal \in [Blocks -> SUBSET Data]

(***************************************************************************)
(* Types.                                                                  *)
(***************************************************************************)
TypeOK ==
    /\ DiskTypes /\ PhaseTypes /\ LockTypes /\ ApiTypes /\ BackendTypes
    /\ RequestTypes /\ EventTypes /\ CommandTypes /\ JobTypes /\ CopyTypes
    /\ CountTypes /\ HistoryTypes

(***************************************************************************)
(* A mirror reported as ready is in sync: outside the ranges that a write  *)
(* holds locked, source and destination agree (MirrorPhase::Ready: "All    *)
(* blocks copied. Source and destination are in sync.").                   *)
(***************************************************************************)
ReadyInSync ==
    \A g \in Mirrors, b \in Blocks :
        phase[g] = "Ready" /\ lock[g][b] = Free => src[b] = dst[g][b]

(***************************************************************************)
(* No write is lost or resurrected by starting, failing, cancelling or     *)
(* completing a mirror: a queue that accepts requests, or the device's own *)
(* disk while no worker serves it (after a reset or a drop), holds data    *)
(* that was not overwritten by an acknowledged write.                      *)
(***************************************************************************)
NoWriteLost ==
    /\ \A q \in Queues, b \in Blocks :
         active /\ ~stopped[q] => ReadDisk(backend[q])[b] \in legal[b]
    /\ ~active => \A b \in Blocks : ReadDisk(PlainBackend(disk))[b] \in legal[b]

(***************************************************************************)
(* Queues that accept requests serve them from the same disk, also while   *)
(* complete_mirror moves them one by one (docs: the alternative "would     *)
(* leave the disk half on the source and half on the destination").        *)
(***************************************************************************)
OneServingDisk ==
    \A p, q \in Queues :
        ~stopped[p] /\ ~stopped[q] /\ backend[p].kind = "destination"
            => backend[q].kind = "destination"

(***************************************************************************)
(* No thread attempts a phase transition that panics.                      *)
(***************************************************************************)
NoInvalidTransition == crash # "transition"

(***************************************************************************)
(* A cancelled mirror has let go of its destination: no queue and no copy  *)
(* worker can touch it once cancel_mirror has returned.                    *)
(***************************************************************************)
CancelReleasesDestination ==
    \A g \in Mirrors :
        phase[g] = "Cancelling" /\ handle # g /\ api # "cancelJoin"
            => /\ copy.mirror # g
               /\ active => \A q \in Queues : backend[q].mirror # g

(***************************************************************************)
(* Requests the guest has posted are picked up although their kick was     *)
(* consumed while a command was pending or the queue was stalled.          *)
(***************************************************************************)
PostedIsSubmitted ==
    \A q \in Queues :
        (avail[q] # <<>>) ~> (avail[q] = <<>> \/ crash # "no")

(***************************************************************************)
(* Every call returns; none waits for a thread that waits for it.          *)
(***************************************************************************)
CallsReturn == (api # "idle") ~> (api \in {"idle", "dropped"} \/ crash # "no")
=============================================================================
