----------------------------- MODULE BlockDrain -----------------------------
(***************************************************************************)
(* How virtio-block drains its requests before it is paused                *)
(* (virtio-devices/src/block.rs: BlockEpollHandler::process_queue_submit,  *)
(* process_queue_complete, handle_event; Block::pause, resume and          *)
(* wait_for_active_requests).                                              *)
(*                                                                         *)
(* Two atomics connect the pausing thread with the queue workers: the flag *)
(* draining_active_requests and the counter active_request_count.  pause   *)
(* sets the flag and polls the counter until it is zero, flushes the       *)
(* image's metadata and parks the workers.  A worker raises the counter    *)
(* before it looks at the flag.                                            *)
(*                                                                         *)
(* Requests are counted, not named: how many of a queue's descriptors are  *)
(* with the driver, in the avail ring, popped, in flight on the host, or   *)
(* completed by the host.  A worker returns early from a pass or from the  *)
(* completions when guest memory or the disk gives an error, which is only *)
(* logged: what it had popped is then never answered (lost).               *)
(*                                                                         *)
(* VirtioCommon::pause (module VirtioPause) is one step here, taken when   *)
(* every worker is between two events; a worker that has ended never comes *)
(* to the barrier.  Which mirror commands come in which order is module    *)
(* DiskMirror: here a command of either effect comes at any time.          *)
(***************************************************************************)
EXTENDS Naturals, FiniteSets

CONSTANTS Queues,      \* the queues, each with one worker
          QueueSize,   \* QueueSize[q]: descriptors of queue q
          Limited,     \* queues that have a rate limiter
          Mirrored,    \* queues that get commands of a disk mirror
          Faults       \* "pause": the drain times out or the metadata is not flushed;
                       \* "request": an answer cannot be written, an fsync fails;
                       \* "worker": a corrupted ring or a failed signal ends a worker

ASSUME QueuesAssumption ==
    IsFiniteSet(Queues) /\ Limited \subseteq Queues /\ Mirrored \subseteq Queues
ASSUME QueueSizeAssumption == QueueSize \in [Queues -> Nat \ {0}]
ASSUME FaultsAssumption == Faults \subseteq {"pause", "request", "worker"}

VARIABLES
    vcpus,     \* the guest runs: Vm::pause stops it before it pauses devices
    draining,  \* draining_active_requests
    count,     \* active_request_count
    paused,    \* the workers are parked
    api,       \* where the thread that pauses is
    pc,        \* pc[q]: where the worker of q is
    then,      \* then[q]: where the worker goes after its pass
    free,      \* free[q]: descriptors that the driver has, or has got back
    avail,     \* avail[q]: requests in the avail ring
    batch,     \* batch[q]: requests popped and not yet submitted
    host,      \* host[q]: requests in flight on the host
    done,      \* done[q]: completions of the host not yet processed
    processed, \* processed[q]: requests taken in this pass
    kick,      \* kick[q]: queue_evt is signalled
    notified,  \* notified[q]: the completion notifier is signalled
    blocked,   \* blocked[q]: the rate limiter's timer is armed
    cmd,       \* cmd[q]: pending_block_queue_command
    stopped,   \* stopped[q]: submissions_stopped
    dirty,     \* the image has metadata in its cache
    lost,      \* history, lost[q]: requests that an error dropped unanswered
    skipped,   \* history, skipped[q]: an error ended the last look at the ring
    stuck      \* history, stuck[q]: an error left completions behind, notifier read

rings == <<free, avail, batch, host, done, processed, lost>>
evts  == <<kick, notified, blocked>>
mirror == <<cmd, stopped>>
errors == <<skipped, stuck>>
worker == <<pc, then>>
vars  == <<vcpus, draining, count, paused, api, worker, rings, evts, mirror, dirty, errors>>

Zero == [q \in Queues |-> 0]
None == [q \in Queues |-> FALSE]
All(x) == [q \in Queues |-> x]

Init ==
    /\ vcpus = TRUE /\ draining = FALSE /\ count = 0 /\ paused = FALSE
    /\ api = "idle" /\ pc = All("idle") /\ then = All("idle")
    /\ free = QueueSize
    /\ avail = Zero /\ batch = Zero /\ host = Zero /\ done = Zero /\ processed = Zero
    /\ kick = None /\ notified = None /\ blocked = None
    /\ cmd = All("none") /\ stopped = None /\ dirty = FALSE
    /\ lost = Zero /\ skipped = None /\ stuck = None

\* Requests that the worker took and has still to answer.
Taken(q) == (IF pc[q] = "count" THEN 0 ELSE batch[q]) + host[q] + done[q]
-----------------------------------------------------------------------------
(***************************************************************************)
(* Guest and host.                                                         *)
(***************************************************************************)
GuestPost(q) ==
    /\ vcpus /\ free[q] > 0
    /\ free' = [free EXCEPT ![q] = @ - 1]
    /\ avail' = [avail EXCEPT ![q] = @ + 1]
    /\ kick' = [kick EXCEPT ![q] = TRUE]
    /\ UNCHANGED <<vcpus, draining, count, paused, api, worker, batch, host, done,
                   processed, lost, notified, blocked, mirror, dirty, errors>>

\* The host finishes a request; a write may leave metadata in the cache.
HostComplete(q) ==
    /\ host[q] > 0
    /\ host' = [host EXCEPT ![q] = @ - 1]
    /\ done' = [done EXCEPT ![q] = @ + 1]
    /\ notified' = [notified EXCEPT ![q] = TRUE]
    /\ dirty' = TRUE
    /\ UNCHANGED <<vcpus, draining, count, paused, api, worker, free, avail, batch,
                   processed, lost, kick, blocked, mirror, errors>>
-----------------------------------------------------------------------------
(***************************************************************************)
(* A worker.  Events are handled only while it is not parked.              *)
(***************************************************************************)
Goes(q, to) == pc' = [pc EXCEPT ![q] = to]
Then(q, to) == then' = [then EXCEPT ![q] = to]

\* QUEUE_AVAIL_EVENT: nothing but the read if the rate limit is reached.
HandleQueueAvail(q) ==
    /\ pc[q] = "idle" /\ ~paused /\ kick[q]
    /\ kick' = [kick EXCEPT ![q] = FALSE]
    /\ Goes(q, IF blocked[q] THEN "idle" ELSE "enter")
    /\ UNCHANGED <<vcpus, draining, count, paused, api, then, rings, notified, blocked,
                   mirror, dirty, errors>>

\* RATE_LIMITER_EVENT: the timer fired, the queue is processed again.
HandleRateLimiter(q) ==
    /\ pc[q] = "idle" /\ ~paused /\ blocked[q]
    /\ blocked' = [blocked EXCEPT ![q] = FALSE]
    /\ Goes(q, "enter")
    /\ UNCHANGED <<vcpus, draining, count, paused, api, then, rings, kick, notified,
                   mirror, dirty, errors>>

\* BLOCK_COMMAND_EVENT: a command that stalls the queue, or one that lets it go on
\* with this or another backend.  It replaces one that is still pending.
HandleCommand(q, kind) ==
    /\ pc[q] = "idle" /\ ~paused /\ q \in Mirrored
    /\ cmd' = [cmd EXCEPT ![q] = kind]
    /\ Goes(q, "apply")
    /\ UNCHANGED <<vcpus, draining, count, paused, api, then, rings, evts, stopped,
                   dirty, errors>>

\* try_apply_pending_block_queue_command: once nothing is in flight; then the
\* ring is processed, because its kicks were consumed.
MayApply(q) == cmd[q] # "none" /\ host[q] + done[q] = 0

Apply(q) ==
    /\ pc[q] = "apply"
    /\ IF MayApply(q)
       THEN /\ stopped' = [stopped EXCEPT ![q] = (cmd[q] = "stall")]
            /\ cmd' = [cmd EXCEPT ![q] = "none"]
            /\ Goes(q, IF blocked[q] THEN "idle" ELSE "enter")
       ELSE Goes(q, "idle") /\ UNCHANGED mirror
    /\ Then(q, "idle")
    /\ UNCHANGED <<vcpus, draining, count, paused, api, rings, evts, dirty, errors>>

\* COMPLETION_EVENT: read the notifier, then process_queue_complete.
HandleCompletion(q) ==
    /\ pc[q] = "idle" /\ ~paused /\ notified[q]
    /\ notified' = [notified EXCEPT ![q] = FALSE]
    /\ Goes(q, "complete")
    /\ UNCHANGED <<vcpus, draining, count, paused, api, then, rings, kick, blocked,
                   mirror, dirty, errors>>

\* One turn of process_queue_complete: the used descriptor is written before
\* the ActiveRequestGuard is dropped.
CompleteOne(q) ==
    /\ pc[q] = "complete" /\ done[q] > 0
    /\ done' = [done EXCEPT ![q] = @ - 1]
    /\ free' = [free EXCEPT ![q] = @ + 1]
    /\ count' = count - 1
    /\ UNCHANGED <<vcpus, draining, paused, api, worker, avail, batch, host, processed,
                   lost, evts, mirror, dirty, errors>>

\* try_signal_used_queue fails: handle_event returns the error, the worker ends.
Dies == IF "worker" \in Faults THEN {"dead"} ELSE {}

\* After the completions the queue is processed unless the rate limit is reached,
\* and a pending command is tried.
AfterCompletions(q) == {IF blocked[q] THEN "apply" ELSE "enter"} \cup Dies

\* No more completions.
CompleteEnd(q) ==
    /\ pc[q] = "complete" /\ done[q] = 0
    /\ stuck' = [stuck EXCEPT ![q] = FALSE]
    /\ \E to \in AfterCompletions(q) : Goes(q, to)
    /\ Then(q, "apply")
    /\ UNCHANGED <<vcpus, draining, count, paused, api, rings, evts, mirror, dirty, skipped>>

\* An error return of process_queue_complete, only logged: the request has left
\* inflight_requests and its guard is dropped, before or after the used
\* descriptor was written; the completions behind it wait for the next one.
CompleteFails(q) ==
    /\ "request" \in Faults /\ pc[q] = "complete" /\ done[q] > 0
    /\ done' = [done EXCEPT ![q] = @ - 1]
    /\ \/ free' = [free EXCEPT ![q] = @ + 1] /\ UNCHANGED lost
       \/ lost' = [lost EXCEPT ![q] = @ + 1] /\ UNCHANGED free
    /\ count' = count - 1
    /\ stuck' = [stuck EXCEPT ![q] = done[q] > 1]
    /\ \E to \in AfterCompletions(q) : Goes(q, to)
    /\ Then(q, "apply")
    /\ UNCHANGED <<vcpus, draining, paused, api, avail, batch, host, processed, evts,
                   mirror, dirty, skipped>>

\* Mutant: the counter is not raised while the queue is processed.
NoBump == count

\* "Artificially bump the active counter while submitting so pause doesn't
\* race and read a zero."
Bump == count + 1

Enter(q) ==
    /\ pc[q] = "enter"
    /\ count' = Bump
    /\ Goes(q, "first")
    /\ UNCHANGED <<vcpus, draining, paused, api, then, rings, evts, mirror, dirty, errors>>

\* "Defer new descriptors while a mirror command is pending or guest requests
\* are stopped."
Deferred(q) == stopped[q] \/ cmd[q] # "none"

\* The first look at the flag, and at the mirror.
FirstCheck(q) ==
    /\ pc[q] = "first"
    /\ Goes(q, IF draining \/ Deferred(q) THEN "leave" ELSE "loop")
    /\ skipped' = [skipped EXCEPT ![q] = FALSE]
    /\ UNCHANGED <<vcpus, draining, count, paused, api, then, rings, evts, mirror,
                   dirty, stuck>>

\* "Cap a single drain at the virtqueue size."
CapReached(q) == processed[q] >= QueueSize[q]

\* The head of the loop: the cap, then the flag.
LoopCheck(q) ==
    /\ pc[q] = "loop"
    /\ Goes(q, IF CapReached(q) \/ draining \/ avail[q] = 0 THEN "submit" ELSE "pop")
    /\ processed' = [processed EXCEPT ![q] = IF pc'[q] = "pop" THEN @ + 1 ELSE @]
    /\ UNCHANGED <<vcpus, draining, count, paused, api, then, free, avail, batch, host,
                   done, lost, evts, mirror, dirty, errors>>

\* Mutant: the guard of the pass is leaked.
GuardLeaked == count

\* The ActiveRequestGuard of the pass is dropped.
GuardDropped == IF count > 0 THEN count - 1 ELSE 0

\* The ring is corrupted, or the head just popped is one in flight: the batch is
\* dropped and the worker ends, so that the device is marked NEEDS_RESET.
RingFails(q) ==
    /\ "worker" \in Faults /\ pc[q] \in {"loop", "pop"}
    /\ pc[q] = "loop" => ~CapReached(q) /\ ~draining
    /\ avail' = [avail EXCEPT ![q] = IF pc[q] = "pop" THEN @ - 1 ELSE @]
    /\ lost' = [lost EXCEPT ![q] = @ + batch[q] + (IF pc[q] = "pop" THEN 1 ELSE 0)]
    /\ batch' = [batch EXCEPT ![q] = 0]
    /\ count' = GuardDropped
    /\ processed' = [processed EXCEPT ![q] = 0]
    /\ Goes(q, "dead")
    /\ UNCHANGED <<vcpus, draining, paused, api, then, free, host, done, evts, mirror,
                   dirty, errors>>

\* The request is answered at once: it is malformed, not allowed, or needs no
\* host I/O.
PopAnswered(q) ==
    /\ pc[q] = "pop"
    /\ avail' = [avail EXCEPT ![q] = @ - 1]
    /\ free' = [free EXCEPT ![q] = @ + 1]
    /\ Goes(q, "loop")
    /\ UNCHANGED <<vcpus, draining, count, paused, api, then, batch, host, done, processed,
                   lost, evts, mirror, dirty, errors>>

\* The answer cannot be written, or not be announced: an error return, only
\* logged.  The batch is dropped and the rest of the ring is left.
PopFails(q) ==
    /\ "request" \in Faults /\ pc[q] = "pop"
    /\ avail' = [avail EXCEPT ![q] = @ - 1]
    /\ \/ /\ free' = [free EXCEPT ![q] = @ + 1]
          /\ lost' = [lost EXCEPT ![q] = @ + batch[q]]
       \/ lost' = [lost EXCEPT ![q] = @ + batch[q] + 1] /\ UNCHANGED free
    /\ batch' = [batch EXCEPT ![q] = 0]
    /\ skipped' = [skipped EXCEPT ![q] = avail[q] > 1]
    /\ Goes(q, "leave")
    /\ UNCHANGED <<vcpus, draining, count, paused, api, then, host, done, processed, evts,
                   mirror, dirty, stuck>>

\* The rate limit is reached: the request goes back to the ring.
PopLimited(q) ==
    /\ pc[q] = "pop" /\ q \in Limited
    /\ blocked' = [blocked EXCEPT ![q] = TRUE]
    /\ Goes(q, "submit")
    /\ UNCHANGED <<vcpus, draining, count, paused, api, then, rings, kick, notified, mirror,
                   dirty, errors>>

\* The backend takes the request at once.
PopSubmitted(q) ==
    /\ pc[q] = "pop"
    /\ avail' = [avail EXCEPT ![q] = @ - 1]
    /\ host' = [host EXCEPT ![q] = @ + 1]
    /\ count' = count + 1
    /\ Goes(q, "loop")
    /\ UNCHANGED <<vcpus, draining, paused, api, then, free, batch, done, processed, lost,
                   evts, mirror, dirty, errors>>

\* The request joins the batch.
PopBatched(q) ==
    /\ pc[q] = "pop"
    /\ avail' = [avail EXCEPT ![q] = @ - 1]
    /\ batch' = [batch EXCEPT ![q] = @ + 1]
    /\ Goes(q, "loop")
    /\ UNCHANGED <<vcpus, draining, count, paused, api, then, free, host, done, processed,
                   lost, evts, mirror, dirty, errors>>

\* The batch is submitted, all of it or none (the contract of AsyncIo, so that
\* no completion is of a request the worker does not know); the host may
\* complete requests of it before they are counted.
Submit(q) ==
    /\ pc[q] = "submit" /\ batch[q] > 0
    /\ host' = [host EXCEPT ![q] = @ + batch[q]]
    /\ Goes(q, "count")
    /\ UNCHANGED <<vcpus, draining, count, paused, api, then, free, avail, batch, done,
                   processed, lost, evts, mirror, dirty, errors>>

\* submit_batch_requests failed: every request of the batch is answered, unless
\* an answer cannot be written.
SubmitFails(q, answered) ==
    /\ pc[q] = "submit" /\ batch[q] > 0 /\ answered <= batch[q]
    /\ answered = batch[q] \/ "request" \in Faults
    /\ free' = [free EXCEPT ![q] = @ + answered]
    /\ lost' = [lost EXCEPT ![q] = @ + batch[q] - answered]
    /\ batch' = [batch EXCEPT ![q] = 0]
    /\ Goes(q, "leave")
    /\ UNCHANGED <<vcpus, draining, count, paused, api, then, avail, host, done, processed,
                   evts, mirror, dirty, errors>>

\* There is no batch.
SubmitNothing(q) ==
    /\ pc[q] = "submit" /\ batch[q] = 0
    /\ Goes(q, "leave")
    /\ UNCHANGED <<vcpus, draining, count, paused, api, then, rings, evts, mirror, dirty,
                   errors>>

\* The batch is counted after its submission.
CountBatch(q) ==
    /\ pc[q] = "count"
    /\ count' = count + batch[q]
    /\ batch' = [batch EXCEPT ![q] = 0]
    /\ Goes(q, "leave")
    /\ UNCHANGED <<vcpus, draining, paused, api, then, free, avail, host, done, processed,
                   lost, evts, mirror, dirty, errors>>

\* The guard is dropped at the return, and the guest is signalled.
Leave(q) ==
    /\ pc[q] = "leave"
    /\ count' = GuardDropped
    /\ processed' = [processed EXCEPT ![q] = 0]
    /\ \E to \in {then[q]} \cup Dies : Goes(q, to)
    /\ Then(q, "idle")
    /\ UNCHANGED <<vcpus, draining, paused, api, free, avail, batch, host, done, lost, evts,
                   mirror, dirty, errors>>

Pass(q) ==
    \/ CompleteOne(q) \/ CompleteEnd(q) \/ CompleteFails(q) \/ Apply(q)
    \/ Enter(q) \/ FirstCheck(q) \/ LoopCheck(q) \/ RingFails(q)
    \/ PopAnswered(q) \/ PopFails(q) \/ PopLimited(q) \/ PopSubmitted(q) \/ PopBatched(q)
    \/ Submit(q) \/ \E k \in 0..QueueSize[q] : SubmitFails(q, k)
    \/ SubmitNothing(q) \/ CountBatch(q) \/ Leave(q)
-----------------------------------------------------------------------------
(***************************************************************************)
(* Block::pause and resume.                                                *)
(***************************************************************************)
\* The guest is stopped first, once for a pause that is tried again.
PauseBegin ==
    /\ api = "idle" /\ ~paused
    /\ vcpus' = FALSE
    /\ draining' = TRUE
    /\ api' = "drain"
    /\ UNCHANGED <<count, paused, worker, rings, evts, mirror, dirty, errors>>

\* wait_for_active_requests sees a zero.
Drained ==
    /\ api = "drain" /\ count = 0
    /\ api' = "sync"
    /\ UNCHANGED <<vcpus, draining, count, paused, worker, rings, evts, mirror, dirty, errors>>

\* disk_image.sync_metadata().
SyncMetadata ==
    /\ api = "sync"
    /\ dirty' = FALSE
    /\ api' = "park"
    /\ UNCHANGED <<vcpus, draining, count, paused, worker, rings, evts, mirror, errors>>

\* The drain timed out, or the metadata could not be flushed.
PauseFails ==
    /\ "pause" \in Faults
    /\ (api = "drain" /\ count > 0) \/ api = "sync"
    /\ draining' = FALSE
    /\ api' = "idle"
    /\ UNCHANGED <<vcpus, count, paused, worker, rings, evts, mirror, dirty, errors>>

\* common.pause(): every worker has parked between two events; then the flag
\* is cleared.  A worker that ended does not come, and the pause waits for ever.
ParkWorkers ==
    /\ api = "park" /\ \A q \in Queues : pc[q] = "idle"
    /\ paused' = TRUE
    /\ draining' = FALSE
    /\ api' = "idle"
    /\ UNCHANGED <<vcpus, count, worker, rings, evts, mirror, dirty, errors>>

\* Mutant: the queues are not signalled on a resume.
NoQueueEvts == kick

\* VirtioCommon::resume signals every activated queue.
QueueEvts == [q \in Queues |-> TRUE]

\* resume: the workers run, every queue is signalled, and the guest runs.
Resume ==
    /\ api = "idle" /\ paused
    /\ draining' = FALSE
    /\ paused' = FALSE
    /\ kick' = QueueEvts
    /\ vcpus' = TRUE
    /\ UNCHANGED <<count, api, worker, rings, notified, blocked, mirror, dirty, errors>>

Pause == Drained \/ SyncMetadata \/ ParkWorkers

Next ==
    \/ \E q \in Queues :
         \/ GuestPost(q) \/ HostComplete(q)
         \/ HandleQueueAvail(q) \/ HandleRateLimiter(q) \/ HandleCompletion(q)
         \/ \E kind \in {"stall", "swap"} : HandleCommand(q, kind)
         \/ Pass(q)
    \/ PauseBegin \/ Pause \/ PauseFails \/ Resume

Spec == Init /\ [][Next]_vars
-----------------------------------------------------------------------------
(***************************************************************************)
(* Types.                                                                  *)
(***************************************************************************)
TypeOK ==
    /\ vcpus \in BOOLEAN /\ draining \in BOOLEAN /\ paused \in BOOLEAN
    /\ dirty \in BOOLEAN /\ count \in Nat
    /\ api \in {"idle", "drain", "sync", "park"}
    /\ pc \in [Queues -> {"idle", "complete", "enter", "first", "loop", "pop", "submit",
                          "count", "leave", "apply", "dead"}]
    /\ then \in [Queues -> {"idle", "apply"}]
    /\ free \in [Queues -> Nat] /\ avail \in [Queues -> Nat]
    /\ batch \in [Queues -> Nat] /\ host \in [Queues -> Nat]
    /\ done \in [Queues -> Nat] /\ processed \in [Queues -> Nat]
    /\ kick \in [Queues -> BOOLEAN] /\ notified \in [Queues -> BOOLEAN]
    /\ blocked \in [Queues -> BOOLEAN] /\ stopped \in [Queues -> BOOLEAN]
    /\ cmd \in [Queues -> {"none", "stall", "swap"}]
    /\ lost \in [Queues -> Nat]
    /\ skipped \in [Queues -> BOOLEAN] /\ stuck \in [Queues -> BOOLEAN]

\* The passes that hold an ActiveRequestGuard.
InPass == {q \in Queues : pc[q] \in {"first", "loop", "pop", "submit", "count", "leave"}}

\* Requests that were submitted and counted: those of a batch are counted one
\* step after their submission.
Counted(q) == host[q] + done[q] - (IF pc[q] = "count" THEN batch[q] ELSE 0)

\* The ActiveRequestGuards that are alive: one of each pass, numbered 0, and
\* one of each counted request.
Guards == (InPass \X {0}) \cup UNION {{q} \X (1..Counted(q)) : q \in Queues}

(***************************************************************************)
(* active_request_count is exact: it counts the passes that hold a guard   *)
(* and the counted requests, whatever the workers and the host interleave. *)
(***************************************************************************)
CountIsExact == count = Cardinality(Guards)

(***************************************************************************)
(* A paused device holds no request: every descriptor is with the driver   *)
(* or still in the avail ring, where the restored device finds it, so a    *)
(* snapshot or a migration that is taken now loses no request.  The        *)
(* exception are requests that an error return of a pass or of the         *)
(* completions dropped before (lost); no pause drops any.                  *)
(***************************************************************************)
PausedIsDrained == paused => \A q \in Queues : free[q] + avail[q] + lost[q] = QueueSize[q]

(***************************************************************************)
(* "the on-disk image is self-consistent while paused": no host I/O dirties *)
(* the metadata between the flush and the resume.                          *)
(***************************************************************************)
PausedImageIsSynced == (paused \/ api = "park") => ~dirty

(***************************************************************************)
(* No request is forgotten while the guest runs: when a worker is between  *)
(* two events and its ring is not empty, its queue event is signalled, the *)
(* timer of its rate limiter is armed, or the mirror keeps the queue and   *)
(* has what lets it go: the next command of a stalled queue, or for a      *)
(* command that is pending the completion of what is in flight.  Also      *)
(* after a pass that stopped at its cap, a drain that consumed the kicks,  *)
(* and pauses that failed.  The exceptions are an error return of the last *)
(* pass (skipped) and of the last completions (stuck): then the request    *)
(* waits for the next kick of the driver or the next completion.  A worker *)
(* that ended looks at no ring; its device is marked NEEDS_RESET.          *)
(***************************************************************************)
Signalled(q) == kick[q] \/ blocked[q] \/ skipped[q]
KeptByMirror(q) ==
    stopped[q] \/ (cmd[q] # "none" /\ (host[q] > 0 \/ notified[q] \/ stuck[q]))

WaitingIsSignalled ==
    \A q \in Queues :
        (vcpus /\ pc[q] = "idle" /\ avail[q] > 0) => (Signalled(q) \/ KeptByMirror(q))
=============================================================================
