---------------------------- MODULE VirtioPause -----------------------------
(***************************************************************************)
(* How a virtio device is paused, resumed, reset and activated: the worker *)
(* threads of virtio-devices/src/device.rs (WorkerThreads, VirtioCommon),  *)
(* their epoll loop (epoll_helper.rs) and the end of a worker              *)
(* (thread_helper.rs).                                                     *)
(*                                                                         *)
(* pause sets a flag, writes the eventfd shared by all workers and waits   *)
(* on a barrier sized for the workers and itself.  A worker that sees the  *)
(* event arrives at the barrier, parks while the flag is set, and then     *)
(* drains the eventfd.  resume clears the flag, unparks the workers and    *)
(* signals the queues.  Every operation of the API thread runs with the    *)
(* device's mutex held.                                                    *)
(***************************************************************************)
EXTENDS Naturals, FiniteSets

CONSTANTS Workers,   \* the queue worker threads of one activation
          Api,       \* the thread that holds the device's mutex
          MayFail    \* workers whose handler may return an error

ASSUME WorkersAssumption == Api \notin Workers /\ MayFail \subseteq Workers

Events == {"kill", "pause", "queue"}

VARIABLES
    active,   \* the device has workers, a kill and a pause eventfd
    paused,   \* the shared flag
    pauseEvt, \* the pause eventfd is signalled
    killEvt,  \* the kill eventfd is signalled
    queueEvt, \* queueEvt[w]: the queue eventfd of w is signalled
    barrier,  \* threads that wait on paused_sync
    api,      \* where the API thread is
    worker,   \* where each worker is
    events,   \* events[w]: what epoll returned and w has not yet dispatched
    token     \* token[w]: the unpark token of w

pauseVars == <<active, paused, pauseEvt, killEvt, queueEvt, barrier, api, worker,
               events, token>>

\* A device is created unpaused; a restored one is paused before activation.
PauseInit ==
    /\ active = FALSE
    /\ paused \in BOOLEAN
    /\ pauseEvt = FALSE /\ killEvt = FALSE
    /\ queueEvt = [w \in Workers |-> FALSE]
    /\ barrier = {}
    /\ api = "idle"
    /\ worker = [w \in Workers |-> "exited"]
    /\ events = [w \in Workers |-> {}]
    /\ token = [w \in Workers |-> FALSE]
-----------------------------------------------------------------------------
(***************************************************************************)
(* Barrier::wait: the last of Cardinality(Workers) + 1 threads releases    *)
(* the others.                                                             *)
(***************************************************************************)
Arrive(x) ==
    IF barrier \cup {x} = Workers \cup {Api}
    THEN /\ barrier' = {}
         /\ worker' = [w \in Workers |-> "check"]
         /\ api' = "idle"
    ELSE /\ barrier' = barrier \cup {x}
         /\ worker' = IF x = Api THEN worker ELSE [worker EXCEPT ![x] = "barrier"]
         /\ api' = IF x = Api THEN "barrier" ELSE api
-----------------------------------------------------------------------------
(***************************************************************************)
(* A worker: EpollHelper::run_with_timeout.                                *)
(***************************************************************************)
\* "check if the device is expected to be in a paused state"
MayStart(w) == ~paused

\* The loop before the epoll loop.
StartCheck(w) ==
    /\ worker[w] = "start"
    /\ worker' = [worker EXCEPT ![w] = IF MayStart(w) THEN "epoll" ELSE "startPark"]
    /\ UNCHANGED <<active, paused, pauseEvt, killEvt, queueEvt, barrier, api,
                   events, token>>

\* thread::park returns with the token, and the flag is read again.
Unparked(w) ==
    /\ token[w]
    /\ \/ /\ worker[w] = "startPark"
          /\ worker' = [worker EXCEPT ![w] = "start"]
       \/ /\ worker[w] = "park"
          /\ worker' = [worker EXCEPT ![w] = "check"]
    /\ token' = [token EXCEPT ![w] = FALSE]
    /\ UNCHANGED <<active, paused, pauseEvt, killEvt, queueEvt, barrier, api, events>>

\* The eventfds that are readable now.
Readable(w) ==
    {e \in Events : \/ e = "kill" /\ killEvt
                    \/ e = "pause" /\ pauseEvt
                    \/ e = "queue" /\ queueEvt[w]}

\* epoll_wait returns all readable eventfds.
EpollWait(w) ==
    /\ worker[w] = "epoll" /\ Readable(w) # {}
    /\ events' = [events EXCEPT ![w] = Readable(w)]
    /\ worker' = [worker EXCEPT ![w] = "dispatch"]
    /\ UNCHANGED <<active, paused, pauseEvt, killEvt, queueEvt, barrier, api, token>>

\* All events of this round are dispatched.
NextRound(w) ==
    /\ worker[w] = "dispatch" /\ events[w] = {}
    /\ worker' = [worker EXCEPT ![w] = "epoll"]
    /\ UNCHANGED <<active, paused, pauseEvt, killEvt, queueEvt, barrier, api,
                   events, token>>

\* EPOLL_HELPER_EVENT_KILL ends the loop.
DispatchKill(w) ==
    /\ worker[w] = "dispatch" /\ "kill" \in events[w]
    /\ worker' = [worker EXCEPT ![w] = "exited"]
    /\ events' = [events EXCEPT ![w] = {}]
    /\ UNCHANGED <<active, paused, pauseEvt, killEvt, queueEvt, barrier, api, token>>

\* EPOLL_HELPER_EVENT_PAUSE: paused_sync.wait().
DispatchPause(w) ==
    /\ worker[w] = "dispatch" /\ "pause" \in events[w]
    /\ events' = [events EXCEPT ![w] = @ \ {"pause"}]
    /\ Arrive(w)
    /\ UNCHANGED <<active, paused, pauseEvt, killEvt, queueEvt, token>>

\* The loop after the barrier.
CheckPaused(w) ==
    /\ worker[w] = "check"
    /\ worker' = [worker EXCEPT ![w] = IF paused THEN "park" ELSE "drain"]
    /\ UNCHANGED <<active, paused, pauseEvt, killEvt, queueEvt, barrier, api,
                   events, token>>

\* pause_evt.read() after the resume; the eventfd may already be empty.
DrainPauseEvt(w) ==
    /\ worker[w] = "drain"
    /\ pauseEvt' = FALSE
    /\ worker' = [worker EXCEPT ![w] = "dispatch"]
    /\ UNCHANGED <<active, paused, killEvt, queueEvt, barrier, api, events, token>>

\* Any other event goes to the device's handler, which reads the eventfd and
\* works on the queue.
HandleEvent(w) ==
    /\ worker[w] = "dispatch" /\ "queue" \in events[w]
    /\ queueEvt' = [queueEvt EXCEPT ![w] = FALSE]
    /\ events' = [events EXCEPT ![w] = @ \ {"queue"}]
    /\ UNCHANGED <<active, paused, pauseEvt, killEvt, barrier, api, worker, token>>

\* The handler returns an error: the thread ends, the device needs a reset.
HandlerFails(w) ==
    /\ w \in MayFail
    /\ worker[w] = "dispatch" /\ "queue" \in events[w]
    /\ queueEvt' = [queueEvt EXCEPT ![w] = FALSE]
    /\ events' = [events EXCEPT ![w] = {}]
    /\ worker' = [worker EXCEPT ![w] = "exited"]
    /\ UNCHANGED <<active, paused, pauseEvt, killEvt, barrier, api, token>>

Worker(w) ==
    \/ StartCheck(w) \/ Unparked(w) \/ EpollWait(w) \/ NextRound(w)
    \/ DispatchKill(w) \/ DispatchPause(w) \/ CheckPaused(w) \/ DrainPauseEvt(w)
    \/ HandleEvent(w)

\* park may return without a token.
SpuriousUnpark(w) ==
    /\ ~token[w]
    /\ \/ worker[w] = "startPark" /\ worker' = [worker EXCEPT ![w] = "start"]
       \/ worker[w] = "park" /\ worker' = [worker EXCEPT ![w] = "check"]
    /\ UNCHANGED <<active, paused, pauseEvt, killEvt, queueEvt, barrier, api,
                   events, token>>

\* The guest notifies a queue.
GuestKick(w) ==
    /\ active /\ ~queueEvt[w]
    /\ queueEvt' = [queueEvt EXCEPT ![w] = TRUE]
    /\ UNCHANGED <<active, paused, pauseEvt, killEvt, barrier, api, worker,
                   events, token>>
-----------------------------------------------------------------------------
(***************************************************************************)
(* The API thread: VirtioCommon and WorkerThreads.                         *)
(***************************************************************************)
\* pause: swap the flag.  A paused device returns at once; a device that has
\* no workers has nobody to wait for.
PauseSwap ==
    /\ api = "idle" /\ ~paused
    /\ paused' = TRUE
    /\ api' = IF active THEN "pauseWrite" ELSE "idle"
    /\ UNCHANGED <<active, pauseEvt, killEvt, queueEvt, barrier, worker, events, token>>

\* Mutant: the workers are not signalled.
PauseNoWrite ==
    /\ api = "pauseWrite"
    /\ api' = "pauseWait"
    /\ UNCHANGED <<active, paused, pauseEvt, killEvt, queueEvt, barrier, worker,
                   events, token>>

\* pause: signal the workers.
PauseWrite ==
    /\ api = "pauseWrite"
    /\ pauseEvt' = TRUE
    /\ api' = "pauseWait"
    /\ UNCHANGED <<active, paused, killEvt, queueEvt, barrier, worker, events, token>>

\* Mutant: pause returns without waiting for the workers.
NoWait == api' = "idle" /\ UNCHANGED <<barrier, worker>>

\* pause: paused_sync.wait().
WaitForWorkers == Arrive(Api)

PauseWait ==
    /\ api = "pauseWait"
    /\ WaitForWorkers
    /\ UNCHANGED <<active, paused, pauseEvt, killEvt, queueEvt, events, token>>

\* Mutant: nobody unparks the parked workers.
NoUnpark == token

\* WorkerThreads::unpark.
Unpark == [w \in Workers |-> token[w] \/ active]

\* resume: clear the flag.
ResumeStore ==
    /\ api = "idle" /\ paused
    /\ paused' = FALSE
    /\ api' = "resume"
    /\ UNCHANGED <<active, pauseEvt, killEvt, queueEvt, barrier, worker, events, token>>

\* Mutant: resume does not signal the queues.
NoQueueEvents == queueEvt

\* resume: "Signal each activated queue eventfd".
AllQueueEvents == [w \in Workers |-> active]

\* resume: unpark every worker and signal every queue.
ResumeUnpark ==
    /\ api = "resume"
    /\ token' = Unpark
    /\ queueEvt' = AllQueueEvents
    /\ api' = "idle"
    /\ UNCHANGED <<active, paused, pauseEvt, killEvt, barrier, worker, events>>

\* reset and WorkerThreads::drop up to the joins; a reset "may run before
\* activate()".
DeviceReset ==
    /\ api = "idle" /\ (active \/ paused)
    /\ paused' = FALSE
    /\ killEvt' = active
    /\ token' = Unpark
    /\ api' = IF active THEN "join" ELSE "idle"
    /\ UNCHANGED <<active, pauseEvt, queueEvt, barrier, worker, events>>

\* All workers are joined and the eventfds are gone.
Joined ==
    /\ api = "join" /\ \A w \in Workers : worker[w] = "exited"
    /\ active' = FALSE
    /\ killEvt' = FALSE /\ pauseEvt' = FALSE
    /\ queueEvt' = [w \in Workers |-> FALSE]
    /\ token' = [w \in Workers |-> FALSE]
    /\ api' = "idle"
    /\ UNCHANGED <<paused, barrier, worker, events>>

\* activate: new eventfds, and every worker is spawned.
DeviceActivate ==
    /\ api = "idle" /\ ~active
    /\ active' = TRUE
    /\ worker' = [w \in Workers |-> "start"]
    /\ UNCHANGED <<paused, pauseEvt, killEvt, queueEvt, barrier, api, events, token>>

Control == PauseWrite \/ PauseWait \/ ResumeUnpark \/ Joined

PauseNext ==
    \/ \E w \in Workers :
         Worker(w) \/ SpuriousUnpark(w) \/ GuestKick(w) \/ HandlerFails(w)
    \/ PauseSwap \/ ResumeStore \/ DeviceReset \/ DeviceActivate \/ Control

\* Every thread is scheduled.
Fairness == WF_pauseVars(Control) /\ \A w \in Workers : WF_pauseVars(Worker(w))

PauseSpec == PauseInit /\ [][PauseNext]_pauseVars

FairPauseSpec == PauseSpec /\ Fairness
-----------------------------------------------------------------------------
(***************************************************************************)
(* Types, and the barrier holds exactly the threads that wait on it.       *)
(***************************************************************************)
PauseTypeOK ==
    /\ active \in BOOLEAN /\ paused \in BOOLEAN
    /\ pauseEvt \in BOOLEAN /\ killEvt \in BOOLEAN
    /\ queueEvt \in [Workers -> BOOLEAN]
    /\ barrier \in SUBSET (Workers \cup {Api})
    /\ api \in {"idle", "pauseWrite", "pauseWait", "barrier", "resume", "join"}
    /\ worker \in [Workers -> {"start", "startPark", "epoll", "dispatch", "barrier",
                               "check", "park", "drain", "exited"}]
    /\ events \in [Workers -> SUBSET Events]
    /\ token \in [Workers -> BOOLEAN]
    /\ barrier = {w \in Workers : worker[w] = "barrier"}
                   \cup (IF api = "barrier" THEN {Api} ELSE {})

(***************************************************************************)
(* A paused device is quiet: between the return of pause and the next      *)
(* resume no worker is in its event loop, whatever was signalled before    *)
(* ("Wait for all threads to acknowledge the pause before going any        *)
(* further").                                                              *)
(***************************************************************************)
PausedIsQuiet ==
    (paused /\ api = "idle" /\ active) =>
        \A w \in Workers : worker[w] \in {"start", "startPark", "check", "park", "exited"}

\* Some worker ended with an error; it will not come to the barrier.
SomeFailed == active /\ \E w \in Workers : worker[w] = "exited"

(***************************************************************************)
(* A pause returns if every worker was inside its epoll loop when the flag *)
(* was set, busy or not, and none of them fails: no order in which the     *)
(* workers see the shared event, arrive and park leaves pause waiting.     *)
(***************************************************************************)
SettledPauseReturns ==
    (api = "pauseWrite" /\ \A w \in Workers : worker[w] \in {"epoll", "dispatch"})
        ~> (api = "idle" \/ SomeFailed)

(***************************************************************************)
(* A reset returns, also of a paused device: parked workers see the kill   *)
(* event, and no stale pause event sends one to a barrier.                 *)
(***************************************************************************)
ResetReturns == (api = "join") ~> (api = "idle")

(***************************************************************************)
(* After a resume every queue is looked at once more (or its worker fails, *)
(* or the device is paused or reset again): requests that a pause or a     *)
(* restore left in a ring are not forgotten.                               *)
(***************************************************************************)
ResumedQueuesRun ==
    \A w \in Workers :
        (api = "resume" /\ active) ~>
            \/ worker[w] = "dispatch" /\ "queue" \in events[w]
            \/ worker[w] = "exited" \/ paused \/ api = "join"
=============================================================================
