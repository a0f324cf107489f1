------------------------------ MODULE VirtioPci -----------------------------
(***************************************************************************)
(* A virtio device behind its PCI transport                                *)
(* (virtio-devices/src/transport/pci_device.rs): a guest driver resets the *)
(* device, sets its queues up and writes DRIVER_OK from a vCPU thread; the *)
(* VMM's control loop, or the thread that pauses the VM, activates the     *)
(* device, and the vCPU waits for that at a barrier.                       *)
(*                                                                         *)
(* The vCPUs are those of module Vcpus, cut down to what a pause needs of  *)
(* them; what the device's workers do is modules VirtioPause and           *)
(* BlockDrain, its interrupts are module Msix.  Left out: feature          *)
(* negotiation, the addresses of the queues, the ISR register, the         *)
(* configuration generation, a device that is removed.                     *)
(***************************************************************************)
EXTENDS Naturals, Sequences

CONSTANTS NVcpus,    \* vCPUs
          MaxInits   \* bound: times a driver sets the queues up

ASSUME VirtioPciAssumption == {NVcpus, MaxInits} \subseteq Nat

Vcpus == 1..NVcpus

VARIABLES
    status,    \* driver_status
    queues,    \* the queues of the latest set-up, 0 when they were reset
    inits,     \* set-ups so far
    activated, \* device_activated
    serving,   \* the queues the device's workers are on, 0 without workers
    half,      \* the queues of an activation that failed half way: some of its
               \* workers may run, and a pause waits for all of them; 0: none
    pending,   \* pending_activations: queues, and the vCPU at the barrier (0: none)
    evt,       \* activate_evt is signalled
    act,       \* who holds the device manager and activates, and the activator
    vcpu,      \* "run", "barrier" or "parked"
    flag,      \* vcpus_pause_signalled
    pause,     \* Vm::pause: on which thread, and how far
    state,     \* VmState
    raced,     \* history: the driver reset the device with an activator under way
    alone      \* history: an activator's vCPU did not get the barrier

dev == <<status, queues, inits, activated, serving, half>>
vars == <<dev, pending, evt, act, vcpu, flag, pause, state, raced, alone>>

NoAct == [who |-> "none", at |-> "idle", q |-> 0, by |-> 0]
NoPause == [who |-> "none", at |-> "idle"]

Init ==
    /\ status = "init" /\ queues = 0 /\ inits = 0 /\ activated = FALSE /\ serving = 0
    /\ half = 0 /\ pending = <<>> /\ evt = FALSE /\ act = NoAct
    /\ vcpu = [v \in Vcpus |-> "run"] /\ flag = FALSE /\ pause = NoPause
    /\ state = "Running" /\ raced = FALSE /\ alone = FALSE
-----------------------------------------------------------------------------
(***************************************************************************)
(* The guest driver, on a vCPU.                                            *)
(***************************************************************************)
\* A driver acknowledges the device and sets its queues up.
SetUp(v) ==
    /\ vcpu[v] = "run" /\ status = "init" /\ inits < MaxInits
    /\ status' = "setup" /\ inits' = inits + 1 /\ queues' = inits'
    /\ UNCHANGED <<activated, serving, half, pending, evt, act, vcpu, flag, pause, state,
                   raced, alone>>

\* needs_activation, when DRIVER_OK was written.
needs_activation == ~activated

\* Whether the vCPU gets the barrier to wait at: a write through the ECAM window
\* of the configuration space does not.
GetsBarrier(window) == ~window

\* write_bar of DRIVER_OK.  An activator takes the queues and goes to
\* pending_activations, which an activation under way has locked.
DriverOk(v, window) ==
    /\ vcpu[v] = "run" /\ status = "setup"
    /\ status' = "ok"
    /\ IF needs_activation
       THEN /\ act.who = "none"
            /\ pending' = Append(pending, [q |-> queues,
                                           by |-> IF GetsBarrier(window) THEN v ELSE 0])
            /\ evt' = TRUE
            /\ vcpu' = IF GetsBarrier(window) THEN [vcpu EXCEPT ![v] = "barrier"] ELSE vcpu
            /\ alone' = (alone \/ window)
       ELSE UNCHANGED <<pending, evt, vcpu, alone>>
    /\ UNCHANGED <<queues, inits, activated, serving, half, act, flag, pause, state, raced>>

\* write_bar of 0 to the status: the device is reset, which joins its workers, if
\* it was activated (a half activated one is not); the queues and the common
\* configuration always are.
LeavesDeviceOn == FALSE  \* mutant of ResetsDevice
ResetsDevice == activated

Reset(v) ==
    /\ vcpu[v] = "run" /\ (status # "init" \/ activated)
    /\ status' = "init" /\ queues' = 0
    /\ activated' = FALSE
    /\ serving' = IF ResetsDevice THEN 0 ELSE serving
    /\ half' = IF ResetsDevice THEN 0 ELSE half
    /\ raced' = (pending # <<>> \/ act.at \in {"activate", "store"})
    /\ UNCHANGED <<inits, pending, evt, act, vcpu, flag, pause, state, alone>>

\* A worker finds a corrupted request: mark_device_needs_reset.
NeedsReset ==
    /\ (serving # 0 \/ half # 0) /\ status = "ok"
    /\ status' = "needs_reset"
    /\ UNCHANGED <<queues, inits, activated, serving, half, pending, evt, act, vcpu, flag,
                   pause, state, raced, alone>>

\* A vCPU comes back from the guest and parks.
Park(v) ==
    /\ flag /\ vcpu[v] = "run"
    /\ vcpu' = [vcpu EXCEPT ![v] = "parked"]
    /\ UNCHANGED <<dev, pending, evt, act, flag, pause, state, raced, alone>>
-----------------------------------------------------------------------------
(***************************************************************************)
(* activate_virtio_devices, with the device manager and                    *)
(* pending_activations locked.                                             *)
(***************************************************************************)
\* The next activator, or the end.
NextActivator(who, rest) ==
    IF rest = <<>> THEN NoAct
    ELSE [who |-> who, at |-> "activate", q |-> Head(rest).q, by |-> Head(rest).by]
Rest(s) == IF s = <<>> THEN s ELSE Tail(s)

Begin(who) ==
    /\ act.who = "none"
    /\ act' = NextActivator(who, pending) /\ pending' = Rest(pending)

\* The barrier is released also when the activation failed.
SkipsBarrier == NoAct  \* mutant of AfterFailure
AfterFailure == [act EXCEPT !.at = "barrier"]

\* VirtioDevice::activate.  What a failure leaves: the device as it was, when
\* VirtioCommon::activate fails before it replaces the workers; no workers, when
\* one cannot be spawned, which resets the device; or, when anything else fails for
\* a queue, the workers of the queues before it.
Failure ==
    \/ UNCHANGED <<serving, half>>
    \/ serving' = 0 /\ half' \in {0, act.q}

\* The device takes the queues of the activator; workers it had are replaced.
Activate ==
    /\ act.at = "activate"
    /\ \/ /\ serving' = act.q /\ half' = 0
          /\ act' = [act EXCEPT !.at = "store"] /\ UNCHANGED status
       \/ /\ Failure
          /\ status' = IF status = "ok" THEN "needs_reset" ELSE status
          /\ act' = AfterFailure
    /\ UNCHANGED <<queues, inits, activated, pending, evt, vcpu, flag, pause, state, raced, alone>>

\* device_activated is set when the device is no longer locked.
Store ==
    /\ act.at = "store"
    /\ activated' = TRUE
    /\ act' = [act EXCEPT !.at = "barrier"]
    /\ UNCHANGED <<status, queues, inits, serving, half, pending, evt, vcpu, flag, pause,
                   state, raced, alone>>

\* The activator and the vCPU meet at the barrier.
Meet ==
    /\ act.at = "barrier" /\ act.by # 0 /\ vcpu[act.by] = "barrier"
    /\ vcpu' = [vcpu EXCEPT ![act.by] = "run"]
    /\ act' = NextActivator(act.who, pending) /\ pending' = Rest(pending)
    /\ UNCHANGED <<dev, evt, flag, pause, state, raced, alone>>

ActivateStep == Activate \/ Store \/ Meet

\* The control loop: EpollDispatch::ActivateVirtioDevices.
LoopActivates ==
    /\ evt /\ pause.who # "loop"
    /\ evt' = FALSE
    /\ Begin("loop")
    /\ UNCHANGED <<dev, vcpu, flag, pause, state, raced, alone>>
-----------------------------------------------------------------------------
(***************************************************************************)
(* Vm::pause, by the control loop or a migration worker, and Vm::resume.   *)
(***************************************************************************)
PauseBegins(who) ==
    /\ pause.who = "none" /\ state = "Running"
    /\ who = "loop" => act.who = "none"
    /\ pause' = [who |-> who, at |-> "activate"]
    /\ UNCHANGED <<dev, pending, evt, act, vcpu, flag, state, raced, alone>>

\* Pending devices are activated first.
PauseActivates ==
    /\ pause.at = "activate" /\ Begin("pause")
    /\ pause' = [pause EXCEPT !.at = "kick"]
    /\ UNCHANGED <<dev, evt, vcpu, flag, state, raced, alone>>

PauseKicks ==
    /\ pause.at = "kick" /\ act.who # "pause"
    /\ flag' = TRUE
    /\ pause' = [pause EXCEPT !.at = "wait"]
    /\ UNCHANGED <<dev, pending, evt, act, vcpu, state, raced, alone>>

\* The vCPUs are parked; the device manager is locked to pause the devices.  The
\* pause of a half activated device waits for ever at the barrier of its workers.
LetsBarrierPass == \A v \in Vcpus : vcpu[v] # "run"  \* mutant of AllParked
AllParked == \A v \in Vcpus : vcpu[v] = "parked"

Paused ==
    /\ pause.at = "wait" /\ AllParked /\ act.who = "none" /\ half = 0
    /\ pause' = NoPause /\ state' = "Paused"
    /\ UNCHANGED <<dev, pending, evt, act, vcpu, flag, raced, alone>>

\* A vCPU at the barrier does not answer the signal in time: the pause fails, the
\* vCPUs stay signalled.
PauseTimesOut ==
    /\ pause.at = "wait" /\ \E v \in Vcpus : vcpu[v] = "barrier"
    /\ pause' = NoPause
    /\ UNCHANGED <<dev, pending, evt, act, vcpu, flag, state, raced, alone>>

Resume ==
    /\ state = "Paused" /\ pause.who = "none" /\ act.who # "loop"
    /\ state' = "Running" /\ flag' = FALSE /\ vcpu' = [v \in Vcpus |-> "run"]
    /\ UNCHANGED <<dev, pending, evt, act, pause, raced, alone>>

\* The VM is restored from a snapshot in another VMM and resumed: what is
\* pending is not part of it.  VirtioPciDevice::new activates the device.
Restore ==
    /\ state = "Paused" /\ act.who = "none"
    /\ serving' = IF activated /\ status = "ok" THEN queues ELSE 0
    /\ half' = 0 /\ pending' = <<>> /\ evt' = FALSE
    /\ state' = "Running" /\ flag' = FALSE /\ vcpu' = [v \in Vcpus |-> "run"]
    /\ UNCHANGED <<status, queues, inits, activated, act, pause, raced, alone>>
-----------------------------------------------------------------------------
Next ==
    \/ \E v \in Vcpus : SetUp(v) \/ Reset(v) \/ Park(v) \/ \E w \in BOOLEAN : DriverOk(v, w)
    \/ NeedsReset \/ ActivateStep \/ LoopActivates
    \/ \E who \in {"loop", "worker"} : PauseBegins(who)
    \/ PauseActivates \/ PauseKicks \/ Paused \/ PauseTimesOut \/ Resume \/ Restore

Spec == Init /\ [][Next]_vars

\* The threads of the VMM go on, and a vCPU that is signalled parks.
FairSpec ==
    /\ Spec
    /\ WF_vars(ActivateStep) /\ WF_vars(LoopActivates) /\ WF_vars(PauseActivates)
    /\ WF_vars(PauseKicks) /\ WF_vars(Paused) /\ WF_vars(PauseTimesOut)
    /\ \A v \in Vcpus : WF_vars(Park(v))
-----------------------------------------------------------------------------
(***************************************************************************)
(* Properties.                                                             *)
(***************************************************************************)
TypeOK ==
    /\ status \in {"init", "setup", "ok", "needs_reset"}
    /\ queues \in 0..MaxInits /\ inits \in 0..MaxInits /\ serving \in 0..MaxInits
    /\ half \in 0..MaxInits
    /\ activated \in BOOLEAN /\ evt \in BOOLEAN /\ flag \in BOOLEAN
    /\ raced \in BOOLEAN /\ alone \in BOOLEAN
    /\ pending \in Seq([q : 1..MaxInits, by : {0} \cup Vcpus])
    /\ act \in [who : {"none", "loop", "pause"}, at : {"idle", "activate", "store", "barrier"},
                q : 0..MaxInits, by : {0} \cup Vcpus]
    /\ vcpu \in [Vcpus -> {"run", "barrier", "parked"}]
    /\ pause \in [who : {"none", "loop", "worker"}, at : {"idle", "activate", "kick", "wait"}]
    /\ state \in {"Running", "Paused"}

\* The device works on the queues that the driver set up last, and on none after
\* a reset - unless the driver reset it from another vCPU while an activator was
\* under way, which then activates the device with the old queues.  The workers
\* that a failed activation left are the other exception: no reset stops them, but
\* they are gone as soon as the device is activated again.
ServesTheDriver ==
    ~raced =>
        /\ serving # 0 => serving = queues /\ status # "init"
        /\ half # 0 => serving = 0 /\ ~activated

\* In a paused VM no activation is outstanding: a snapshot does not have it, and
\* the driver of the restored VM, having written DRIVER_OK, would wait for ever.
\* That needs the vCPU to wait at the barrier.
PausedIsActivated ==
    state = "Paused" /\ status = "ok" /\ ~raced /\ ~alone => serving = queues

\* A driver that wrote DRIVER_OK gets a device that works on its queues or is told
\* to reset it, and its vCPU goes on, also when the VM is paused meanwhile.  Not
\* when the write came through ECAM: the activator then waits for ever.
Outstanding ==
    (status = "ok" /\ serving # queues) \/ \E v \in Vcpus : vcpu[v] = "barrier"

DriverIsServed == Outstanding ~> (~Outstanding \/ raced \/ alone)
=============================================================================
