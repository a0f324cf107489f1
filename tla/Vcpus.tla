------------------------------- MODULE Vcpus --------------------------------
(***************************************************************************)
(* The vCPU threads and who stops them: the run loop of a vCPU thread, the *)
(* CpuManager operations that pause, resume, kick, resize and end the      *)
(* threads, the ACPI CPU hotplug device through which the guest ejects a   *)
(* vCPU (vmm/src/cpu.rs), and the thread that throttles the vCPUs of a VM  *)
(* that does not converge during a live migration                          *)
(* (vmm/src/vcpu_throttling.rs).                                           *)
(*                                                                         *)
(* Two threads call the CpuManager: the owner of the Vm (the VMM's control *)
(* loop, or the migration worker that borrowed the Vm) and the throttle    *)
(* thread.  The CpuManager's mutex is held for a whole operation, the      *)
(* mutex of vcpu_states for parts of it; the hotplug device takes the      *)
(* second from a vCPU thread.                                              *)
(*                                                                         *)
(* Left out: the flags inserting and removing, which only the guest reads; *)
(* the length of throttling phases; the guest's state.                     *)
(***************************************************************************)
EXTENDS Naturals, Sequences, FiniteSets

CONSTANTS MaxVcpus,    \* config.max_vcpus
          BootVcpus,   \* vCPUs active at first
          Ejectors,    \* vCPUs on which the guest uses the hotplug device
          MaxThrottle, \* bound on throttle commands in the channel
          MaxRare      \* bound on resizes, NMIs and vCPUs that stop on their own

ASSUME VcpuAssumption ==
    /\ MaxVcpus \in Nat /\ BootVcpus \in 1..MaxVcpus
    /\ Ejectors \subseteq 0..(MaxVcpus - 1)
    /\ {MaxThrottle, MaxRare} \subseteq Nat

Cpus == 0..(MaxVcpus - 1)
Callers == {"owner", "throttle"}
None == "none"

VARIABLES
    sig,      \* vcpus_pause_signalled, vcpus_kick_signalled, vcpus_kill_signalled
    cpu,      \* cpu[i]: the VcpuState of i, its thread and its kvm_run
    states,   \* who holds the mutex of vcpu_states
    manager,  \* who holds the mutex of the CpuManager
    call,     \* call[c]: the CpuManager operation c is in
    throttle, \* where the throttle thread is
    cmds,     \* the commands sent to it
    vm,       \* VmState
    mig,      \* how far the migration worker is, and initial_vm_state
    late,     \* history: an operation failed (timeout, or a failed notification)
    rare      \* resizes, NMIs and vCPUs that stopped, up to now

vars == <<sig, cpu, states, manager, call, throttle, cmds, vm, mig, late, rare>>

Idle == [op |-> None, at |-> "idle", i |-> 0]
Flags == [pause : BOOLEAN, kick : BOOLEAN, kill : BOOLEAN]

Fresh == [pc |-> "off", active |-> FALSE, kill |-> FALSE, pending |-> FALSE,
          paused |-> FALSE, intr |-> FALSE, imm |-> FALSE, token |-> FALSE,
          target |-> 0]

\* VcpuState::active, and the number of active vCPUs.
Active == {i \in Cpus : cpu[i].active}
active_vcpus == Cardinality(Active)

\* A thread that start_vcpu spawned and the barrier released.
Started(s) == [s EXCEPT !.active = TRUE, !.pc = "top", !.token = FALSE]

\* start_boot_vcpus of a new Vm, start_restored_vcpus of a restored one.
Init ==
    /\ vm \in {"Running", "Paused"}
    /\ sig = [pause |-> vm = "Paused", kick |-> FALSE, kill |-> FALSE]
    /\ cpu = [i \in Cpus |-> IF i < BootVcpus THEN Started(Fresh) ELSE Fresh]
    /\ states = None /\ manager = None
    /\ call = [c \in Callers |-> Idle]
    /\ throttle = "wait" /\ cmds = <<>>
    /\ mig = [at |-> "no", initial |-> vm]
    /\ late = FALSE /\ rare = 0
-----------------------------------------------------------------------------
(***************************************************************************)
(* The vCPU thread: the loop of start_vcpu.                                *)
(***************************************************************************)
ThreadOnly == UNCHANGED <<sig, manager, call, throttle, cmds, vm, mig, late>>

Killed(i) == sig.kill \/ cpu[i].kill

\* The kick flag, the kill flags, and vcpu.run().  A flag that is set after its
\* load is followed by a signal, which ends the run.
Enter(i, s) ==
    [s EXCEPT !.intr = @ \/ sig.kick \/ Killed(i),
              !.pc = IF Killed(i) THEN "exited" ELSE "guest"]

\* "If we are being told to pause": the run with immediate_exit, then the ACK.
Top(i) ==
    /\ cpu[i].pc = "top"
    /\ cpu' = [cpu EXCEPT ![i] =
          IF sig.pause THEN [@ EXCEPT !.imm = FALSE, !.intr = TRUE, !.pc = "acked"]
                       ELSE Enter(i, @)]
    /\ ThreadOnly /\ UNCHANGED <<states, rare>>

\* That run ended in another way than Ignore: the loop ends without an ACK.
TopFails(i) ==
    /\ cpu[i].pc = "top" /\ sig.pause /\ rare < MaxRare
    /\ cpu' = [cpu EXCEPT ![i].imm = TRUE, ![i].pc = "exited"]
    /\ rare' = rare + 1
    /\ ThreadOnly /\ UNCHANGED states

SetPaused(i) ==
    /\ cpu[i].pc = "acked"
    /\ cpu' = [cpu EXCEPT ![i].paused = TRUE, ![i].pc = "park"]
    /\ ThreadOnly /\ UNCHANGED <<states, rare>>

\* Mutant: `if` for `while`, an unparked thread does not look at the flag again.
ParksOnce(i) ==
    /\ cpu[i].pc = "park" \/ (cpu[i].pc = "parked" /\ cpu[i].token)
    /\ cpu' = [cpu EXCEPT ![i] =
          IF sig.pause /\ @.pc = "park" THEN [@ EXCEPT !.pc = "parked"]
          ELSE Enter(i, [@ EXCEPT !.token = FALSE, !.paused = FALSE, !.intr = FALSE])]
    /\ ThreadOnly /\ UNCHANGED <<states, rare>>

\* The loop `while vcpus_pause_signalled { park() }`, and the stores after it.
\* No pause begins before the resume that cleared the flag has seen paused
\* cleared, so the load and the stores are one step.
Park(i) ==
    /\ \/ cpu[i].pc = "park"
       \/ cpu[i].pc = "parked" /\ cpu[i].token
    /\ LET s == [cpu[i] EXCEPT !.token = @ /\ cpu[i].pc = "park"]
       IN cpu' = [cpu EXCEPT ![i] =
             IF sig.pause THEN [s EXCEPT !.pc = "parked"]
             ELSE Enter(i, [s EXCEPT !.paused = FALSE, !.intr = FALSE])]
    /\ ThreadOnly /\ UNCHANGED <<states, rare>>

\* run() returned Ok(Ignore): EINTR clears immediate_exit; "We've been told to terminate".
RunReturned(i, s) ==
    IF Killed(i) THEN [s EXCEPT !.intr = TRUE, !.pc = "exited"]
                 ELSE [s EXCEPT !.pc = "top"]

\* The run is interrupted by the signal.
Interrupted(i) ==
    /\ cpu[i].pc = "guest" /\ cpu[i].imm
    /\ cpu' = [cpu EXCEPT ![i] = RunReturned(i, [@ EXCEPT !.imm = FALSE])]
    /\ ThreadOnly /\ UNCHANGED <<states, rare>>

\* Any other exit that needs nothing of this module.
GuestExit(i) ==
    /\ cpu[i].pc = "guest"
    /\ cpu' = [cpu EXCEPT ![i] = RunReturned(i, @)]
    /\ ThreadOnly /\ UNCHANGED <<states, rare>>

\* VmExit::Reset, VmExit::Shutdown, an error of run() and a panic end the loop.
GuestStop(i) ==
    /\ cpu[i].pc = "guest" /\ rare < MaxRare
    /\ cpu' = [cpu EXCEPT ![i].intr = TRUE, ![i].pc = "exited"]
    /\ rare' = rare + 1
    /\ ThreadOnly /\ UNCHANGED states
-----------------------------------------------------------------------------
(***************************************************************************)
(* The ACPI CPU hotplug device, used by a vCPU in an MMIO exit.  An        *)
(* ejecting vCPU is not the one it ejects: the guest takes a vCPU offline  *)
(* first.                                                                  *)
(***************************************************************************)
\* The thread waits for the mutex of vcpu_states.
Access(i) ==
    /\ cpu[i].pc = "guest" /\ i \in Ejectors
    /\ cpu' = [cpu EXCEPT ![i].pc = "access"]
    /\ ThreadOnly /\ UNCHANGED <<states, rare>>

\* read, and a write that ejects nothing.
AccessDone(i) ==
    /\ cpu[i].pc = "access" /\ states = None
    /\ cpu' = [cpu EXCEPT ![i] = RunReturned(i, @)]
    /\ ThreadOnly /\ UNCHANGED <<states, rare>>

\* Only the VMM decides which vCPUs leave, and never vCPU 0.
MayEject(j) == j # 0 /\ cpu[j].pending

\* signal_thread: the handler sets immediate_exit.
Signalled(s) == [s EXCEPT !.imm = @ \/ (s.active /\ s.pc # "exited")]

\* wait_until_signal_acknowledged gives up after 1000 ms: it does so for a
\* vCPU that waits for the mutex its caller holds, or has ended without an
\* ACK.  Any other is faster.
Blocked(j) == cpu[j].pc = "access"
TimesOut(j) ==
    /\ cpu[j].active /\ ~cpu[j].intr /\ (Blocked(j) \/ cpu[j].pc = "exited")
    /\ late' = TRUE

\* write with CPU_EJECT_FLAG: remove_vcpu up to the wait for the ACK.
Eject(i, j) ==
    /\ cpu[i].pc = "access" /\ states = None /\ i # j /\ MayEject(j)
    /\ states' = "vcpu"
    /\ cpu' = [cpu EXCEPT ![i].pc = "ejAck", ![i].target = j,
                          ![j] = Signalled([@ EXCEPT !.kill = TRUE])]
    /\ ThreadOnly /\ UNCHANGED rare

EjectAcked(i) ==
    /\ cpu[i].pc = "ejAck" /\ cpu[cpu[i].target].intr
    /\ cpu' = [cpu EXCEPT ![i].pc = "ejJoin"]
    /\ ThreadOnly /\ UNCHANGED <<states, rare>>

\* remove_vcpu returns the error at once.
EjectTimeout(i) ==
    /\ cpu[i].pc = "ejAck" /\ TimesOut(cpu[i].target)
    /\ cpu' = [cpu EXCEPT ![i] = RunReturned(i, @)]
    /\ states' = None
    /\ UNCHANGED <<sig, manager, call, throttle, cmds, vm, mig, rare>>

\* join_thread, and the flags are cleared for the next use of the vCPU.
EjectJoined(i) ==
    LET j == cpu[i].target
    IN /\ cpu[i].pc = "ejJoin" /\ cpu[j].pc = "exited"
       /\ cpu' = [cpu EXCEPT ![i] = RunReturned(i, @),
                             ![j].active = FALSE, ![j].pc = "off",
                             ![j].kill = FALSE, ![j].pending = FALSE]
       /\ states' = None
       /\ ThreadOnly /\ UNCHANGED rare
-----------------------------------------------------------------------------
(***************************************************************************)
(* The operations of the CpuManager, for caller c.                         *)
(***************************************************************************)
ManagerOnly == UNCHANGED <<throttle, cmds, rare>>

\* The caller waits for the CpuManager's mutex.
Begin(c, op) == call' = [call EXCEPT ![c] = [op |-> op, at |-> "lock", i |-> 0]]

At(c, at) == call[c].at = at
Goto(c, at, i) == call' = [call EXCEPT ![c].at = at, ![c].i = i]

\* The stores each operation begins with.
FlagsOf(op) ==
    CASE op = "pause"    -> [sig EXCEPT !.pause = TRUE]
      [] op = "resume"   -> [sig EXCEPT !.pause = FALSE]
      [] op = "nmi"      -> [sig EXCEPT !.kick = TRUE]
      [] op = "shutdown" -> [sig EXCEPT !.kill = TRUE, !.pause = FALSE]

Locked(c) ==
    /\ At(c, "lock") /\ call[c].op # "resize" /\ manager = None
    /\ manager' = c
    /\ sig' = FlagsOf(call[c].op)
    /\ Goto(c, IF call[c].op \in {"resume", "shutdown"} THEN "unpark" ELSE "signal", 0)
    /\ ManagerOnly /\ UNCHANGED <<cpu, states, vm, mig, late>>

\* unpark_thread for all; resume keeps the mutex for its second loop.
UnparkAll(c) ==
    /\ At(c, "unpark") /\ states = None
    /\ cpu' = [i \in Cpus |-> IF cpu[i].active THEN [cpu[i] EXCEPT !.token = TRUE] ELSE cpu[i]]
    /\ IF call[c].op = "resume"
       THEN Goto(c, "resumed", 0) /\ states' = c
       ELSE Goto(c, "signal", 0) /\ states' = states
    /\ ManagerOnly /\ UNCHANGED <<sig, manager, vm, mig, late>>

\* signal_vcpus, first loop; the signals do not depend on each other.
SignalAll(c) ==
    /\ At(c, "signal") /\ states = None
    /\ cpu' = [i \in Cpus |-> Signalled(cpu[i])]
    /\ Goto(c, "ack", 0)
    /\ ManagerOnly /\ UNCHANGED <<sig, states, manager, vm, mig, late>>

\* signal_vcpus, second loop: the mutex is taken for each wait and kept during it.
AckLock(c) ==
    /\ At(c, "ack") /\ states = None
    /\ states' = c
    /\ Goto(c, "acking", call[c].i)
    /\ ManagerOnly /\ UNCHANGED <<sig, cpu, manager, vm, mig, late>>

\* What signal_vcpus is followed by, once vCPU i acknowledged.
AfterAck(c) ==
    IF call[c].i + 1 \in Cpus THEN Goto(c, "ack", call[c].i + 1)
    ELSE Goto(c, CASE call[c].op = "pause" -> "notify"
                   [] call[c].op = "nmi" -> "unkick"
                   [] call[c].op = "shutdown" -> "join", 0)

Acked(c) ==
    /\ At(c, "acking") /\ (cpu[call[c].i].active => cpu[call[c].i].intr)
    /\ AfterAck(c)
    /\ states' = None
    /\ ManagerOnly /\ UNCHANGED <<sig, cpu, manager, vm, mig, late>>

\* The signal is sent again every 10 ms.
AckRetry(c) ==
    /\ At(c, "acking") /\ cpu[call[c].i].active /\ ~cpu[call[c].i].intr
    /\ cpu' = [cpu EXCEPT ![call[c].i] = Signalled(@)]
    /\ ManagerOnly /\ UNCHANGED <<sig, states, manager, call, vm, mig, late>>

\* The operation of c ends: what Vm::pause, resume and shutdown set, or the
\* next step of the throttle thread.
Finish(c) ==
    /\ manager' = None
    /\ call' = [call EXCEPT ![c] = Idle]
    /\ IF c = "owner"
       THEN /\ vm' = CASE call[c].op = "pause" -> "Paused"
                       [] call[c].op = "resume" -> "Running"
                       [] call[c].op = "shutdown" -> "Shutdown"
                       [] OTHER -> vm
            /\ mig' = IF mig.at = "failed" THEN [mig EXCEPT !.at = "no"] ELSE mig
            /\ UNCHANGED throttle
       ELSE /\ throttle' = CASE throttle = "pause" -> "paused"
                             [] throttle = "resume" -> "resumed"
                             [] throttle = "last" -> "report"
            /\ UNCHANGED <<vm, mig>>

\* The operation of c fails: the flags stay as they are.  The throttle thread
\* unwraps the error and poisons the CpuManager's mutex; an owner that
\* migrates gives the migration up.
Fail(c) ==
    /\ IF c = "owner"
       THEN /\ call' = [call EXCEPT ![c] = Idle]
            /\ manager' = None
            /\ mig' = IF mig.at = "stopping" THEN [mig EXCEPT !.at = "failed"] ELSE mig
            /\ vm' = IF call[c].op = "shutdown" THEN "Dropped" ELSE vm
            /\ UNCHANGED throttle
       ELSE /\ call' = [call EXCEPT ![c].at = "panicked"]
            /\ manager' = "poisoned"
            /\ throttle' = "panicked"
            /\ UNCHANGED <<vm, mig>>

\* Err(SignalAcknowledgeTimeout).
AckTimeout(c) ==
    /\ At(c, "acking") /\ TimesOut(call[c].i)
    /\ states' = None
    /\ Fail(c)
    /\ UNCHANGED <<sig, cpu, cmds, rare>>

\* pause on x86-64 KVM: notify_guest_clock_paused needs the mutex of each
\* Vcpu, which its thread holds during run() and the accesses it handles.
InRun(i) == cpu[i].pc \in {"guest", "access", "ejAck", "ejJoin"}

NotifyPaused(c) ==
    /\ At(c, "notify") /\ ~InRun(call[c].i)
    /\ IF call[c].i + 1 \in Cpus THEN Goto(c, "notify", call[c].i + 1) ELSE Goto(c, "park", 0)
    /\ ManagerOnly /\ UNCHANGED <<sig, cpu, states, manager, vm, mig, late>>

NotifyFails(c) ==
    /\ At(c, "notify") /\ ~InRun(call[c].i) /\ rare < MaxRare
    /\ rare' = rare + 1 /\ late' = TRUE
    /\ Fail(c)
    /\ UNCHANGED <<sig, cpu, states, cmds>>

\* pause: the mutex is taken once for the loop that waits for the paused flags.
ParkLock(c) ==
    /\ At(c, "park") /\ states = None
    /\ states' = c
    /\ Goto(c, "parking", 0)
    /\ ManagerOnly /\ UNCHANGED <<sig, cpu, manager, vm, mig, late>>

\* All active vCPUs have set paused; the loop waits for one after the other.
AllParked == \A i \in Active : cpu[i].paused

Parked(c) ==
    /\ At(c, "parking") /\ AllParked
    /\ states' = None
    /\ Finish(c)
    /\ UNCHANGED <<sig, cpu, cmds, late, rare>>

\* resume: "Step 2/2: wait for state ACK".
Resumed(c) ==
    /\ At(c, "resumed") /\ \A i \in Cpus : ~cpu[i].paused
    /\ states' = None
    /\ Finish(c)
    /\ UNCHANGED <<sig, cpu, cmds, late, rare>>

\* nmi clears the flag only when all vCPUs acknowledged.
Unkick(c) ==
    /\ At(c, "unkick")
    /\ sig' = [sig EXCEPT !.kick = FALSE]
    /\ Finish(c)
    /\ UNCHANGED <<cpu, states, cmds, late, rare>>

\* shutdown keeps the mutex while it joins the threads and drains vcpu_states.
JoinLock(c) ==
    /\ At(c, "join") /\ states = None
    /\ states' = c
    /\ Goto(c, "joining", 0)
    /\ ManagerOnly /\ UNCHANGED <<sig, cpu, manager, vm, mig, late>>

Joined(c) ==
    /\ At(c, "joining") /\ \A i \in Active : cpu[i].pc = "exited"
    /\ cpu' = [i \in Cpus |-> Fresh]
    /\ states' = None
    /\ Finish(c)
    /\ UNCHANGED <<sig, cmds, late, rare>>

check_pending_removed_vcpu == \E i \in Active : cpu[i].pending

\* CpuManager::resize.  An eject can only be under way when a removal is
\* pending, so nothing changes between the locks it takes.
Resize(c, desired) ==
    /\ At(c, "lock") /\ call[c].op = "resize" /\ manager = None /\ states = None
    /\ cpu' = IF check_pending_removed_vcpu THEN cpu
              ELSE [i \in Cpus |->
                      IF i \in active_vcpus..(desired - 1) THEN Started(cpu[i])
                      ELSE IF i \in desired..(active_vcpus - 1)
                           THEN [cpu[i] EXCEPT !.pending = TRUE]
                      ELSE cpu[i]]
    /\ Finish(c)
    /\ UNCHANGED <<sig, states, cmds, late, rare>>
-----------------------------------------------------------------------------
(***************************************************************************)
(* The throttle thread: control_loop and throttle_loop.                    *)
(***************************************************************************)
ThrottleOnly == UNCHANGED <<sig, cpu, states, manager, vm, mig, late, rare>>

\* Mutant: a command that ends throttling is taken without a last resume.
EndsUnresumed == "report"

\* throttle_loop returns after callback_resume_vcpus when it ends while paused.
EndsWhilePaused == "last"

\* Mutant: a reset that finds the thread waiting is not answered.
IgnoresReset == "wait"

\* The control loop answers a reset whether or not it was throttling.
AnswersReset == "report"

\* recv() of the control loop, and recv_timeout at the end of a phase.
Receive ==
    /\ throttle \in {"wait", "paused", "resumed"} /\ cmds # <<>>
    /\ cmds' = Tail(cmds)
    /\ LET next == IF Head(cmds) = "throttle"
                   THEN [wait |-> "pause", paused |-> "resume", resumed |-> "pause"][throttle]
                   ELSE IF throttle = "paused" THEN EndsWhilePaused
                   ELSE IF Head(cmds) = "exit" THEN "exited" ELSE AnswersReset
       IN /\ throttle' = next
          /\ IF next \in {"resume", "last"} THEN Begin("throttle", "resume")
             ELSE IF next = "pause" THEN Begin("throttle", "pause")
             ELSE UNCHANGED call
    /\ ThrottleOnly

\* recv_timeout ran out: the other phase begins.
NextPhase ==
    /\ throttle \in {"paused", "resumed"} /\ cmds = <<>>
    /\ throttle' = IF throttle = "paused" THEN "resume" ELSE "pause"
    /\ Begin("throttle", throttle')
    /\ UNCHANGED cmds
    /\ ThrottleOnly

\* The rendezvous of report.send and recv in ThrottleThreadHandle::reset; the
\* iterations have converged, or failed.
Report ==
    /\ throttle = "report" /\ mig.at = "resetting"
    /\ throttle' = "wait"
    /\ \E at \in {"stopping", "failed"} : mig' = [mig EXCEPT !.at = at]
    /\ UNCHANGED <<sig, cpu, states, manager, call, cmds, vm, late, rare>>
-----------------------------------------------------------------------------
(***************************************************************************)
(* The owner of the Vm: API calls, and a migration.                        *)
(***************************************************************************)
OwnerOnly == UNCHANGED <<sig, cpu, states, manager, throttle, vm, late>>

OwnerIdle == At("owner", "idle") /\ vm \in {"Running", "Paused"}

\* A call of the API, none while the Vm is with the migration worker.
Request(op) ==
    /\ OwnerIdle /\ mig.at = "no"
    /\ op = "pause" => vm = "Running"
    /\ op = "resume" => vm = "Paused"
    /\ IF op \in {"nmi", "resize"} THEN rare < MaxRare /\ rare' = rare + 1 ELSE UNCHANGED rare
    /\ Begin("owner", op)
    /\ OwnerOnly /\ UNCHANGED <<cmds, mig>>

StartMigration ==
    /\ OwnerIdle /\ mig.at = "no"
    /\ mig' = [at |-> "iterating", initial |-> vm]
    /\ OwnerOnly /\ UNCHANGED <<call, cmds, rare>>

\* do_memory_iterations, from the third iteration on: a paused VM has
\* converged by then, it has no dirty page after the first.
IncreaseThrottle ==
    /\ mig.at = "iterating" /\ vm = "Running" /\ Len(cmds) < MaxThrottle
    /\ throttle # "panicked"
    /\ cmds' = Append(cmds, "throttle")
    /\ OwnerOnly /\ UNCHANGED <<call, mig, rare>>

\* do_memory_migration: reset_vcpu_throttle_thread.
ResetThrottle ==
    /\ mig.at = "iterating" /\ throttle # "panicked"
    /\ cmds' = Append(cmds, "reset")
    /\ mig' = [mig EXCEPT !.at = "resetting"]
    /\ OwnerOnly /\ UNCHANGED <<call, rare>>

\* send or recv on the channel of a throttle thread that panicked.
OwnerPanics ==
    /\ OwnerIdle /\ mig.at \in {"iterating", "resetting"} /\ throttle = "panicked"
    /\ call' = [call EXCEPT !["owner"].at = "panicked"]
    /\ OwnerOnly /\ UNCHANGED <<cmds, mig, rare>>

\* "Skip if already paused"; the transfer then succeeds, and the source ends,
\* or fails, and check_migration resumes a VM that was running.
StopForMigration ==
    /\ OwnerIdle /\ mig.at = "stopping" /\ vm = "Running"
    /\ Begin("owner", "pause")
    /\ OwnerOnly /\ UNCHANGED <<cmds, mig, rare>>

EndMigration ==
    /\ OwnerIdle
    /\ \/ /\ mig.at = "stopping" /\ vm = "Paused"
          /\ \/ Begin("owner", "shutdown") /\ UNCHANGED mig
             \/ mig' = [mig EXCEPT !.at = "failed"] /\ UNCHANGED call
       \/ /\ mig.at = "failed"
          /\ IF mig.initial = "Running" /\ vm = "Paused"
             THEN Begin("owner", "resume") /\ UNCHANGED mig
             ELSE mig' = [mig EXCEPT !.at = "no"] /\ UNCHANGED call
    /\ OwnerOnly /\ UNCHANGED <<cmds, rare>>

\* The Vm is dropped: ThrottleThreadHandle::shutdown.
DropVm ==
    /\ At("owner", "idle") /\ vm = "Shutdown" /\ throttle = "wait" /\ cmds = <<>>
    /\ vm' = "Dropped"
    /\ cmds' = Append(cmds, "exit")
    /\ UNCHANGED <<sig, cpu, states, manager, call, throttle, mig, late, rare>>
-----------------------------------------------------------------------------
VcpuStep(i) ==
    \/ Top(i) \/ SetPaused(i) \/ Park(i) \/ Interrupted(i)
    \/ AccessDone(i)
    \/ EjectAcked(i) \/ EjectTimeout(i) \/ EjectJoined(i)

GuestStep(i) ==
    \/ TopFails(i) \/ GuestExit(i) \/ GuestStop(i) \/ Access(i)
    \/ \E j \in Cpus : Eject(i, j)

CallStep(c) ==
    \/ Locked(c) \/ UnparkAll(c) \/ SignalAll(c) \/ AckLock(c) \/ Acked(c) \/ AckTimeout(c)
    \/ NotifyPaused(c)
    \/ ParkLock(c) \/ Parked(c) \/ Resumed(c) \/ Unkick(c) \/ JoinLock(c) \/ Joined(c)
    \/ \E desired \in 1..MaxVcpus : Resize(c, desired)

Next ==
    \/ \E i \in Cpus : VcpuStep(i) \/ GuestStep(i)
    \/ \E c \in Callers : CallStep(c) \/ AckRetry(c) \/ NotifyFails(c)
    \/ Receive \/ NextPhase \/ Report
    \/ \E op \in {"pause", "resume", "nmi", "resize", "shutdown"} : Request(op)
    \/ StartMigration \/ IncreaseThrottle \/ ResetThrottle \/ OwnerPanics
    \/ StopForMigration \/ EndMigration \/ DropVm

Spec == Init /\ [][Next]_vars

(***************************************************************************)
(* Fairness: every thread runs; mutexes are handed over; a sleep ends.     *)
(* Nothing is assumed of the guest, of a slow vCPU, or of the API's        *)
(* callers.                                                                *)
(***************************************************************************)
FairSpec ==
    /\ Spec
    /\ \A i \in Cpus : WF_vars(VcpuStep(i))
    /\ \A c \in Callers : WF_vars(CallStep(c))
    /\ WF_vars(Receive) /\ WF_vars(Report) /\ WF_vars(OwnerPanics)
-----------------------------------------------------------------------------
VcpuStates ==
    [pc : {"off", "top", "acked", "park", "parked", "guest", "access",
           "ejAck", "ejJoin", "exited"},
     active : BOOLEAN, kill : BOOLEAN, pending : BOOLEAN, paused : BOOLEAN,
     intr : BOOLEAN, imm : BOOLEAN, token : BOOLEAN, target : Cpus]

TypeOK ==
    /\ sig \in Flags /\ cpu \in [Cpus -> VcpuStates]
    /\ states \in Callers \cup {None, "vcpu"}
    /\ manager \in Callers \cup {None, "poisoned"}
    /\ call \in [Callers ->
          [op : {None, "pause", "resume", "nmi", "resize", "shutdown"},
           at : {"idle", "lock", "unpark", "signal", "ack", "acking", "notify", "park",
                 "parking", "resumed", "unkick", "join", "joining", "panicked"},
           i : Cpus]]
    /\ throttle \in {"wait", "pause", "paused", "resume", "resumed", "last",
                     "report", "exited", "panicked"}
    /\ cmds \in Seq({"throttle", "reset", "exit"})
    /\ vm \in {"Running", "Paused", "Shutdown", "Dropped"}
    /\ mig \in [at : {"no", "iterating", "resetting", "stopping", "failed"},
               initial : {"Running", "Paused"}]
    /\ late \in BOOLEAN /\ rare \in 0..MaxRare

(***************************************************************************)
(* Once Vm::pause has returned, and for as long as the VM is Paused, no    *)
(* vCPU runs: not one whose ACK was left over from an NMI or an earlier    *)
(* life, not one that was plugged in meanwhile, and not one the throttle   *)
(* thread resumes late.  Snapshots and the last memory transfer read the   *)
(* guest's state in this situation.                                        *)
(***************************************************************************)
PausedMeansParked ==
    vm = "Paused" /\ At("owner", "idle") => \A i \in Cpus : ~InRun(i)

(***************************************************************************)
(* A VM that is Running and neither migrates nor is being paused is not    *)
(* held back: the pause flag is clear, whatever the throttle thread and    *)
(* earlier migrations did.  The exception is a pause that failed: it       *)
(* leaves the flag set with VmState Running, and check_migration resumes   *)
(* only a Paused VM.                                                       *)
(***************************************************************************)
NotLeftPaused ==
    (vm = "Running" /\ At("owner", "idle") /\ mig.at = "no" /\ ~late)
        => ~sig.pause /\ ~sig.kick

\* A thread left its loop on its own, or after an eject that timed out: its
\* handle is still there, and nobody joins it.
Gone(i) == cpu[i].active /\ cpu[i].pc = "exited" /\ ~sig.kill /\ states # "vcpu"

\* An eject waits for a thread that a concurrent pause has parked.
EjectJam == \E i \in Cpus : cpu[i].pc = "ejJoin" /\ cpu[cpu[i].target].paused

\* shutdown took an ACK left over from an NMI or an earlier life for a new one,
\* and now joins, with the mutex, a thread that waits for the mutex.
StaleAckJam ==
    At("owner", "joining") /\ \E i \in Active : Blocked(i)

(***************************************************************************)
(* Every operation on the vCPUs returns, and so does the reset of the      *)
(* throttle thread.  The exceptions: a vCPU thread that left its loop is   *)
(* still active and never sets paused; an eject under way (EjectJam); a    *)
(* shutdown after an ACK left over from an NMI (StaleAckJam).              *)
(***************************************************************************)
OwnerReturns ==
    (~At("owner", "idle") \/ mig.at = "resetting")
        ~> \/ At("owner", "idle") /\ mig.at # "resetting"
           \/ At("owner", "panicked")
           \/ EjectJam \/ StaleAckJam \/ \E i \in Cpus : Gone(i)
=============================================================================
