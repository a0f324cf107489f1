---------------------------- MODULE VcpusProofs -----------------------------
(***************************************************************************)
(* Proofs about Vcpus for every number of vCPUs, every set of ejecting     *)
(* vCPUs, and any number of throttle commands and rare failures: the vCPUs *)
(* of a paused VM do not run, and a running VM is not left with the pause  *)
(* or the kick flag set.                                                   *)
(*                                                                         *)
(* Two callers use the CpuManager, the owner of the VM and the throttle    *)
(* thread of a precopy migration.  The control half of the invariant says  *)
(* who holds which mutex for which operation, how the throttle thread and  *)
(* its commands follow the migration, and what the flags are meanwhile.    *)
(* The other half is about the threads: which of them exist, that those    *)
(* which stay are the first ones, and that none runs in a paused VM.       *)
(***************************************************************************)
EXTENDS Vcpus, FiniteSetTheorems, SequenceTheorems, TLAPS

\* The call of c holds the CpuManager's mutex, for the operation op.
Inside(c) == call[c].at \notin {"idle", "lock", "panicked"}
Doing(c, op) == Inside(c) /\ call[c].op = op

\* What the two callers ask of the CpuManager.
Operations == {"pause", "resume", "nmi", "resize", "shutdown"}

\* Where an operation can be.
Fits(s) ==
    /\ s.at = "idle" => s.op = None
    /\ s.at = "lock" => s.op \in Operations
    /\ s.at = "unpark" => s.op \in {"resume", "shutdown"}
    /\ s.at \in {"signal", "ack", "acking"} => s.op \in {"pause", "nmi", "shutdown"}
    /\ s.at \in {"notify", "park", "parking"} => s.op = "pause"
    /\ s.at = "resumed" => s.op = "resume"
    /\ s.at = "unkick" => s.op = "nmi"
    /\ s.at \in {"join", "joining"} => s.op = "shutdown"

\* Operations are where they can be, and the throttle thread only pauses and
\* resumes.
CallShape ==
    /\ \A c \in Callers : Fits(call[c])
    /\ call["throttle"].op \in {None, "pause", "resume"}

\* Where an operation keeps the mutex of vcpu_states.
Holding == {"acking", "resumed", "parking", "joining"}

\* Who holds which mutex.
LockShape ==
    \A c \in Callers :
       /\ Inside(c) <=> manager = c
       /\ call[c].at \in Holding => states = c

\* What the throttle thread does in the CpuManager.
ThrottleShape ==
    /\ throttle = "pause" =>
          call["throttle"].op = "pause" /\ call["throttle"].at \notin {"idle", "panicked"}
    /\ throttle \in {"resume", "last"} =>
          call["throttle"].op = "resume" /\ call["throttle"].at \notin {"idle", "panicked"}
    /\ throttle \in {"wait", "paused", "resumed", "report", "exited"} => At("throttle", "idle")
    /\ throttle = "panicked" => At("throttle", "panicked")

\* The migration uses the throttle thread, and the places of its loop in which
\* the next command can come.
Throttling == mig.at \in {"iterating", "resetting"}
Turning == {"wait", "pause", "paused", "resume", "resumed"}

\* The throttle thread and its commands follow the migration.
MigrationShape ==
    /\ Throttling => call["owner"].at \in {"idle", "panicked"}
    /\ Throttling \/ ~At("owner", "idle") => vm \in {"Running", "Paused"}
    /\ ~Throttling => /\ throttle = "wait" \/ (throttle = "exited" /\ vm = "Dropped")
                      /\ cmds = <<>> \/ (cmds = <<"exit">> /\ vm = "Dropped")
    /\ mig.at = "iterating" => /\ throttle \in Turning \cup {"panicked"}
                               /\ \A k \in 1..Len(cmds) : cmds[k] = "throttle"
    /\ mig.at = "resetting" =>
          \/ throttle \in {"last", "report"} /\ cmds = <<>>
          \/ throttle = "panicked"
          \/ /\ throttle \in Turning /\ cmds # <<>> /\ cmds[Len(cmds)] = "reset"
             /\ \A k \in 1..(Len(cmds) - 1) : cmds[k] = "throttle"
    /\ vm # "Running" => /\ throttle \in {"wait", "report", "exited"}
                         /\ \A k \in 1..Len(cmds) : cmds[k] # "throttle"

\* The flags are what the operation under way, or the last one, set.
FlagShape ==
    /\ \A c \in Callers :
          /\ Doing(c, "pause") => sig.pause
          /\ Doing(c, "resume") \/ Doing(c, "shutdown") => ~sig.pause
    /\ sig.kick /\ ~late => Doing("owner", "nmi")
    /\ /\ vm = "Running" /\ ~late /\ ~Doing("owner", "pause")
       /\ throttle \in {"wait", "resumed", "report", "exited"}
       => ~sig.pause

\* A thread that is there, parked, or ejects another.
Ejecting(i) == cpu[i].pc \in {"ejAck", "ejJoin"}
ThreadShape ==
    /\ \A i \in Cpus :
          /\ cpu[i].active <=> cpu[i].pc # "off"
          /\ cpu[i].paused => cpu[i].pc \in {"park", "parked"}
          /\ cpu[i].pending => cpu[i].active
          /\ Ejecting(i) => states = "vcpu" /\ cpu[cpu[i].target].pending
    /\ \A i, j \in Cpus : Ejecting(i) /\ Ejecting(j) => i = j

\* The vCPUs that stay are the first ones.
Staying == {i \in Cpus : cpu[i].active /\ ~cpu[i].pending}
StayingAreFirst == \E m \in 0..MaxVcpus : Staying = 0..(m - 1)

\* Nobody but the owner's resume or shutdown lets the vCPUs of a paused VM go.
PauseHolds ==
    vm = "Paused" /\ ~Doing("owner", "resume") /\ ~Doing("owner", "shutdown")
        => sig.pause /\ \A i \in Cpus : ~InRun(i)

(***************************************************************************)
(* The inductive invariant.  PausedMeansParked is PauseHolds without an    *)
(* operation of the owner; it takes LockShape and MigrationShape to know   *)
(* that the throttle thread is not inside a resume when the owner's pause  *)
(* returns, and ThreadShape and StayingAreFirst to know that resize starts *)
(* no second thread for a vCPU that is there.  NotLeftPaused is a case of  *)
(* FlagShape, which takes ThrottleShape for the pauses of the throttle     *)
(* thread.                                                                 *)
(***************************************************************************)
IndInv ==
    /\ TypeOK /\ CallShape /\ LockShape /\ ThrottleShape /\ MigrationShape /\ FlagShape
    /\ ThreadShape /\ StayingAreFirst /\ PauseHolds

\* The parts that the vCPU threads have no say in.
Control == CallShape /\ LockShape /\ ThrottleShape /\ MigrationShape /\ FlagShape

\* TypeOK in four parts.
CallTypes ==
    call \in [Callers ->
       [op : {None} \cup Operations,
        at : {"idle", "lock", "unpark", "signal", "ack", "acking", "notify", "park",
              "parking", "resumed", "unkick", "join", "joining", "panicked"},
        i : Cpus]]
CpuTypes == cpu \in [Cpus -> VcpuStates]
DriverTypes ==
    /\ throttle \in {"wait", "pause", "paused", "resume", "resumed", "last",
                     "report", "exited", "panicked"}
    /\ cmds \in Seq({"throttle", "reset", "exit"})
    /\ vm \in {"Running", "Paused", "Shutdown", "Dropped"}
    /\ mig \in [at : {"no", "iterating", "resetting", "stopping", "failed"},
                initial : {"Running", "Paused"}]
FlagTypes ==
    /\ sig \in Flags /\ states \in Callers \cup {None, "vcpu"}
    /\ manager \in Callers \cup {None, "poisoned"}
    /\ late \in BOOLEAN /\ rare \in 0..MaxRare

(***************************************************************************)
(* TypeOK is the conjunction of the types of the calls, of the threads, of *)
(* their drivers and of the flags.                                         *)
(***************************************************************************)
LEMMA TypeParts == TypeOK <=> CallTypes /\ CpuTypes /\ DriverTypes /\ FlagTypes
  BY DEF TypeOK, CallTypes, CpuTypes, DriverTypes, FlagTypes, Operations

(***************************************************************************)
(* The steps by their effect on all but the threads: a step of a thread,   *)
(* or an operation that moves on, ends or fails.  The others are actions   *)
(* of the owner and of the throttle thread.                                *)
(***************************************************************************)
Aside ==
    /\ UNCHANGED <<sig, manager, call, throttle, cmds, vm, mig>>
    /\ late' = late \/ late' = TRUE
    /\ \/ states' = states
       \/ states = None /\ states' = "vcpu"
       \/ states = "vcpu" /\ states' = None

Moves(c) ==
    /\ Inside(c) /\ call'[c].at \notin {"idle", "lock", "panicked"}
    /\ call'[c].op = call[c].op /\ Fits(call'[c])
    /\ \A d \in Callers : d # c => call'[d] = call[d]
    /\ call'[c].at \in Holding => states' = c
    /\ UNCHANGED <<sig, manager, throttle, cmds, vm, mig, late>>

Finishes(c) ==
    /\ Inside(c) \/ (At(c, "lock") /\ call[c].op = "resize" /\ manager = None)
    /\ Finish(c) /\ (call[c].op = "pause" => Parked(c))
    /\ sig'.pause = sig.pause /\ (sig'.kick => sig.kick /\ call[c].op # "nmi")
    /\ UNCHANGED <<cmds, late>>

Fails(c) ==
    /\ Inside(c) /\ call[c].op \in {"pause", "nmi", "shutdown"} /\ Fail(c)
    /\ late' = TRUE
    /\ UNCHANGED <<sig, cmds>>

(***************************************************************************)
(* Goto changes the place of one caller's operation and nothing of the     *)
(* other caller's.                                                         *)
(***************************************************************************)
LEMMA CallMoves ==
    ASSUME CallTypes, NEW c \in Callers, NEW at, NEW i, Goto(c, at, i)
    PROVE  /\ call'[c].at = at /\ call'[c].op = call[c].op /\ call'[c].i = i
           /\ \A d \in Callers : d # c => call'[d] = call[d]
  BY DEF CallTypes, Goto

(***************************************************************************)
(* After an ACK the operation goes to the next vCPU or to what follows the *)
(* last one, and lets go of vcpu_states.                                   *)
(***************************************************************************)
LEMMA AckMoves ==
    ASSUME CallTypes, NEW c \in Callers, AfterAck(c), Fits(call[c]), At(c, "acking")
    PROVE  /\ call'[c].at \notin {"idle", "lock", "panicked"} \cup Holding
           /\ call'[c].op = call[c].op /\ Fits(call'[c])
           /\ \A d \in Callers : d # c => call'[d] = call[d]
<1>1. CASE call[c].i + 1 \in Cpus
  BY <1>1, CallMoves DEF AfterAck, Fits, Holding, At
<1>2. CASE call[c].i + 1 \notin Cpus
  <2>1. call[c].op \in {"pause", "nmi", "shutdown"}
    BY DEF Fits, At
  <2>2. CASE call[c].op = "pause"
    BY <1>2, <2>2, CallMoves DEF AfterAck, Fits, Holding, At
  <2>3. CASE call[c].op = "nmi"
    BY <1>2, <2>3, CallMoves DEF AfterAck, Fits, Holding, At
  <2>4. CASE call[c].op = "shutdown"
    BY <1>2, <2>4, CallMoves DEF AfterAck, Fits, Holding, At
  <2> QED
    BY <2>1, <2>2, <2>3, <2>4
<1> QED
  BY <1>1, <1>2

(***************************************************************************)
(* A step of a vCPU thread changes neither the flags nor the calls, and    *)
(* takes vcpu_states only for an eject.                                    *)
(***************************************************************************)
LEMMA ThreadKinds ==
    ASSUME IndInv, NEW i \in Cpus, VcpuStep(i) \/ GuestStep(i)
    PROVE  Aside
<1>0. \A j \in Cpus : Ejecting(j) => states = "vcpu"
  BY DEF IndInv, ThreadShape
<1> USE DEF ThreadOnly, Aside
<1>1. CASE Top(i) \/ SetPaused(i) \/ Park(i) \/ Interrupted(i) \/ AccessDone(i) \/ EjectAcked(i)
  BY <1>1 DEF Top, SetPaused, Park, Interrupted, AccessDone, EjectAcked
<1>2. CASE EjectTimeout(i) \/ EjectJoined(i)
  BY <1>0, <1>2 DEF EjectTimeout, EjectJoined, TimesOut, Ejecting
<1>3. CASE TopFails(i) \/ GuestExit(i) \/ GuestStop(i) \/ Access(i)
  BY <1>3 DEF TopFails, GuestExit, GuestStop, Access
<1>4. ASSUME NEW j \in Cpus, Eject(i, j) PROVE Aside
  BY <1>4 DEF Eject
<1> QED
  BY <1>1, <1>2, <1>3, <1>4 DEF VcpuStep, GuestStep

(***************************************************************************)
(* Every step of an operation takes the mutex, moves on, ends or fails.    *)
(***************************************************************************)
LEMMA CallKinds ==
    ASSUME IndInv, NEW c \in Callers, CallStep(c) \/ AckRetry(c) \/ NotifyFails(c)
    PROVE  Locked(c) \/ Aside \/ Moves(c) \/ Finishes(c) \/ Fails(c)
<1>0. CallTypes /\ FlagTypes /\ Fits(call[c])
  BY TypeParts DEF IndInv, CallShape
<1> USE DEF ManagerOnly, At, Holding
<1>1. CASE UnparkAll(c)
  <2>1. CASE call[c].op = "resume"
    BY <1>0, <1>1, <2>1, CallMoves DEF UnparkAll, Moves, Inside, Fits
  <2>2. CASE call[c].op # "resume"
    BY <1>0, <1>1, <2>2, CallMoves DEF UnparkAll, Moves, Inside, Fits
  <2> QED
    BY <2>1, <2>2
<1>2. CASE SignalAll(c)
  BY <1>0, <1>2, CallMoves DEF SignalAll, Moves, Inside, Fits
<1>3. CASE AckLock(c)
  BY <1>0, <1>3, CallMoves DEF AckLock, Moves, Inside, Fits
<1>4. CASE Acked(c)
  BY <1>0, <1>4, AckMoves DEF Acked, Moves, Inside
<1>5. CASE AckTimeout(c)
  BY <1>0, <1>5 DEF AckTimeout, TimesOut, Fails, Inside, Fits
<1>6. CASE NotifyPaused(c)
  <2>1. CASE call[c].i + 1 \in Cpus
    BY <1>0, <1>6, <2>1, CallMoves DEF NotifyPaused, Moves, Inside, Fits
  <2>2. CASE call[c].i + 1 \notin Cpus
    BY <1>0, <1>6, <2>2, CallMoves DEF NotifyPaused, Moves, Inside, Fits
  <2> QED
    BY <2>1, <2>2
<1>7. CASE ParkLock(c)
  BY <1>0, <1>7, CallMoves DEF ParkLock, Moves, Inside, Fits
<1>8. CASE Parked(c)
  BY <1>0, <1>8 DEF Parked, Finishes, Inside, Fits
<1>9. CASE Resumed(c)
  BY <1>0, <1>9 DEF Resumed, Finishes, Inside, Fits
<1>10. CASE Unkick(c)
  BY <1>0, <1>10 DEF Unkick, Finishes, Inside, Fits, FlagTypes, Flags
<1>11. CASE JoinLock(c)
  BY <1>0, <1>11, CallMoves DEF JoinLock, Moves, Inside, Fits
<1>12. CASE Joined(c)
  BY <1>0, <1>12 DEF Joined, Finishes, Inside, Fits
<1>13. ASSUME NEW n \in 1..MaxVcpus, Resize(c, n) PROVE Finishes(c)
  BY <1>13 DEF Resize, Finishes
<1>14. CASE AckRetry(c)
  BY <1>14 DEF AckRetry, Aside
<1>15. CASE NotifyFails(c)
  BY <1>0, <1>15 DEF NotifyFails, Fails, Inside, Fits
<1> QED
  BY <1>1, <1>2, <1>3, <1>4, <1>5, <1>6, <1>7, <1>8, <1>9, <1>10, <1>11, <1>12, <1>13,
     <1>14,
     <1>15 DEF CallStep

(***************************************************************************)
(* The control parts, kind by kind.                                        *)
(***************************************************************************)
LEMMA OtherCaller ==
    /\ \A c \in Callers : c # None /\ c # "vcpu" /\ c # "poisoned"
    /\ "owner" \in Callers /\ "throttle" \in Callers
    /\ \A c \in Callers : c = "owner" \/ c = "throttle"
  BY DEF Callers, None

(***************************************************************************)
(* The steps of the vCPU threads preserve what is said of callers, mutexes *)
(* and flags.                                                              *)
(***************************************************************************)
LEMMA AsideControl ==
    ASSUME Control, Aside
    PROVE  Control'
<1> USE DEF Aside, At, Inside, Doing
<1>1. CallShape' /\ ThrottleShape'
  BY DEF Control, CallShape, ThrottleShape
<1>2. LockShape'
  BY OtherCaller DEF Control, LockShape, Holding
<1>3. MigrationShape'
  BY DEF Control, MigrationShape, Throttling
<1>4. FlagShape'
  BY DEF Control, FlagShape
<1> QED
  BY <1>1, <1>2, <1>3, <1>4 DEF Control

(***************************************************************************)
(* So does an operation that moves on inside the CpuManager.               *)
(***************************************************************************)
LEMMA MovesControl ==
    ASSUME Control, NEW c \in Callers, Moves(c)
    PROVE  Control'
<1>1. /\ \A d \in Callers : call'[d].op = call[d].op /\ (Inside(d)' <=> Inside(d))
      /\ \A d \in Callers, op \in Operations : Doing(d, op)' <=> Doing(d, op)
      /\ \A d \in Callers, at \in {"idle", "lock", "panicked"} : call'[d].at = at <=> call[d].at = at
  BY DEF Moves, Inside, Doing
<1>2. CallShape'
  BY <1>1, OtherCaller DEF Control, CallShape, Moves
<1>3. LockShape'
  <2> SUFFICES ASSUME NEW d \in Callers
               PROVE  (Inside(d)' <=> manager' = d) /\ (call'[d].at \in Holding => states' = d)
    BY DEF LockShape
  <2>1. Inside(d)' <=> manager' = d
    BY <1>1 DEF Control, LockShape, Moves
  <2>2. CASE d = c
    BY <2>1, <2>2 DEF Moves
  <2>3. CASE d # c
    BY <2>1, <2>3 DEF Control, LockShape, Moves, Inside, Holding
  <2> QED
    BY <2>1, <2>2, <2>3
<1>4. ThrottleShape' /\ MigrationShape'
  BY <1>1, OtherCaller DEF Control, ThrottleShape, MigrationShape, Throttling, Moves, At
<1>5. FlagShape'
  BY <1>1, OtherCaller DEF Control, FlagShape, Moves, Operations
<1> QED
  BY <1>2, <1>3, <1>4, <1>5 DEF Control

(***************************************************************************)
(* So does one that takes the mutex and sets or clears its flag.           *)
(***************************************************************************)
LEMMA LockedControl ==
    ASSUME CallTypes, FlagTypes, Control, NEW c \in Callers, Locked(c)
    PROVE  Control'
<1>0. /\ call'[c].at = IF call[c].op \in {"resume", "shutdown"} THEN "unpark" ELSE "signal"
      /\ call'[c].op = call[c].op /\ call[c].at = "lock"
      /\ call[c].op \in {"pause", "resume", "nmi", "shutdown"}
      /\ \A d \in Callers : d # c => call'[d] = call[d] /\ ~Inside(d) /\ ~Inside(d)'
  BY CallMoves, OtherCaller
     DEF Locked, Control, CallShape, LockShape, Fits, Operations, At, Inside
<1>a. Inside(c)' /\ ~Inside(c) /\ manager' = c /\ manager = None
      /\ UNCHANGED <<states, throttle, cmds, vm, mig, late>>
  BY <1>0 DEF Inside, Locked, ManagerOnly
<1>b. /\ call[c].op = "pause" => sig'.pause /\ sig'.kick = sig.kick
      /\ call[c].op \in {"resume", "shutdown"} => ~sig'.pause /\ sig'.kick = sig.kick
      /\ call[c].op = "nmi" => sig'.pause = sig.pause /\ c = "owner"
  BY <1>0, OtherCaller DEF Locked, FlagsOf, FlagTypes, Flags, Control, CallShape, None
<1>1. CallShape'
  BY <1>0, OtherCaller DEF Control, CallShape, Fits
<1>2. LockShape'
  BY <1>0, <1>a DEF Control, LockShape, Inside, Holding
<1>3. ThrottleShape'
  BY <1>0, <1>a, OtherCaller DEF Control, ThrottleShape, At
<1>4. MigrationShape'
  BY <1>0, <1>a, OtherCaller DEF Control, MigrationShape, Throttling, At
<1>5. \A d \in Callers : /\ Doing(d, "pause")' => sig'.pause
                         /\ Doing(d, "resume")' \/ Doing(d, "shutdown")' => ~sig'.pause
  BY <1>0, <1>b DEF Doing
<1>6. sig'.kick /\ ~late' => Doing("owner", "nmi")'
  BY <1>0, <1>a, <1>b, OtherCaller DEF Control, FlagShape, Doing
<1>7. ASSUME vm' = "Running", ~late', ~Doing("owner", "pause")',
             throttle' \in {"wait", "resumed", "report", "exited"}
      PROVE  ~sig'.pause
  <2>1. c = "owner"
    BY <1>0, <1>a, <1>7, OtherCaller DEF Control, ThrottleShape, At
  <2>2. call[c].op # "pause"
    BY <1>0, <1>a, <1>7, <2>1 DEF Doing
  <2> QED
    BY <1>0, <1>a, <1>b, <1>7, <2>1, <2>2 DEF Control, FlagShape, Doing
<1>8. FlagShape'
  BY <1>5, <1>6, <1>7 DEF FlagShape
<1> QED
  BY <1>1, <1>2, <1>3, <1>4, <1>8 DEF Control

(***************************************************************************)
(* An operation that ends leaves the other caller where it was.            *)
(***************************************************************************)
LEMMA IdleCall ==
    ASSUME CallTypes, NEW c \in Callers, call' = [call EXCEPT ![c] = Idle]
    PROVE  /\ call'[c].at = "idle" /\ call'[c].op = None
           /\ \A d \in Callers : d # c => call'[d] = call[d]
  BY DEF CallTypes, Idle

(***************************************************************************)
(* An operation that returns leaves the flags as its kind says: set after  *)
(* a pause, clear after a resume.                                          *)
(***************************************************************************)
LEMMA FinishControl ==
    ASSUME CallTypes, DriverTypes, Control, NEW c \in Callers, Finishes(c)
    PROVE  Control'
<1>a. manager' = None /\ call' = [call EXCEPT ![c] = Idle]
  BY DEF Finishes, Finish
<1>b. /\ call'[c].at = "idle" /\ call'[c].op = None
      /\ \A d \in Callers : d # c => call'[d] = call[d]
  BY <1>a, IdleCall
<1>c. manager = c \/ manager = None
  BY DEF Finishes, Control, LockShape
<1>d. \A d \in Callers : d # c => ~Inside(d)
  BY <1>c, OtherCaller DEF Control, LockShape
<1>0. /\ call'[c].at = "idle" /\ call'[c].op = None /\ manager' = None
      /\ \A d \in Callers : d # c => call'[d] = call[d] /\ ~Inside(d) /\ ~Inside(d)'
      /\ ~Inside(c)'
  BY <1>a, <1>b, <1>d DEF Inside
<1>1. CallShape'
  BY <1>0, OtherCaller DEF Control, CallShape, Fits
<1>2. LockShape'
  BY <1>0, OtherCaller DEF LockShape, Inside, Holding
<1>3. CASE c = "owner"
  <2>0. /\ UNCHANGED <<throttle, cmds, late>> /\ call'["throttle"] = call["throttle"]
        /\ vm' = CASE call[c].op = "pause" -> "Paused"
                   [] call[c].op = "resume" -> "Running"
                   [] call[c].op = "shutdown" -> "Shutdown"
                   [] OTHER -> vm
        /\ mig'.at = mig.at \/ (mig.at = "failed" /\ mig'.at = "no")
    BY <1>0, <1>3, OtherCaller DEF Finishes, Finish, DriverTypes
  <2>1. ThrottleShape'
    BY <2>0 DEF Control, ThrottleShape, At
  <2>2. ~Throttling /\ ~Throttling' /\ vm # "Dropped"
    BY <1>3, <2>0 DEF Finishes, Control, MigrationShape, Throttling, Inside, At
  <2>3. MigrationShape'
    BY <1>0, <1>3, <2>0, <2>2 DEF Control, MigrationShape, Throttling, At
  <2>4. FlagShape'
    BY <1>0, <1>3, <2>0, OtherCaller DEF Control, FlagShape, Finishes, Doing
  <2> QED
    BY <1>1, <1>2, <2>1, <2>3, <2>4 DEF Control
<1>4. CASE c = "throttle"
  <2>0. /\ UNCHANGED <<vm, mig, cmds, late>> /\ call'["owner"] = call["owner"]
        /\ throttle \in {"pause", "resume", "last"} /\ Inside("throttle")
        /\ throttle' = CASE throttle = "pause" -> "paused"
                         [] throttle = "resume" -> "resumed"
                         [] throttle = "last" -> "report"
    BY <1>0, <1>4, OtherCaller
    DEF Finishes, Finish, DriverTypes, Control, ThrottleShape, CallShape, Inside, At, None
  <2>1. ThrottleShape'
    BY <1>0, <1>4, <2>0 DEF ThrottleShape, At
  <2>2. MigrationShape'
    BY <2>0 DEF Control, MigrationShape, Throttling, Turning, At
  <2>3. throttle \in {"resume", "last"} => ~sig'.pause
    BY <1>4, <2>0 DEF Control, FlagShape, ThrottleShape, Finishes, Doing
  <2>4. FlagShape'
    BY <1>0, <1>4, <2>0, <2>3, OtherCaller DEF Control, FlagShape, Finishes, Doing
  <2> QED
    BY <1>1, <1>2, <2>1, <2>2, <2>4 DEF Control
<1> QED
  BY <1>3, <1>4, OtherCaller

(***************************************************************************)
(* An operation that fails - a timeout, a failed notification - leaves its *)
(* flag behind, which late records.                                        *)
(***************************************************************************)
LEMMA FailControl ==
    ASSUME CallTypes, DriverTypes, Control, NEW c \in Callers, Fails(c)
    PROVE  Control'
<1>3. CASE c = "owner"
  <2>0. /\ call'[c].at = "idle" /\ call'[c].op = None /\ manager' = None
        /\ call'["throttle"] = call["throttle"] /\ ~Inside("throttle") /\ ~Inside("throttle")'
        /\ ~Inside(c)' /\ UNCHANGED <<throttle, cmds, sig>> /\ late'
        /\ mig'.at = mig.at \/ (mig.at = "stopping" /\ mig'.at = "failed")
        /\ vm' = IF call[c].op = "shutdown" THEN "Dropped" ELSE vm
    BY <1>3, IdleCall, OtherCaller
       DEF Fails, Fail, Control, LockShape, Inside, DriverTypes
  <2>1. CallShape'
    BY <1>3, <2>0, OtherCaller DEF Control, CallShape, Fits
  <2>2. LockShape'
    BY <1>3, <2>0, OtherCaller DEF LockShape, Inside, Holding
  <2>3. ThrottleShape'
    BY <2>0 DEF Control, ThrottleShape, At
  <2>4. ~Throttling /\ ~Throttling'
    BY <1>3, <2>0 DEF Fails, Control, MigrationShape, Throttling, Inside
  <2>5. MigrationShape'
    BY <1>3, <2>0, <2>4 DEF Control, MigrationShape, Throttling, At
  <2>6. FlagShape'
    BY <1>3, <2>0, OtherCaller DEF FlagShape, Doing
  <2> QED
    BY <2>1, <2>2, <2>3, <2>5, <2>6 DEF Control
<1>4. CASE c = "throttle"
  <2>0. /\ call'[c].at = "panicked" /\ call'[c].op = call[c].op /\ manager' = "poisoned"
        /\ call'["owner"] = call["owner"] /\ ~Inside("owner") /\ ~Inside("owner")'
        /\ ~Inside(c)' /\ UNCHANGED <<vm, mig, cmds, sig>> /\ late' /\ throttle' = "panicked"
    BY <1>4, OtherCaller DEF Fails, Fail, Control, LockShape, Inside, CallTypes
  <2>a. throttle = "pause"
    BY <1>4 DEF Fails, Control, ThrottleShape, CallShape, DriverTypes, Inside, At, None
  <2>1. CallShape'
    BY <1>4, <2>0, OtherCaller DEF Control, CallShape, Fits
  <2>2. LockShape'
    BY <1>4, <2>0, OtherCaller DEF LockShape, Inside, Holding
  <2>3. ThrottleShape'
    BY <1>4, <2>0 DEF ThrottleShape, At
  <2>5. MigrationShape'
    BY <2>0, <2>a DEF Control, MigrationShape, Throttling, Turning, At
  <2>6. FlagShape'
    BY <1>4, <2>0, OtherCaller DEF FlagShape, Doing
  <2> QED
    BY <2>1, <2>2, <2>3, <2>5, <2>6 DEF Control
<1> QED
  BY <1>3, <1>4, OtherCaller

(***************************************************************************)
(* The owner and the throttle thread.                                      *)
(***************************************************************************)
LEMMA BeginFacts ==
    ASSUME CallTypes, NEW c \in Callers, NEW op \in Operations, Begin(c, op)
    PROVE  /\ call'[c].at = "lock" /\ call'[c].op = op
           /\ \A d \in Callers : d # c => call'[d] = call[d]
  BY DEF CallTypes, Begin

\* An operation that begins, with the mutexes and the flags as they are.
LEMMA BeginControl ==
    ASSUME CallTypes, Control, NEW c \in Callers, NEW op \in Operations, Begin(c, op),
           At(c, "idle"), c = "throttle" => op \in {"pause", "resume"},
           UNCHANGED <<sig, states, manager, late>>
    PROVE  /\ CallShape' /\ LockShape'
           /\ \A d \in Callers : ~Inside(c) /\ ~Inside(c)' /\ (Inside(d)' <=> Inside(d))
           /\ \A d \in Callers, o \in Operations : Doing(d, o)' <=> Doing(d, o)
<1>0. /\ call'[c].at = "lock" /\ call'[c].op = op /\ ~Inside(c) /\ ~Inside(c)'
      /\ \A d \in Callers : d # c => call'[d] = call[d]
  BY BeginFacts DEF Inside, At
<1>1. CallShape'
  BY <1>0, OtherCaller DEF Control, CallShape, Fits
<1>2. LockShape'
  BY <1>0 DEF Control, LockShape, Inside, Holding
<1> QED
  BY <1>0, <1>1, <1>2 DEF Inside, Doing

(***************************************************************************)
(* What recv leaves in the channel.                                        *)
(***************************************************************************)
LEMMA TailFacts ==
    ASSUME NEW S, NEW s \in Seq(S), s # <<>>
    PROVE  /\ Tail(s) \in Seq(S) /\ Len(Tail(s)) = Len(s) - 1 /\ Head(s) = s[1] /\ Len(s) \in Nat \ {0}
           /\ \A k \in 1..Len(Tail(s)) : Tail(s)[k] = s[k + 1]
  OBVIOUS

(***************************************************************************)
(* The throttle thread takes a command: the thread is not paused when it   *)
(* exits, and a reset is the last command of a migration.                  *)
(***************************************************************************)
LEMMA ReceiveControl ==
    ASSUME CallTypes, DriverTypes, Control, Receive
    PROVE  Control'
<1>0. /\ cmds # <<>> /\ cmds' = Tail(cmds) /\ throttle \in {"wait", "paused", "resumed"}
      /\ UNCHANGED <<sig, states, manager, vm, mig, late>> /\ At("throttle", "idle")
  BY DEF Receive, ThrottleOnly, Control, ThrottleShape
<1>1. /\ Len(cmds') = Len(cmds) - 1 /\ Head(cmds) = cmds[1] /\ Len(cmds) \in Nat \ {0}
      /\ \A k \in 1..Len(cmds') : cmds'[k] = cmds[k + 1]
      /\ cmds' \in Seq({"throttle", "reset", "exit"})
  BY <1>0, TailFacts DEF DriverTypes
<1> DEFINE phase == [wait |-> "pause", paused |-> "resume", resumed |-> "pause"]
           next == IF Head(cmds) = "throttle" THEN phase[throttle]
                   ELSE IF throttle = "paused" THEN EndsWhilePaused
                   ELSE IF Head(cmds) = "exit" THEN "exited" ELSE AnswersReset
<1>a. /\ throttle' = next
      /\ IF next \in {"resume", "last"} THEN Begin("throttle", "resume")
         ELSE IF next = "pause" THEN Begin("throttle", "pause")
         ELSE UNCHANGED call
  BY DEF Receive
<1>b. phase["wait"] = "pause" /\ phase["paused"] = "resume" /\ phase["resumed"] = "pause"
  OBVIOUS
<1>c. /\ Head(cmds) = "throttle" => next = phase[throttle]
      /\ Head(cmds) # "throttle" /\ throttle = "paused" => next = "last"
      /\ Head(cmds) # "throttle" /\ throttle # "paused" =>
            next = IF Head(cmds) = "exit" THEN "exited" ELSE "report"
  <2> HIDE DEF phase
  <2> QED
    BY DEF EndsWhilePaused, AnswersReset
<1> HIDE DEF phase, next
<1>2. CASE Head(cmds) = "throttle"
  <2>1. throttle' = IF throttle = "paused" THEN "resume" ELSE "pause"
    BY <1>0, <1>a, <1>b, <1>c, <1>2
  <2>2. Begin("throttle", throttle')
    BY <1>a, <2>1
  <2>3. call'["throttle"].at = "lock" /\ call'["throttle"].op = throttle'
        /\ call'["owner"] = call["owner"]
    BY <2>1, <2>2, BeginFacts, OtherCaller DEF Operations
  <2>4. /\ CallShape' /\ LockShape'
        /\ \A d \in Callers, o \in Operations : Doing(d, o)' <=> Doing(d, o)
    BY <1>0, <2>1, <2>2, BeginControl, OtherCaller DEF Operations
  <2>5. ThrottleShape'
    BY <2>1, <2>3 DEF ThrottleShape, At
  <2>6. vm = "Running" /\ Throttling
    BY <1>0, <1>1, <1>2 DEF Control, MigrationShape, DriverTypes
  <2>a. mig.at = "iterating" => \A k \in 1..Len(cmds') : cmds'[k] = "throttle"
    BY <1>1 DEF Control, MigrationShape
  <2>b. mig.at = "resetting" => /\ cmds' # <<>> /\ cmds'[Len(cmds')] = "reset"
                                /\ \A k \in 1..(Len(cmds') - 1) : cmds'[k] = "throttle"
    <3> SUFFICES ASSUME mig.at = "resetting"
                 PROVE  /\ cmds' # <<>> /\ cmds'[Len(cmds')] = "reset"
                        /\ \A k \in 1..(Len(cmds') - 1) : cmds'[k] = "throttle"
      OBVIOUS
    <3>1. /\ cmds[Len(cmds)] = "reset" /\ \A k \in 1..(Len(cmds) - 1) : cmds[k] = "throttle"
      BY <1>0 DEF Control, MigrationShape
    <3>2. Len(cmds) # 1 /\ Len(cmds') \in Nat \ {0}
      BY <1>1, <1>2, <3>1
    <3>3. cmds'[Len(cmds')] = "reset" /\ cmds' # <<>>
      BY <1>1, <3>1, <3>2
    <3>4. \A k \in 1..(Len(cmds') - 1) : k \in 1..Len(cmds') /\ k + 1 \in 1..(Len(cmds) - 1)
      BY <1>1, <3>2
    <3> QED
      BY <1>1, <3>1, <3>3, <3>4
  <2>7. MigrationShape'
    BY <1>0, <2>1, <2>3, <2>6, <2>a, <2>b
       DEF Control, MigrationShape, Throttling, Turning, At
  <2>8. FlagShape'
    BY <1>0, <2>1, <2>4, OtherCaller DEF Control, FlagShape, Operations
  <2> QED
    BY <2>4, <2>5, <2>7, <2>8 DEF Control
<1>3. CASE Head(cmds) # "throttle" /\ throttle = "paused"
  <2>1. throttle' = "last" /\ Begin("throttle", "resume")
    BY <1>3, <1>a, <1>c
  <2>3. call'["throttle"].at = "lock" /\ call'["throttle"].op = "resume"
        /\ call'["owner"] = call["owner"]
    BY <2>1, BeginFacts, OtherCaller DEF Operations
  <2>4. /\ CallShape' /\ LockShape'
        /\ \A d \in Callers, o \in Operations : Doing(d, o)' <=> Doing(d, o)
    BY <1>0, <2>1, BeginControl, OtherCaller DEF Operations
  <2>5. ThrottleShape'
    BY <2>1, <2>3 DEF ThrottleShape, At
  <2>6. vm = "Running" /\ mig.at = "resetting"
    BY <1>0, <1>1, <1>3 DEF Control, MigrationShape, DriverTypes, Throttling
  <2>a. Len(cmds) = 1
    BY <1>1, <1>3, <2>6 DEF Control, MigrationShape
  <2>b. cmds' = <<>>
    BY <1>1, <2>a
  <2>7. MigrationShape'
    BY <1>0, <2>1, <2>3, <2>6, <2>b DEF Control, MigrationShape, Throttling, Turning, At
  <2>8. FlagShape'
    BY <1>0, <2>1, <2>4, OtherCaller DEF Control, FlagShape, Operations
  <2> QED
    BY <2>4, <2>5, <2>7, <2>8 DEF Control
<1>4. CASE Head(cmds) # "throttle" /\ throttle # "paused"
  <2>1. throttle' = (IF Head(cmds) = "exit" THEN "exited" ELSE "report") /\ UNCHANGED call
    BY <1>4, <1>a, <1>c
  <2>4. CallShape' /\ LockShape' /\ ThrottleShape'
    BY <1>0, <2>1 DEF Control, CallShape, LockShape, ThrottleShape, Inside, At
  <2>6. mig.at = "resetting" \/ ~Throttling
    BY <1>0, <1>1, <1>4 DEF Control, MigrationShape, Throttling
  <2>a. Len(cmds) = 1
    BY <1>0, <1>1, <1>4, <2>6 DEF Control, MigrationShape, Throttling
  <2>b. cmds' = <<>>
    BY <1>1, <2>a
  <2>c. mig.at = "resetting" => Head(cmds) = "reset"
    BY <1>0, <1>1, <2>a DEF Control, MigrationShape
  <2>d. ~Throttling => Head(cmds) = "exit"
    BY <1>0, <1>1 DEF Control, MigrationShape
  <2>7. MigrationShape'
    BY <1>0, <2>1, <2>6, <2>b, <2>c, <2>d
       DEF Control, MigrationShape, Throttling, Turning, At
  <2>8. FlagShape'
    BY <1>0, <1>4, <2>1, OtherCaller DEF Control, FlagShape, Doing, Inside
  <2> QED
    BY <2>4, <2>7, <2>8 DEF Control
<1> QED
  BY <1>2, <1>3, <1>4

(***************************************************************************)
(* The throttle thread begins its other phase.                             *)
(***************************************************************************)
LEMMA PhaseControl ==
    ASSUME CallTypes, DriverTypes, Control, NextPhase
    PROVE  Control'
<1>0. /\ throttle \in {"paused", "resumed"}
      /\ UNCHANGED <<sig, states, manager, vm, mig, late, cmds>> /\ At("throttle", "idle")
  BY DEF NextPhase, ThrottleOnly, Control, ThrottleShape
<1>1. throttle' = (IF throttle = "paused" THEN "resume" ELSE "pause") /\ Begin("throttle", throttle')
  BY DEF NextPhase
<1>2. call'["throttle"].at = "lock" /\ call'["throttle"].op = throttle'
      /\ call'["owner"] = call["owner"]
  BY <1>1, BeginFacts, OtherCaller DEF Operations
<1>3. /\ CallShape' /\ LockShape'
      /\ \A d \in Callers, o \in Operations : Doing(d, o)' <=> Doing(d, o)
  BY <1>0, <1>1, BeginControl, OtherCaller DEF Operations
<1>4. ThrottleShape'
  BY <1>1, <1>2 DEF ThrottleShape, At
<1>5. MigrationShape'
  BY <1>0, <1>1, <1>2 DEF Control, MigrationShape, Throttling, Turning, At
<1>6. FlagShape'
  BY <1>0, <1>1, <1>3, OtherCaller DEF Control, FlagShape, Operations
<1> QED
  BY <1>3, <1>4, <1>5, <1>6 DEF Control

(***************************************************************************)
(* The throttle thread reports to the migration that it has reset.         *)
(***************************************************************************)
LEMMA ReportControl ==
    ASSUME DriverTypes, Control, Report
    PROVE  Control'
<1>0. /\ throttle = "report" /\ throttle' = "wait" /\ mig.at = "resetting" /\ cmds = <<>>
      /\ mig'.at \in {"stopping", "failed"}
      /\ UNCHANGED <<sig, states, manager, call, cmds, vm, late>>
  BY DEF Report, DriverTypes, Control, MigrationShape, Turning
<1>1. CallShape' /\ LockShape' /\ ThrottleShape'
  BY <1>0 DEF Control, CallShape, LockShape, ThrottleShape, Inside, At
<1>2. MigrationShape'
  BY <1>0 DEF Control, MigrationShape, Throttling, At
<1>3. FlagShape'
  BY <1>0 DEF Control, FlagShape, Doing, Inside
<1> QED
  BY <1>1, <1>2, <1>3 DEF Control

\* The owner calls an operation.
Calls(op) ==
    /\ OwnerIdle /\ ~Throttling /\ Begin("owner", op)
    /\ UNCHANGED <<sig, states, manager, throttle, vm, late, cmds, mig>>

(***************************************************************************)
(* The owner calls an operation.                                           *)
(***************************************************************************)
LEMMA CallsControl ==
    ASSUME CallTypes, Control, NEW op \in Operations, Calls(op)
    PROVE  Control'
<1>0. /\ call'["owner"].at = "lock" /\ call'["owner"].op = op
      /\ call'["throttle"] = call["throttle"]
  BY BeginFacts, OtherCaller DEF Calls
<1>1. /\ CallShape' /\ LockShape'
      /\ \A d \in Callers, o \in Operations : Doing(d, o)' <=> Doing(d, o)
  BY BeginControl, OtherCaller DEF Calls, OwnerIdle
<1>2. ThrottleShape'
  BY <1>0 DEF Control, ThrottleShape, Calls, At
<1>3. MigrationShape'
  BY <1>0 DEF Control, MigrationShape, Throttling, Calls, OwnerIdle, At
<1>4. FlagShape'
  BY <1>1, OtherCaller DEF Control, FlagShape, Calls, Operations
<1> QED
  BY <1>1, <1>2, <1>3, <1>4 DEF Control

\* The migration goes on, with nobody in the CpuManager for the owner.
LEMMA OwnerControl ==
    ASSUME CallTypes, DriverTypes, Control,
           \/ StartMigration \/ IncreaseThrottle \/ ResetThrottle \/ OwnerPanics \/ DropVm
           \/ EndMigration /\ UNCHANGED call
    PROVE  Control'
<1>a. UNCHANGED <<sig, states, manager, throttle, late>>
  BY DEF StartMigration, IncreaseThrottle, ResetThrottle, OwnerPanics, DropVm,
     EndMigration,
         OwnerOnly
<1>b. /\ call'["throttle"] = call["throttle"] /\ call'["owner"].op = call["owner"].op
      /\ call'["owner"].at = call["owner"].at \/ (OwnerPanics /\ call'["owner"].at = "panicked")
  BY OtherCaller DEF StartMigration, IncreaseThrottle, ResetThrottle, OwnerPanics, DropVm,
                     OwnerOnly, CallTypes
<1>c. OwnerPanics => At("owner", "idle")
  BY DEF OwnerPanics, OwnerIdle
<1>d. /\ \A c \in Callers : Inside(c)' <=> Inside(c)
      /\ \A c \in Callers, op \in Operations : Doing(c, op)' <=> Doing(c, op)
  BY <1>b, <1>c, OtherCaller DEF Inside, Doing, At
<1>1. CallShape' /\ ThrottleShape'
  BY <1>a, <1>b, OtherCaller DEF Control, CallShape, Fits, ThrottleShape, At
<1>2. LockShape'
  BY <1>a, <1>b, <1>d, OtherCaller DEF Control, LockShape, Holding
<1>3. FlagShape'
  <2>1. vm' = vm \/ vm' = "Dropped"
    BY DEF StartMigration, IncreaseThrottle, ResetThrottle, OwnerPanics, DropVm,
       EndMigration,
           OwnerOnly
  <2> QED
    BY <1>a, <1>d, <2>1, OtherCaller DEF Control, FlagShape, Operations
<1>4. MigrationShape'
  <2>1. CASE StartMigration
    <3>1. cmds = <<>> /\ cmds' = <<>> /\ mig'.at = "iterating" /\ throttle = "wait" /\ vm' = vm
          /\ UNCHANGED call /\ OwnerIdle
      BY <2>1
         DEF StartMigration, OwnerOnly, OwnerIdle, Control, MigrationShape, Throttling
    <3> QED
      BY <1>a, <3>1 DEF MigrationShape, Throttling, Turning, At, OwnerIdle
  <2>2. CASE IncreaseThrottle
    <3>1. /\ \A k \in 1..Len(cmds') : cmds'[k] = "throttle"
          /\ UNCHANGED <<call, mig, vm>> /\ vm = "Running" /\ mig.at = "iterating"
      BY <2>2 DEF IncreaseThrottle, OwnerOnly, Control, MigrationShape, DriverTypes
    <3> QED
      BY <1>a, <3>1 DEF Control, MigrationShape, Throttling, At
  <2>3. CASE ResetThrottle
    <3>1. /\ mig.at = "iterating" /\ throttle # "panicked" /\ cmds' = Append(cmds, "reset")
          /\ mig'.at = "resetting" /\ UNCHANGED <<call, vm>>
      BY <2>3 DEF ResetThrottle, OwnerOnly, DriverTypes
    <3>2. /\ Len(cmds') = Len(cmds) + 1 /\ Len(cmds) \in Nat /\ cmds'[Len(cmds')] = "reset"
          /\ (\A k \in 1..Len(cmds) : cmds'[k] = cmds[k]) /\ cmds' # <<>>
      BY <3>1 DEF DriverTypes
    <3>3. \A k \in 1..(Len(cmds') - 1) : cmds'[k] = cmds[k] /\ k \in 1..Len(cmds)
      BY <3>2
    <3>4. \A k \in 1..Len(cmds') : k = Len(cmds') \/ k \in 1..Len(cmds)
      BY <3>2
    <3>5. vm # "Running" => throttle = "wait" /\ \A k \in 1..Len(cmds') : cmds'[k] # "throttle"
      BY <3>1, <3>2, <3>4 DEF Control, MigrationShape, Turning
    <3>6. throttle \in Turning /\ \A k \in 1..Len(cmds) : cmds[k] = "throttle"
      BY <3>1 DEF Control, MigrationShape
    <3> QED
      BY <1>a, <3>1, <3>2, <3>3, <3>5, <3>6
         DEF Control, MigrationShape, Throttling, Turning, At
  <2>4. CASE OwnerPanics
    <3>1. UNCHANGED <<cmds, mig, vm>> /\ Throttling /\ call'["owner"].at = "panicked"
      BY <2>4, OtherCaller DEF OwnerPanics, OwnerOnly, Throttling, CallTypes
    <3> QED
      BY <1>a, <3>1 DEF Control, MigrationShape, Throttling, At
  <2>5. CASE DropVm
    <3>1. ~Throttling /\ UNCHANGED <<mig, call>> /\ cmds' = <<"exit">> /\ vm' = "Dropped"
          /\ throttle = "wait" /\ At("owner", "idle")
      BY <2>5 DEF DropVm, Control, MigrationShape
    <3>2. Len(cmds') = 1 /\ cmds'[1] = "exit"
      BY <3>1
    <3> QED
      BY <1>a, <3>1, <3>2 DEF MigrationShape, Throttling, At
  <2>6. CASE EndMigration /\ UNCHANGED call
    <3>1. ~Throttling /\ ~Throttling' /\ UNCHANGED <<cmds, vm, call>> /\ OwnerIdle
      BY <2>6 DEF EndMigration, OwnerOnly, Throttling, DriverTypes
    <3>2. mig'.at \notin {"iterating", "resetting"}
      BY <3>1 DEF Throttling
    <3> QED
      BY <1>a, <3>1, <3>2 DEF Control, MigrationShape, Throttling, At, OwnerIdle
  <2> QED
    BY <2>1, <2>2, <2>3, <2>4, <2>5, <2>6
<1> QED
  BY <1>1, <1>2, <1>3, <1>4 DEF Control

(***************************************************************************)
(* What the owner does is a call, or a step of the migration without one.  *)
(***************************************************************************)
LEMMA OwnerKinds ==
    ASSUME \/ \E op \in {"pause", "resume", "nmi", "resize", "shutdown"} : Request(op)
           \/ StopForMigration \/ EndMigration
    PROVE  (\E op \in Operations : Calls(op)) \/ (EndMigration /\ UNCHANGED call)
<1>1. ASSUME NEW op \in Operations, Request(op) PROVE Calls(op)
  BY <1>1 DEF Request, Calls, OwnerOnly, Throttling
<1>2. CASE StopForMigration
  BY <1>2 DEF StopForMigration, Calls, OwnerOnly, Throttling, Operations
<1>3. CASE EndMigration
  BY <1>3 DEF EndMigration, Calls, OwnerOnly, Throttling, Operations
<1> QED
  BY <1>1, <1>2, <1>3 DEF Operations

(***************************************************************************)
(* Every step preserves the parts about callers, mutexes and flags.        *)
(***************************************************************************)
LEMMA ControlStep ==
    ASSUME IndInv, Next
    PROVE  Control'
<1>0. Control /\ CallTypes /\ FlagTypes /\ DriverTypes
  BY TypeParts DEF IndInv, Control
<1>1. ASSUME NEW i \in Cpus, VcpuStep(i) \/ GuestStep(i) PROVE Control'
  BY <1>0, <1>1, ThreadKinds, AsideControl
<1>2. ASSUME NEW c \in Callers, CallStep(c) \/ AckRetry(c) \/ NotifyFails(c) PROVE Control'
  BY <1>0, <1>2, CallKinds, LockedControl, AsideControl, MovesControl, FinishControl,
     FailControl
<1>3. CASE Receive \/ NextPhase \/ Report
  BY <1>0, <1>3, ReceiveControl, PhaseControl, ReportControl
<1>4. CASE \/ \E op \in {"pause", "resume", "nmi", "resize", "shutdown"} : Request(op)
           \/ StopForMigration \/ EndMigration
  BY <1>0, <1>4, OwnerKinds, CallsControl, OwnerControl
<1>5. CASE StartMigration \/ IncreaseThrottle \/ ResetThrottle \/ OwnerPanics \/ DropVm
  BY <1>0, <1>5, OwnerControl
<1> QED
  BY <1>1, <1>2, <1>3, <1>4, <1>5 DEF Next

(***************************************************************************)
(* The vCPU threads.  Most steps are of one thread, that goes to another   *)
(* place of its loop.                                                      *)
(***************************************************************************)
Runs(i) ==
    /\ CpuTypes' /\ \A j \in Cpus : j # i => cpu'[j] = cpu[j]
    /\ cpu'[i].active = cpu[i].active /\ cpu'[i].pending = cpu[i].pending
    /\ cpu[i].pc # "off" /\ cpu'[i].pc \notin {"off", "ejAck", "ejJoin"}
    /\ cpu'[i].paused => cpu'[i].pc \in {"park", "parked"}
    /\ states' = IF Ejecting(i) THEN None ELSE states
    /\ sig.pause /\ ~InRun(i) => ~InRun(i)'

(***************************************************************************)
(* A step of one thread leaves the others alone.                           *)
(***************************************************************************)
LEMMA CpuNow ==
    ASSUME CpuTypes, NEW i \in Cpus, NEW s, cpu' = [cpu EXCEPT ![i] = s]
    PROVE  /\ cpu'[i] = s /\ \A j \in Cpus : j # i => cpu'[j] = cpu[j]
           /\ s \in VcpuStates => CpuTypes'
  BY DEF CpuTypes

(***************************************************************************)
(* What a thread has when vcpu.run() returned.                             *)
(***************************************************************************)
LEMMA RunReturnedFacts ==
    ASSUME NEW i, NEW s \in VcpuStates
    PROVE  /\ RunReturned(i, s) \in VcpuStates /\ RunReturned(i, s).pc \in {"top", "exited"}
           /\ RunReturned(i, s).active = s.active /\ RunReturned(i, s).pending = s.pending
           /\ RunReturned(i, s).paused = s.paused /\ RunReturned(i, s).target = s.target
  BY DEF RunReturned, VcpuStates

(***************************************************************************)
(* What a thread has when it enters vcpu.run().                            *)
(***************************************************************************)
LEMMA EnterFacts ==
    ASSUME NEW i, NEW s \in VcpuStates, sig \in Flags, Killed(i) \in BOOLEAN
    PROVE  /\ Enter(i, s) \in VcpuStates /\ Enter(i, s).pc \in {"guest", "exited"}
           /\ Enter(i, s).active = s.active /\ Enter(i, s).pending = s.pending
           /\ Enter(i, s).paused = s.paused /\ Enter(i, s).target = s.target
  BY DEF Enter, VcpuStates, Flags

(***************************************************************************)
(* A thread that runs changes its own state only, and does not enter the   *)
(* guest under the pause flag.                                             *)
(***************************************************************************)
LEMMA ThreadRuns ==
    ASSUME IndInv, NEW i \in Cpus,
           \/ Top(i) \/ TopFails(i) \/ SetPaused(i) \/ Park(i) \/ Interrupted(i) \/ GuestExit(i)
           \/ GuestStop(i) \/ Access(i) \/ AccessDone(i) \/ EjectTimeout(i)
    PROVE  Runs(i)
<1>0. CpuTypes /\ sig \in Flags /\ cpu[i] \in VcpuStates /\ Killed(i) \in BOOLEAN
  BY TypeParts DEF IndInv, CpuTypes, FlagTypes, Flags, Killed, VcpuStates
<1>a. cpu[i].paused => cpu[i].pc \in {"park", "parked"}
  BY DEF IndInv, ThreadShape
<1>b. cpu[i].pc \notin {"park", "parked"} => cpu[i].paused = FALSE
  BY <1>0, <1>a DEF VcpuStates
<1> USE DEF Runs, InRun, Ejecting
<1>1. CASE Top(i)
  <2>1. CASE sig.pause
    <3> DEFINE s == [cpu[i] EXCEPT !.imm = FALSE, !.intr = TRUE, !.pc = "acked"]
    <3>1. s \in VcpuStates /\ s.pc = "acked" /\ s.active = cpu[i].active
          /\ s.pending = cpu[i].pending /\ s.paused = cpu[i].paused
      BY <1>0 DEF VcpuStates
    <3>2. cpu' = [cpu EXCEPT ![i] = s] /\ cpu[i].pc = "top" /\ states' = states
      BY <1>1, <2>1 DEF Top
    <3> HIDE DEF s
    <3> QED
      BY <1>0, <1>b, <3>1, <3>2, CpuNow
  <2>2. CASE ~sig.pause
    <3>1. cpu' = [cpu EXCEPT ![i] = Enter(i, cpu[i])] /\ cpu[i].pc = "top" /\ states' = states
      BY <1>1, <2>2 DEF Top
    <3>2. /\ cpu'[i] = Enter(i, cpu[i]) /\ \A j \in Cpus : j # i => cpu'[j] = cpu[j]
          /\ CpuTypes'
      BY <1>0, <3>1, CpuNow, EnterFacts
    <3> QED
      BY <1>0, <1>b, <2>2, <3>1, <3>2, EnterFacts
  <2> QED
    BY <2>1, <2>2
<1>2. CASE TopFails(i)
  BY <1>0, <1>b, <1>2 DEF TopFails, CpuTypes, VcpuStates
<1>3. CASE SetPaused(i)
  BY <1>0, <1>3 DEF SetPaused, CpuTypes, VcpuStates
<1>4. CASE Park(i)
  <2> DEFINE s == [cpu[i] EXCEPT !.token = @ /\ cpu[i].pc = "park"]
             t == [s EXCEPT !.paused = FALSE, !.intr = FALSE]
             u == [s EXCEPT !.pc = "parked"]
  <2>0. /\ s \in VcpuStates /\ t \in VcpuStates /\ u \in VcpuStates
        /\ t.active = cpu[i].active /\ t.pending = cpu[i].pending /\ t.paused = FALSE
        /\ u.active = cpu[i].active /\ u.pending = cpu[i].pending /\ u.pc = "parked"
    BY <1>0 DEF VcpuStates
  <2>1. cpu' = [cpu EXCEPT ![i] = IF sig.pause THEN u ELSE Enter(i, t)]
        /\ cpu[i].pc \in {"park", "parked"} /\ states' = states
    BY <1>4 DEF Park
  <2> HIDE DEF s, t, u
  <2>2. /\ cpu'[i] = (IF sig.pause THEN u ELSE Enter(i, t)) /\ CpuTypes'
        /\ \A j \in Cpus : j # i => cpu'[j] = cpu[j]
    <3>1. (IF sig.pause THEN u ELSE Enter(i, t)) \in VcpuStates
      BY <1>0, <2>0, EnterFacts
    <3> QED
      BY <1>0, <2>1, <3>1, CpuNow
  <2> QED
    BY <1>0, <2>0, <2>1, <2>2, EnterFacts
<1>5. CASE Interrupted(i)
  <2> DEFINE s == [cpu[i] EXCEPT !.imm = FALSE]
  <2>0. /\ s \in VcpuStates /\ s.active = cpu[i].active /\ s.pending = cpu[i].pending
        /\ s.paused = cpu[i].paused
    BY <1>0 DEF VcpuStates
  <2>1. cpu' = [cpu EXCEPT ![i] = RunReturned(i, s)] /\ cpu[i].pc = "guest" /\ states' = states
    BY <1>5 DEF Interrupted
  <2> HIDE DEF s
  <2>2. /\ cpu'[i] = RunReturned(i, s) /\ \A j \in Cpus : j # i => cpu'[j] = cpu[j]
        /\ CpuTypes'
    BY <1>0, <2>0, <2>1, CpuNow, RunReturnedFacts
  <2> QED
    BY <1>b, <2>0, <2>1, <2>2, RunReturnedFacts
<1>6. CASE GuestExit(i) \/ AccessDone(i)
  <2>1. cpu' = [cpu EXCEPT ![i] = RunReturned(i, cpu[i])] /\ cpu[i].pc \in {"guest", "access"}
        /\ states' = states
    BY <1>6 DEF GuestExit, AccessDone
  <2>2. /\ cpu'[i] = RunReturned(i, cpu[i]) /\ \A j \in Cpus : j # i => cpu'[j] = cpu[j]
        /\ CpuTypes'
    BY <1>0, <2>1, CpuNow, RunReturnedFacts
  <2> QED
    BY <1>0, <1>b, <2>1, <2>2, RunReturnedFacts
<1>7. CASE GuestStop(i)
  BY <1>0, <1>b, <1>7 DEF GuestStop, CpuTypes, VcpuStates
<1>8. CASE Access(i)
  BY <1>0, <1>b, <1>8 DEF Access, CpuTypes, VcpuStates
<1>9. CASE EjectTimeout(i)
  <2>1. cpu' = [cpu EXCEPT ![i] = RunReturned(i, cpu[i])] /\ cpu[i].pc = "ejAck"
        /\ states' = None
    BY <1>9 DEF EjectTimeout
  <2>2. /\ cpu'[i] = RunReturned(i, cpu[i]) /\ \A j \in Cpus : j # i => cpu'[j] = cpu[j]
        /\ CpuTypes'
    BY <1>0, <2>1, CpuNow, RunReturnedFacts
  <2> QED
    BY <1>0, <1>b, <2>1, <2>2, RunReturnedFacts
<1> QED
  BY <1>1, <1>2, <1>3, <1>4, <1>5, <1>6, <1>7, <1>8, <1>9

\* The parts that are about the threads.
Threads == CpuTypes /\ ThreadShape /\ StayingAreFirst

(***************************************************************************)
(* The vCPUs that stay are the same when no thread starts, ends or is      *)
(* marked for removal.                                                     *)
(***************************************************************************)
LEMMA StayingKept ==
    ASSUME StayingAreFirst,
           \A i \in Cpus : (cpu'[i].active /\ ~cpu'[i].pending) <=> (cpu[i].active /\ ~cpu[i].pending)
    PROVE  StayingAreFirst'
<1>1. Staying' = Staying
  BY DEF Staying
<1> QED
  BY <1>1 DEF StayingAreFirst

(***************************************************************************)
(* A thread that runs preserves the parts about the threads.               *)
(***************************************************************************)
LEMMA RunsThreads ==
    ASSUME Threads, PauseHolds, NEW i \in Cpus, Runs(i), UNCHANGED <<sig, call, vm>>
    PROVE  Threads' /\ PauseHolds'
<1>1. ThreadShape'
  <2>1. \A j \in Cpus : Ejecting(j)' => j # i /\ Ejecting(j) /\ cpu'[j].target = cpu[j].target
    BY DEF Runs, Ejecting
  <2>2. \A j \in Cpus : Ejecting(j)' => states' = "vcpu" /\ cpu'[cpu'[j].target].pending
    <3> SUFFICES ASSUME NEW j \in Cpus, Ejecting(j)'
                 PROVE  states' = "vcpu" /\ cpu'[cpu'[j].target].pending
      OBVIOUS
    <3>1. cpu[j].target \in Cpus
      BY DEF Threads, CpuTypes, VcpuStates
    <3>2. ~Ejecting(i)
      BY <2>1 DEF Threads, ThreadShape
    <3> QED
      BY <2>1, <3>1, <3>2 DEF Threads, ThreadShape, Runs
  <2> QED
    BY <2>1, <2>2 DEF Threads, ThreadShape, Runs
<1>2. StayingAreFirst'
  BY StayingKept DEF Threads, Runs
<1>3. PauseHolds'
  BY DEF PauseHolds, Runs, InRun, Doing, Inside
<1> QED
  BY <1>1, <1>2, <1>3 DEF Threads, Runs

(***************************************************************************)
(* A vCPU that ejects another holds vcpu_states, and its target is marked. *)
(***************************************************************************)
LEMMA EjectThreads ==
    ASSUME Threads, PauseHolds, NEW i \in Cpus, NEW j \in Cpus, Eject(i, j)
    PROVE  Threads' /\ PauseHolds'
<1> DEFINE t == Signalled([cpu[j] EXCEPT !.kill = TRUE])
           s == [cpu[i] EXCEPT !.pc = "ejAck", !.target = j]
<1>0. cpu[i] \in VcpuStates /\ cpu[j] \in VcpuStates
  BY DEF Threads, CpuTypes
<1>1. /\ t \in VcpuStates /\ t.pc = cpu[j].pc /\ t.active = cpu[j].active
      /\ t.pending = cpu[j].pending /\ t.paused = cpu[j].paused /\ t.target = cpu[j].target
  BY <1>0 DEF VcpuStates, Signalled
<1>2. /\ s \in VcpuStates /\ s.pc = "ejAck" /\ s.active = cpu[i].active
      /\ s.pending = cpu[i].pending /\ s.paused = cpu[i].paused /\ s.target = j
  BY <1>0 DEF VcpuStates
<1>3. /\ i # j /\ cpu[i].pc = "access" /\ cpu[j].pending /\ states = None /\ states' = "vcpu"
      /\ UNCHANGED <<sig, call, vm>>
  BY DEF Eject, MayEject, ThreadOnly
<1>4. cpu' = [cpu EXCEPT ![i] = s, ![j] = t]
  BY <1>0, <1>3 DEF Eject, Threads, CpuTypes, VcpuStates
<1> HIDE DEF s, t
<1>5. /\ cpu'[i] = s /\ cpu'[j] = t /\ CpuTypes'
      /\ \A k \in Cpus : k \notin {i, j} => cpu'[k] = cpu[k]
  BY <1>1, <1>2, <1>3, <1>4 DEF Threads, CpuTypes
<1>6. \A k \in Cpus : ~Ejecting(k) /\ (Ejecting(k)' => k = i)
  BY <1>1, <1>3, <1>5 DEF Threads, ThreadShape, Ejecting, None
<1>7. ThreadShape'
  <2>1. \A k \in Cpus : Ejecting(k)' => states' = "vcpu" /\ cpu'[cpu'[k].target].pending
    BY <1>1, <1>2, <1>3, <1>5, <1>6
  <2>2. ASSUME NEW k \in Cpus
        PROVE  /\ cpu'[k].active <=> cpu'[k].pc # "off"
               /\ cpu'[k].paused => cpu'[k].pc \in {"park", "parked"}
               /\ cpu'[k].pending => cpu'[k].active
    BY <1>1, <1>2, <1>3, <1>5 DEF Threads, ThreadShape
  <2> QED
    BY <1>6, <2>1, <2>2 DEF ThreadShape
<1>8. StayingAreFirst'
  BY <1>1, <1>2, <1>5, StayingKept DEF Threads
<1>9. PauseHolds'
  BY <1>3 DEF PauseHolds, InRun, Doing, Inside
<1> QED
  BY <1>5, <1>7, <1>8, <1>9 DEF Threads

(***************************************************************************)
(* The ejected vCPU has acknowledged.                                      *)
(***************************************************************************)
LEMMA AckedThreads ==
    ASSUME Threads, PauseHolds, NEW i \in Cpus, EjectAcked(i)
    PROVE  Threads' /\ PauseHolds'
<1>0. cpu[i] \in VcpuStates
  BY DEF Threads, CpuTypes
<1>1. /\ cpu'[i].pc = "ejJoin" /\ cpu'[i].active = cpu[i].active
      /\ cpu'[i].pending = cpu[i].pending /\ cpu'[i].paused = cpu[i].paused
      /\ cpu'[i].target = cpu[i].target /\ cpu[i].pc = "ejAck"
      /\ \A j \in Cpus : j # i => cpu'[j] = cpu[j]
      /\ CpuTypes' /\ UNCHANGED <<sig, call, vm, states>>
  BY <1>0 DEF EjectAcked, Threads, CpuTypes, VcpuStates, ThreadOnly
<1>2. ThreadShape'
  <2>1. \A j \in Cpus : /\ Ejecting(j)' <=> Ejecting(j)
                        /\ cpu'[j].target = cpu[j].target /\ cpu'[j].pending = cpu[j].pending
                        /\ cpu[j].target \in Cpus
    BY <1>1 DEF Ejecting, Threads, CpuTypes, VcpuStates
  <2>2. ASSUME NEW k \in Cpus
        PROVE  /\ cpu'[k].active <=> cpu'[k].pc # "off"
               /\ cpu'[k].paused => cpu'[k].pc \in {"park", "parked"}
               /\ cpu'[k].pending => cpu'[k].active
    BY <1>1 DEF Threads, ThreadShape
  <2> QED
    BY <1>1, <2>1, <2>2 DEF Threads, ThreadShape
<1>3. StayingAreFirst'
  BY <1>1, StayingKept DEF Threads
<1>4. PauseHolds'
  BY <1>1 DEF PauseHolds, InRun, Doing, Inside
<1> QED
  BY <1>1, <1>2, <1>3, <1>4 DEF Threads

\* The ejected vCPU was to be removed: it is not one of those that stay.
LEMMA JoinedThreads ==
    ASSUME Threads, PauseHolds, NEW i \in Cpus, EjectJoined(i)
    PROVE  Threads' /\ PauseHolds'
<1> DEFINE j == cpu[i].target
           s == RunReturned(i, cpu[i])
           t == [cpu[j] EXCEPT !.active = FALSE, !.pc = "off", !.kill = FALSE, !.pending = FALSE]
<1>0. cpu[i] \in VcpuStates /\ j \in Cpus /\ cpu[j] \in VcpuStates
  BY DEF Threads, CpuTypes, VcpuStates
<1>a. /\ cpu[i].pc = "ejJoin" /\ cpu[j].pc = "exited" /\ i # j /\ cpu[j].pending
      /\ states' = None /\ UNCHANGED <<sig, call, vm>>
  BY DEF EjectJoined, ThreadOnly, Threads, ThreadShape, Ejecting
<1>1. /\ t \in VcpuStates /\ t.pc = "off" /\ ~t.active /\ ~t.pending /\ t.paused = cpu[j].paused
  BY <1>0 DEF VcpuStates
<1>2. /\ s \in VcpuStates /\ s.pc \in {"top", "exited"} /\ s.active = cpu[i].active
      /\ s.pending = cpu[i].pending /\ s.paused = cpu[i].paused
  BY <1>0, RunReturnedFacts
<1>3. cpu' = [cpu EXCEPT ![i] = s, ![j] = t]
  BY <1>0, <1>a DEF EjectJoined, Threads, CpuTypes, VcpuStates
<1> HIDE DEF s, t, j
<1>4. /\ cpu'[i] = s /\ cpu'[j] = t /\ CpuTypes'
      /\ \A k \in Cpus : k \notin {i, j} => cpu'[k] = cpu[k]
  BY <1>0, <1>1, <1>2, <1>3, <1>a DEF Threads, CpuTypes
<1>5. \A k \in Cpus : ~Ejecting(k)'
  BY <1>1, <1>2, <1>4, <1>a DEF Threads, ThreadShape, Ejecting
<1>6. ThreadShape'
  <2>2. ASSUME NEW k \in Cpus
        PROVE  /\ cpu'[k].active <=> cpu'[k].pc # "off"
               /\ cpu'[k].paused => cpu'[k].pc \in {"park", "parked"}
               /\ cpu'[k].pending => cpu'[k].active
    BY <1>0, <1>1, <1>2, <1>4, <1>a DEF Threads, ThreadShape
  <2> QED
    BY <1>5, <2>2 DEF ThreadShape
<1>7. StayingAreFirst'
  BY <1>0, <1>1, <1>2, <1>4, <1>a, StayingKept DEF Threads
<1>8. PauseHolds'
  BY <1>0, <1>a DEF PauseHolds, InRun, Doing, Inside
<1> QED
  BY <1>4, <1>6, <1>7, <1>8 DEF Threads

(***************************************************************************)
(* Every step of a thread preserves the parts about the threads, and none  *)
(* leaves its park while the VM is paused.                                 *)
(***************************************************************************)
LEMMA ThreadStep ==
    ASSUME IndInv, NEW i \in Cpus, VcpuStep(i) \/ GuestStep(i)
    PROVE  Threads' /\ PauseHolds'
<1>0. Threads /\ PauseHolds
  BY TypeParts DEF IndInv, Threads
<1>1. UNCHANGED <<sig, call, vm>>
  BY ThreadKinds DEF Aside
<1> QED
  BY <1>0, <1>1, ThreadRuns, RunsThreads, EjectThreads, AckedThreads, JoinedThreads
  DEF VcpuStep, GuestStep

(***************************************************************************)
(* The threads while an operation, the owner or the throttle thread goes   *)
(* on: only shutdown and resize change which threads there are.            *)
(***************************************************************************)
SameThreads ==
    /\ CpuTypes'
    /\ \A i \in Cpus :
          /\ cpu'[i].pc = cpu[i].pc /\ cpu'[i].active = cpu[i].active
          /\ cpu'[i].pending = cpu[i].pending /\ cpu'[i].paused = cpu[i].paused
          /\ cpu'[i].target = cpu[i].target
    /\ states' = states \/ states # "vcpu"

(***************************************************************************)
(* Steps that change neither which threads there are nor where they are    *)
(* preserve the parts about the threads.                                   *)
(***************************************************************************)
LEMMA SameThreadsStep ==
    ASSUME Threads, SameThreads
    PROVE  Threads' /\ \A i \in Cpus : InRun(i)' <=> InRun(i)
<1>1. \A j \in Cpus : /\ Ejecting(j)' <=> Ejecting(j)
                      /\ Ejecting(j) => states = "vcpu" /\ states' = "vcpu"
                      /\ cpu[j].target \in Cpus
  BY DEF Ejecting, Threads, CpuTypes, VcpuStates, ThreadShape, SameThreads
<1>2. ASSUME NEW k \in Cpus
      PROVE  /\ cpu'[k].active <=> cpu'[k].pc # "off"
             /\ cpu'[k].paused => cpu'[k].pc \in {"park", "parked"}
             /\ cpu'[k].pending => cpu'[k].active
             /\ Ejecting(k)' => states' = "vcpu" /\ cpu'[cpu'[k].target].pending
  BY <1>1 DEF Threads, ThreadShape, SameThreads
<1>3. ThreadShape'
  BY <1>1, <1>2 DEF Threads, ThreadShape
<1>4. StayingAreFirst'
  BY StayingKept DEF Threads, SameThreads
<1> QED
  BY <1>3, <1>4 DEF Threads, SameThreads, InRun

(***************************************************************************)
(* A signal sets flags of a thread that it finds on its own.               *)
(***************************************************************************)
LEMMA SignalledFacts ==
    ASSUME NEW s \in VcpuStates
    PROVE  /\ Signalled(s) \in VcpuStates /\ Signalled(s).pc = s.pc
           /\ Signalled(s).active = s.active /\ Signalled(s).pending = s.pending
           /\ Signalled(s).paused = s.paused /\ Signalled(s).target = s.target
  BY DEF Signalled, VcpuStates

(***************************************************************************)
(* No operation but shutdown and resize changes which threads there are or *)
(* where they are.                                                         *)
(***************************************************************************)
LEMMA CallThreads ==
    ASSUME IndInv, NEW c \in Callers,
           \/ Locked(c) \/ UnparkAll(c) \/ SignalAll(c) \/ AckLock(c) \/ Acked(c) \/ AckTimeout(c)
           \/ NotifyPaused(c) \/ ParkLock(c) \/ Parked(c) \/ Resumed(c) \/ Unkick(c) \/ JoinLock(c)
           \/ AckRetry(c) \/ NotifyFails(c)
    PROVE  SameThreads
<1>0. CpuTypes /\ \A i \in Cpus : cpu[i] \in VcpuStates
  BY TypeParts DEF IndInv, CpuTypes
<1>1. call[c].at \in Holding => states # "vcpu"
  BY OtherCaller DEF IndInv, LockShape
<1>2. None # "vcpu" /\ call[c].i \in Cpus
  BY TypeParts DEF None, IndInv, CallTypes
<1>a. CASE UNCHANGED cpu /\ (states' = states \/ states # "vcpu")
  BY <1>0, <1>a DEF SameThreads, CpuTypes
<1>3. CASE UnparkAll(c)
  <2>1. /\ cpu' = [i \in Cpus |-> IF cpu[i].active THEN [cpu[i] EXCEPT !.token = TRUE] ELSE cpu[i]]
        /\ states # "vcpu"
    BY <1>2, <1>3 DEF UnparkAll
  <2>2. ASSUME NEW s \in VcpuStates
        PROVE  LET t == [s EXCEPT !.token = TRUE]
               IN  /\ t \in VcpuStates /\ t.pc = s.pc /\ t.active = s.active
                   /\ t.pending = s.pending /\ t.paused = s.paused /\ t.target = s.target
    BY DEF VcpuStates
  <2> QED
    BY <1>0, <2>1, <2>2 DEF SameThreads, CpuTypes
<1>4. CASE SignalAll(c)
  <2>1. /\ cpu' = [i \in Cpus |-> Signalled(cpu[i])]
        /\ states' = states
    BY <1>4 DEF SignalAll
  <2> QED
    BY <1>0, <2>1, SignalledFacts DEF SameThreads, CpuTypes
<1>5. CASE AckRetry(c)
  <2>1. cpu' = [cpu EXCEPT ![call[c].i] = Signalled(cpu[call[c].i])] /\ states' = states
    BY <1>5 DEF AckRetry
  <2>2. /\ cpu'[call[c].i] = Signalled(cpu[call[c].i]) /\ CpuTypes'
        /\ \A j \in Cpus : j # call[c].i => cpu'[j] = cpu[j]
    BY <1>0, <1>2, <2>1, CpuNow, SignalledFacts
  <2> QED
    BY <1>0, <1>2, <2>1, <2>2, SignalledFacts DEF SameThreads
<1>6. CASE \/ Locked(c) \/ AckLock(c) \/ NotifyPaused(c) \/ ParkLock(c) \/ JoinLock(c)
           \/ Unkick(c) \/ NotifyFails(c)
  BY <1>a, <1>2, <1>6
  DEF Locked, AckLock, NotifyPaused, ParkLock, JoinLock, Unkick, NotifyFails
<1>7. CASE Acked(c) \/ AckTimeout(c) \/ Parked(c) \/ Resumed(c)
  BY <1>a, <1>1, <1>7 DEF Acked, AckTimeout, Parked, Resumed, At, Holding
<1> QED
  BY <1>3, <1>4, <1>5, <1>6, <1>7

(***************************************************************************)
(* A vCPU without a thread is a vCPU state, and there is a boot vCPU.      *)
(***************************************************************************)
LEMMA FreshType == Fresh \in VcpuStates /\ 0 \in Cpus
  BY VcpuAssumption DEF Fresh, VcpuStates, Cpus

(***************************************************************************)
(* After the joins of shutdown no thread is left.                          *)
(***************************************************************************)
LEMMA ShutdownThreads ==
    ASSUME NEW c \in Callers, Joined(c)
    PROVE  Threads' /\ \A i \in Cpus : ~InRun(i)'
<1>1. \A i \in Cpus : /\ cpu'[i].pc = "off" /\ ~cpu'[i].active /\ ~cpu'[i].pending
                      /\ ~cpu'[i].paused
  BY DEF Joined, Fresh
<1>2. CpuTypes'
  BY FreshType DEF Joined, CpuTypes
<1>3. StayingAreFirst'
  <2>1. Staying' = 0..(0 - 1)
    BY <1>1 DEF Staying
  <2>2. 0 \in 0..MaxVcpus
    BY VcpuAssumption
  <2> QED
    BY <2>1, <2>2 DEF StayingAreFirst
<1> QED
  BY <1>1, <1>2, <1>3 DEF Threads, ThreadShape, Ejecting, InRun

(***************************************************************************)
(* When no removal is pending, the active vCPUs are the first ones: resize *)
(* starts only vCPUs without a thread.                                     *)
(***************************************************************************)
LEMMA ActiveAreFirst ==
    ASSUME Threads, ~check_pending_removed_vcpu
    PROVE  active_vcpus \in 0..MaxVcpus /\ Active = 0..(active_vcpus - 1)
<1>1. Active = Staying
  BY DEF Threads, ThreadShape, Active, Staying, check_pending_removed_vcpu
<1>2. PICK m \in 0..MaxVcpus : Active = 0..(m - 1)
  BY <1>1 DEF Threads, StayingAreFirst
<1>3. m \in Int /\ m >= 0
  BY <1>2, VcpuAssumption
<1>4. Cardinality(0..(m - 1)) = m
  <2>1. 0 \in Int /\ m - 1 \in Int
    BY <1>3
  <2>2. Cardinality(0..(m - 1)) = IF 0 > m - 1 THEN 0 ELSE (m - 1) - 0 + 1
    BY <2>1, FS_Interval
  <2> QED
    BY <1>3, <2>2
<1> QED
  BY <1>2, <1>4 DEF active_vcpus

(***************************************************************************)
(* What a vCPU has when its thread is started, or it is marked for         *)
(* removal.                                                                *)
(***************************************************************************)
LEMMA StartedFacts ==
    ASSUME NEW s \in VcpuStates
    PROVE  /\ Started(s) \in VcpuStates /\ Started(s).pc = "top" /\ Started(s).active
           /\ Started(s).pending = s.pending /\ Started(s).paused = s.paused
           /\ [s EXCEPT !.pending = TRUE] \in VcpuStates
           /\ [s EXCEPT !.pending = TRUE].pending = TRUE /\ [s EXCEPT !.pending = TRUE].pc = s.pc
           /\ [s EXCEPT !.pending = TRUE].active = s.active
           /\ [s EXCEPT !.pending = TRUE].paused = s.paused
           /\ [s EXCEPT !.pending = TRUE].target = s.target
  BY DEF Started, VcpuStates

(***************************************************************************)
(* resize starts vCPUs without a thread or marks the last ones for         *)
(* removal.                                                                *)
(***************************************************************************)
LEMMA ResizeThreads ==
    ASSUME Threads, NEW c \in Callers, NEW desired \in 1..MaxVcpus, Resize(c, desired)
    PROVE  Threads' /\ \A i \in Cpus : InRun(i)' => InRun(i)
<1>0. CpuTypes /\ states = None /\ states' = states /\ \A i \in Cpus : cpu[i] \in VcpuStates
  BY DEF Threads, CpuTypes, Resize
<1>1. CASE check_pending_removed_vcpu
  <2>1. SameThreads
    BY <1>0, <1>1 DEF Resize, SameThreads, CpuTypes
  <2> QED
    BY <2>1, SameThreadsStep
<1>2. CASE ~check_pending_removed_vcpu
  <2> DEFINE n == active_vcpus
  <2>0. n \in 0..MaxVcpus /\ Active = 0..(n - 1) /\ Active \subseteq Cpus
    BY <1>2, ActiveAreFirst DEF Active
  <2>a. n \in Nat /\ desired \in Nat /\ MaxVcpus \in Nat /\ desired >= 1 /\ desired <= MaxVcpus
    BY <2>0, VcpuAssumption
  <2>1. cpu' = [i \in Cpus |->
                  IF i \in n..(desired - 1) THEN Started(cpu[i])
                  ELSE IF i \in desired..(n - 1) THEN [cpu[i] EXCEPT !.pending = TRUE]
                  ELSE cpu[i]]
    BY <1>2 DEF Resize
  <2> HIDE DEF n
  <2>2. \A i \in Cpus : /\ i \in Nat
                        /\ cpu[i].active <=> i < n
                        /\ cpu[i].pending = FALSE
    <3> SUFFICES ASSUME NEW i \in Cpus
                 PROVE  i \in Nat /\ (cpu[i].active <=> i < n) /\ cpu[i].pending = FALSE
      OBVIOUS
    <3>1. i \in Nat
      BY VcpuAssumption DEF Cpus
    <3>2. cpu[i].active <=> i \in 0..(n - 1)
      BY <2>0 DEF Active
    <3>3. cpu[i].active <=> i < n
      BY <2>a, <3>1, <3>2
    <3>4. ~cpu[i].pending
      BY <1>2 DEF check_pending_removed_vcpu, Active, Threads, ThreadShape
    <3> QED
      BY <1>0, <3>1, <3>3, <3>4 DEF VcpuStates
  <2>3. \A i \in Cpus :
           /\ i < n /\ i < desired => cpu'[i] = cpu[i]
           /\ i < n /\ ~(i < desired) => cpu'[i] = [cpu[i] EXCEPT !.pending = TRUE]
           /\ ~(i < n) /\ i < desired => cpu'[i] = Started(cpu[i])
           /\ ~(i < n) /\ ~(i < desired) => cpu'[i] = cpu[i]
    <3> SUFFICES ASSUME NEW i \in Cpus
                 PROVE  /\ i < n /\ i < desired => cpu'[i] = cpu[i]
                        /\ i < n /\ ~(i < desired) => cpu'[i] = [cpu[i] EXCEPT !.pending = TRUE]
                        /\ ~(i < n) /\ i < desired => cpu'[i] = Started(cpu[i])
                        /\ ~(i < n) /\ ~(i < desired) => cpu'[i] = cpu[i]
      OBVIOUS
    <3>1. /\ i \in n..(desired - 1) <=> ~(i < n) /\ i < desired
          /\ i \in desired..(n - 1) <=> i < n /\ ~(i < desired)
      BY <2>a, <2>2
    <3> QED
      BY <2>1, <3>1
  <2>4. CpuTypes'
    <3>1. \A i \in Cpus : cpu'[i] \in VcpuStates
      BY <1>0, <2>3, StartedFacts
    <3> QED
      BY <2>1, <3>1 DEF CpuTypes
  <2>5. \A i \in Cpus : ~Ejecting(i)
    BY <1>0 DEF Threads, ThreadShape, None
  <2>6. ASSUME NEW k \in Cpus
        PROVE  /\ cpu'[k].active <=> cpu'[k].pc # "off"
               /\ cpu'[k].paused => cpu'[k].pc \in {"park", "parked"}
               /\ cpu'[k].pending => cpu'[k].active
               /\ ~Ejecting(k)' /\ (InRun(k)' => InRun(k))
    <3>0. /\ cpu[k].active <=> cpu[k].pc # "off"
          /\ cpu[k].paused => cpu[k].pc \in {"park", "parked"}
          /\ cpu[k].pending => cpu[k].active
          /\ cpu[k] \in VcpuStates
      BY <1>0 DEF Threads, ThreadShape
    <3>1. CASE cpu'[k] = cpu[k]
      BY <2>5, <3>0, <3>1 DEF Ejecting, InRun
    <3>2. CASE cpu'[k] = [cpu[k] EXCEPT !.pending = TRUE] /\ k < n
      BY <2>2, <2>5, <3>0, <3>2, StartedFacts DEF Ejecting, InRun
    <3>3. CASE cpu'[k] = Started(cpu[k]) /\ ~(k < n)
      BY <2>2, <3>0, <3>3, StartedFacts DEF Ejecting, InRun
    <3> QED
      BY <2>3, <3>1, <3>2, <3>3
  <2>7. Staying' = 0..(desired - 1)
    <3>1. \A i \in Cpus : cpu'[i].active /\ ~cpu'[i].pending <=> i < desired
      <4> SUFFICES ASSUME NEW i \in Cpus
                   PROVE  cpu'[i].active /\ ~cpu'[i].pending <=> i < desired
        OBVIOUS
      <4>1. cpu[i] \in VcpuStates /\ (cpu[i].active <=> i < n) /\ ~cpu[i].pending
        BY <1>0, <2>2
      <4>2. CASE i < n /\ ~(i < desired)
        BY <2>3, <4>1, <4>2, StartedFacts
      <4>3. CASE ~(i < n) /\ i < desired
        <5>1. cpu'[i] = Started(cpu[i])
          BY <2>3, <4>3
        <5>2. Started(cpu[i]).active /\ ~Started(cpu[i]).pending
          BY <4>1, StartedFacts
        <5> QED
          BY <4>3, <5>1, <5>2
      <4> QED
        BY <2>3, <4>1, <4>2, <4>3
    <3>2. Cpus = 0..(MaxVcpus - 1)
      BY DEF Cpus
    <3>3. Staying' = {i \in Cpus : i < desired}
      BY <3>1 DEF Staying
    <3> QED
      BY <2>a, <3>2, <3>3
  <2>8. StayingAreFirst'
    BY <2>7, <2>a DEF StayingAreFirst
  <2> QED
    BY <2>4, <2>6, <2>8 DEF Threads, ThreadShape
<1> QED
  BY <1>1, <1>2

(***************************************************************************)
(* A paused VM stays paused.                                               *)
(***************************************************************************)
LEMMA CallPause ==
    ASSUME IndInv, NEW c \in Callers, CallStep(c) \/ AckRetry(c) \/ NotifyFails(c)
    PROVE  Threads' /\ PauseHolds'
<1>0. Threads /\ PauseHolds /\ CallTypes /\ FlagTypes /\ DriverTypes /\ Control
  BY TypeParts DEF IndInv, Threads, Control
<1>1. CASE Joined(c)
  <2>1. Threads' /\ \A i \in Cpus : ~InRun(i)'
    BY <1>1, ShutdownThreads
  <2>2. c = "owner" /\ call[c].op = "shutdown"
    BY <1>0, <1>1, OtherCaller DEF Joined, Control, CallShape, Fits, At, None
  <2>3. vm' = "Shutdown"
    BY <1>1, <2>2 DEF Joined, Finish
  <2> QED
    BY <2>1, <2>3 DEF PauseHolds
<1>2. ASSUME NEW desired \in 1..MaxVcpus, Resize(c, desired) PROVE Threads' /\ PauseHolds'
  <2>1. Threads' /\ \A i \in Cpus : InRun(i)' => InRun(i)
    BY <1>0, <1>2, ResizeThreads
  <2>2. c = "owner" /\ call[c].op = "resize" /\ At(c, "lock")
    BY <1>0, <1>2, OtherCaller DEF Resize, Control, CallShape, None
  <2>3. vm' = vm /\ sig' = sig
    BY <1>2, <2>2 DEF Resize, Finish
  <2>4. ~Inside("owner")
    BY <2>2 DEF Inside, At
  <2> QED
    BY <1>0, <2>1, <2>3, <2>4 DEF PauseHolds, Doing
<1>3. CASE ~Joined(c) /\ ~(\E desired \in 1..MaxVcpus : Resize(c, desired))
  <2>0. SameThreads
    BY <1>3, CallThreads DEF CallStep
  <2>1. Threads' /\ \A i \in Cpus : InRun(i)' <=> InRun(i)
    BY <1>0, <2>0, SameThreadsStep
  <2>2. CASE Locked(c)
    <3>1. CASE c = "throttle"
      <4>1. throttle \in {"pause", "resume", "last", "panicked"}
        BY <1>0, <2>2, <3>1 DEF Control, ThrottleShape, Locked, At, DriverTypes
      <4>2. vm = "Running" /\ vm' = vm
        BY <1>0, <2>2, <4>1 DEF Control, MigrationShape, Locked
      <4> QED
        BY <2>1, <4>2 DEF PauseHolds
    <3>2. CASE c = "owner"
      <4>1. /\ call'[c].at \notin {"idle", "lock", "panicked"} /\ call'[c].op = call[c].op
            /\ call[c].op \in {"pause", "resume", "nmi", "shutdown"} /\ vm' = vm /\ ~Inside(c)
        BY <1>0, <2>2, CallMoves
           DEF Locked, Control, CallShape, Fits, Operations, At, Inside
      <4>2. /\ call[c].op = "pause" => sig'.pause
            /\ call[c].op = "nmi" => sig'.pause = sig.pause
        BY <1>0, <2>2 DEF Locked, FlagsOf, FlagTypes, Flags
      <4> QED
        BY <1>0, <2>1, <3>2, <4>1, <4>2 DEF PauseHolds, Doing, Inside
    <3> QED
      BY <3>1, <3>2, OtherCaller
  <2>3. CASE Aside
    BY <1>0, <2>1, <2>3 DEF Aside, PauseHolds, Doing, Inside
  <2>4. CASE Moves(c)
    BY <1>0, <2>1, <2>4, OtherCaller DEF Moves, PauseHolds, Doing, Inside
  <2>5. CASE Fails(c)
    <3>1. CASE c = "owner"
      <4>1. vm' = (IF call[c].op = "shutdown" THEN "Dropped" ELSE vm) /\ sig' = sig
            /\ call[c].op # "resume"
        BY <2>5, <3>1 DEF Fails, Fail
      <4> QED
        BY <1>0, <2>1, <3>1, <4>1 DEF PauseHolds, Doing
    <3>2. CASE c = "throttle"
      <4>1. call'["owner"] = call["owner"] /\ vm' = vm /\ sig' = sig
        BY <1>0, <2>5, <3>2, OtherCaller DEF Fails, Fail, CallTypes
      <4> QED
        BY <1>0, <2>1, <4>1 DEF PauseHolds, Doing, Inside
    <3> QED
      BY <3>1, <3>2, OtherCaller
  <2>6. CASE Finishes(c)
    <3>1. CASE c = "throttle"
      <4>1. call'["owner"] = call["owner"] /\ vm' = vm /\ sig'.pause = sig.pause
        BY <1>0, <2>6, <3>1, OtherCaller DEF Finishes, Finish, CallTypes
      <4> QED
        BY <1>0, <2>1, <4>1 DEF PauseHolds, Doing, Inside
    <3>2. CASE c = "owner" /\ call[c].op = "pause"
      <4>1. Parked(c) /\ Inside(c)
        BY <2>6, <3>2 DEF Finishes
      <4>2. sig'.pause
        BY <1>0, <3>2, <4>1 DEF Control, FlagShape, Doing, Parked
      <4>3. \A i \in Cpus : ~InRun(i)
        BY <1>0, <4>1 DEF Parked, AllParked, Active, Threads, ThreadShape, InRun
      <4> QED
        BY <2>1, <4>2, <4>3 DEF PauseHolds
    <3>3. CASE c = "owner" /\ call[c].op # "pause"
      <4>1. /\ vm' = vm \/ vm' \in {"Running", "Shutdown"}
            /\ sig'.pause = sig.pause
            /\ call[c].op \in {"resume", "shutdown"} => vm' # "Paused"
        BY <2>6, <3>3 DEF Finishes, Finish
      <4> QED
        BY <1>0, <2>1, <3>3, <4>1 DEF PauseHolds, Doing
    <3> QED
      BY <3>1, <3>2, <3>3, OtherCaller
  <2> QED
    BY <2>1, <2>2, <2>3, <2>4, <2>5, <2>6, CallKinds
<1> QED
  BY <1>1, <1>2, <1>3

(***************************************************************************)
(* Neither the throttle thread nor the owner moves a thread without an     *)
(* operation of the CpuManager, and the VM becomes Paused only at the end  *)
(* of a pause.                                                             *)
(***************************************************************************)
LEMMA DriverPause ==
    ASSUME IndInv,
           \/ Receive \/ NextPhase \/ Report
           \/ \E op \in {"pause", "resume", "nmi", "resize", "shutdown"} : Request(op)
           \/ StartMigration \/ IncreaseThrottle \/ ResetThrottle \/ OwnerPanics
           \/ StopForMigration \/ EndMigration \/ DropVm
    PROVE  Threads' /\ PauseHolds'
<1>0. Threads /\ PauseHolds /\ CallTypes
  BY TypeParts DEF IndInv, Threads
<1>1. UNCHANGED <<sig, cpu, states>> /\ (vm' = vm \/ vm' = "Dropped")
  BY DEF Receive, NextPhase, Report, Request, StartMigration, IncreaseThrottle,
     ResetThrottle,
         OwnerPanics, StopForMigration, EndMigration, DropVm, OwnerOnly, ThrottleOnly
<1>2. call'["owner"] = call["owner"] \/ At("owner", "idle")
  <2>1. CASE Receive \/ NextPhase
    BY <1>0, <2>1, OtherCaller DEF Receive, NextPhase, Begin, CallTypes
  <2>2. CASE \/ Report \/ StartMigration \/ IncreaseThrottle \/ ResetThrottle \/ OwnerPanics
             \/ StopForMigration \/ EndMigration \/ DropVm
             \/ \E op \in {"pause", "resume", "nmi", "resize", "shutdown"} : Request(op)
    BY <2>2
       DEF Report, Request, StartMigration, IncreaseThrottle, ResetThrottle,
           OwnerPanics,
                StopForMigration, EndMigration, DropVm, OwnerIdle
  <2> QED
    BY <2>1, <2>2
<1>3. SameThreads
  BY <1>0, <1>1 DEF SameThreads, Threads, CpuTypes
<1>4. Threads' /\ \A i \in Cpus : InRun(i)' <=> InRun(i)
  BY <1>0, <1>3, SameThreadsStep
<1>5. ~Doing("owner", "resume")' /\ ~Doing("owner", "shutdown")'
        => ~Doing("owner", "resume") /\ ~Doing("owner", "shutdown")
  BY <1>2 DEF Doing, Inside, At
<1> QED
  BY <1>0, <1>1, <1>4, <1>5 DEF PauseHolds

(***************************************************************************)
(* Type correctness of what is not a thread.                               *)
(***************************************************************************)
LEMMA GotoType ==
    ASSUME CallTypes, NEW c \in Callers, NEW i \in Cpus,
           NEW at \in {"idle", "lock", "unpark", "signal", "ack", "acking", "notify", "park",
                       "parking", "resumed", "unkick", "join", "joining", "panicked"},
           Goto(c, at, i)
    PROVE  CallTypes'
  BY DEF CallTypes, Goto

(***************************************************************************)
(* Every step preserves the types of the calls,                            *)
(***************************************************************************)
LEMMA CallTypesStep ==
    ASSUME IndInv, Next
    PROVE  CallTypes'
<1>0. CallTypes /\ Control /\ 0 \in Cpus /\ \A c \in Callers : call[c].i \in Cpus
  BY TypeParts, FreshType DEF IndInv, CallTypes, Control
<1>a. CASE UNCHANGED call
  BY <1>0, <1>a DEF CallTypes
<1>b. ASSUME NEW c \in Callers, call' = [call EXCEPT ![c] = Idle] PROVE CallTypes'
  BY <1>0, <1>b DEF CallTypes, Idle
<1>c. ASSUME NEW c \in Callers, call' = [call EXCEPT ![c].at = "panicked"] PROVE CallTypes'
  BY <1>0, <1>c DEF CallTypes
<1>d. ASSUME NEW c \in Callers, NEW op \in Operations, Begin(c, op) PROVE CallTypes'
  BY <1>0, <1>d DEF CallTypes, Begin
<1>1. ASSUME NEW i \in Cpus, VcpuStep(i) \/ GuestStep(i) PROVE CallTypes'
  BY <1>a, <1>1, ThreadKinds DEF Aside
<1>2. ASSUME NEW c \in Callers, CallStep(c) \/ AckRetry(c) \/ NotifyFails(c) PROVE CallTypes'
  <2>1. CASE \/ Locked(c) \/ UnparkAll(c) \/ SignalAll(c) \/ AckLock(c) \/ NotifyPaused(c)
             \/ ParkLock(c) \/ JoinLock(c)
    BY <1>0, <2>1, GotoType
    DEF Locked, UnparkAll, SignalAll, AckLock, NotifyPaused, ParkLock, JoinLock
  <2>2. CASE Acked(c)
    <3>1. call[c].op \in {"pause", "nmi", "shutdown"}
      BY <1>0, <2>2 DEF Acked, Control, CallShape, Fits, At
    <3> QED
      BY <1>0, <2>2, <3>1, GotoType DEF Acked, AfterAck
  <2>3. CASE AckTimeout(c) \/ NotifyFails(c)
    BY <1>b, <1>c, <2>3 DEF AckTimeout, NotifyFails, Fail
  <2>4. CASE \/ Parked(c) \/ Resumed(c) \/ Unkick(c) \/ Joined(c)
             \/ \E n \in 1..MaxVcpus : Resize(c, n)
    BY <1>b, <2>4 DEF Parked, Resumed, Unkick, Joined, Resize, Finish
  <2>5. CASE AckRetry(c)
    BY <1>a, <2>5 DEF AckRetry
  <2> QED
    BY <1>2, <2>1, <2>2, <2>3, <2>4, <2>5 DEF CallStep
<1>3. CASE Receive \/ NextPhase \/ Report
  BY <1>a, <1>d, <1>3, OtherCaller DEF Receive, NextPhase, Report, Operations
<1>4. CASE \/ \E op \in {"pause", "resume", "nmi", "resize", "shutdown"} : Request(op)
           \/ StopForMigration \/ EndMigration
  BY <1>a, <1>d, <1>4, OwnerKinds, OtherCaller DEF Calls
<1>5. CASE StartMigration \/ IncreaseThrottle \/ ResetThrottle \/ OwnerPanics \/ DropVm
  BY <1>a, <1>c, <1>5, OtherCaller DEF StartMigration, IncreaseThrottle, ResetThrottle,
                                       OwnerPanics, DropVm, OwnerOnly
<1> QED
  BY <1>1, <1>2, <1>3, <1>4, <1>5 DEF Next

(***************************************************************************)
(* of the owner, the migration and the throttle thread,                    *)
(***************************************************************************)
LEMMA DriverTypesStep ==
    ASSUME IndInv, Next
    PROVE  DriverTypes'
<1>0. DriverTypes /\ Control
  BY TypeParts DEF IndInv, Control
<1>a. CASE UNCHANGED <<throttle, cmds, vm, mig>>
  BY <1>0, <1>a DEF DriverTypes
<1>1. ASSUME NEW i \in Cpus, VcpuStep(i) \/ GuestStep(i) PROVE DriverTypes'
  BY <1>a, <1>1, ThreadKinds DEF Aside
<1>2. ASSUME NEW c \in Callers, CallStep(c) \/ AckRetry(c) \/ NotifyFails(c) PROVE DriverTypes'
  <2>1. CASE Locked(c)
    BY <1>a, <2>1 DEF Locked, ManagerOnly
  <2>2. CASE Aside \/ Moves(c)
    BY <1>a, <2>2 DEF Aside, Moves
  <2>3. CASE Fails(c)
    BY <1>0, <2>3 DEF Fails, Fail, DriverTypes
  <2>4. CASE Finishes(c)
    <3>1. CASE c = "owner"
      BY <1>0, <2>4, <3>1 DEF Finishes, Finish, DriverTypes
    <3>2. CASE c = "throttle"
      <4>1. throttle \in {"pause", "resume", "last"}
        BY <1>0, <2>4, <3>2
        DEF Finishes, DriverTypes, Control, ThrottleShape, CallShape, Inside, At, None
      <4> QED
        BY <1>0, <2>4, <3>2, <4>1 DEF Finishes, Finish, DriverTypes
    <3> QED
      BY <3>1, <3>2, OtherCaller
  <2> QED
    BY <1>2, <2>1, <2>2, <2>3, <2>4, CallKinds
<1>3. CASE Receive
  <2>1. cmds' \in Seq({"throttle", "reset", "exit"}) /\ UNCHANGED <<vm, mig>>
    BY <1>0, <1>3, TailFacts DEF Receive, ThrottleOnly, DriverTypes
  <2>2. throttle' \in {"pause", "resume", "last", "exited", "report"}
    BY <1>3 DEF Receive, EndsWhilePaused, AnswersReset
  <2> QED
    BY <1>0, <2>1, <2>2 DEF DriverTypes
<1>4. CASE NextPhase \/ Report
  BY <1>0, <1>4 DEF NextPhase, Report, ThrottleOnly, DriverTypes
<1>5. CASE \/ \E op \in {"pause", "resume", "nmi", "resize", "shutdown"} : Request(op)
           \/ StopForMigration \/ EndMigration
  BY <1>0, <1>5 DEF Request, StopForMigration, EndMigration, OwnerOnly, DriverTypes
<1>6. CASE StartMigration \/ OwnerPanics
  BY <1>0, <1>6 DEF StartMigration, OwnerPanics, OwnerOnly, OwnerIdle, DriverTypes
<1>7. CASE IncreaseThrottle \/ ResetThrottle \/ DropVm
  BY <1>0, <1>7 DEF IncreaseThrottle, ResetThrottle, DropVm, OwnerOnly, DriverTypes
<1> QED
  BY <1>1, <1>2, <1>3, <1>4, <1>5, <1>6, <1>7 DEF Next

(***************************************************************************)
(* and of the flags and mutexes.                                           *)
(***************************************************************************)
LEMMA FlagTypesStep ==
    ASSUME IndInv, Next
    PROVE  FlagTypes'
<1>0. FlagTypes /\ Control /\ MaxRare \in Nat
  BY TypeParts, VcpuAssumption DEF IndInv, Control
<1>1. sig' \in Flags /\ manager' \in Callers \cup {None, "poisoned"} /\ late' \in BOOLEAN
  <2>a. CASE UNCHANGED <<sig, manager>> /\ (late' = late \/ late' = TRUE)
    BY <1>0, <2>a DEF FlagTypes
  <2>1. ASSUME NEW i \in Cpus, VcpuStep(i) \/ GuestStep(i)
        PROVE  sig' \in Flags /\ manager' \in Callers \cup {None, "poisoned"} /\ late' \in BOOLEAN
    BY <2>a, <2>1, ThreadKinds DEF Aside
  <2>2. ASSUME NEW c \in Callers, CallStep(c) \/ AckRetry(c) \/ NotifyFails(c)
        PROVE  sig' \in Flags /\ manager' \in Callers \cup {None, "poisoned"} /\ late' \in BOOLEAN
    <3>1. CASE Locked(c)
      <4>1. call[c].op \in {"pause", "resume", "nmi", "shutdown"}
        BY <1>0, <3>1 DEF Locked, Control, CallShape, Fits, Operations, At
      <4> QED
        BY <1>0, <3>1, <4>1 DEF Locked, FlagsOf, FlagTypes, Flags
    <3>2. CASE \/ UnparkAll(c) \/ SignalAll(c) \/ AckLock(c) \/ Acked(c) \/ NotifyPaused(c)
               \/ ParkLock(c) \/ JoinLock(c) \/ AckRetry(c)
      BY <2>a, <3>2
         DEF UnparkAll, SignalAll, AckLock, Acked, NotifyPaused, ParkLock, JoinLock,
                        AckRetry
    <3>3. CASE \/ Parked(c) \/ Resumed(c) \/ Joined(c) \/ \E n \in 1..MaxVcpus : Resize(c, n)
      BY <1>0, <3>3 DEF Parked, Resumed, Joined, Resize, Finish, FlagTypes
    <3>4. CASE Unkick(c)
      BY <1>0, <3>4 DEF Unkick, Finish, FlagTypes, Flags
    <3>5. CASE AckTimeout(c) \/ NotifyFails(c)
      BY <1>0, <3>5 DEF AckTimeout, NotifyFails, TimesOut, Fail, FlagTypes
    <3> QED
      BY <2>2, <3>1, <3>2, <3>3, <3>4, <3>5 DEF CallStep
  <2>3. CASE \/ Receive \/ NextPhase \/ Report
             \/ \E op \in {"pause", "resume", "nmi", "resize", "shutdown"} : Request(op)
             \/ StartMigration \/ IncreaseThrottle \/ ResetThrottle \/ OwnerPanics
             \/ StopForMigration \/ EndMigration \/ DropVm
    BY <2>a, <2>3
    DEF Receive, NextPhase, Report, Request, StartMigration, IncreaseThrottle,
        ResetThrottle,
        OwnerPanics, StopForMigration, EndMigration, DropVm, OwnerOnly, ThrottleOnly
  <2> QED
    BY <2>1, <2>2, <2>3 DEF Next
<1>2. states' \in Callers \cup {None, "vcpu"} /\ rare' \in 0..MaxRare
  <2>0. states \in Callers \cup {None, "vcpu"} /\ rare \in 0..MaxRare
        /\ (rare < MaxRare => rare + 1 \in 0..MaxRare)
    BY <1>0 DEF FlagTypes
  <2>1. ASSUME NEW i \in Cpus, VcpuStep(i)
        PROVE  states' \in Callers \cup {None, "vcpu"} /\ rare' \in 0..MaxRare
    BY <2>0, <2>1
    DEF VcpuStep, Top, SetPaused, Park, Interrupted, AccessDone, EjectAcked, EjectTimeout,
        EjectJoined
  <2>2. ASSUME NEW i \in Cpus, GuestStep(i)
        PROVE  states' \in Callers \cup {None, "vcpu"} /\ rare' \in 0..MaxRare
    BY <2>0, <2>2 DEF GuestStep, TopFails, GuestExit, GuestStop, Access, Eject
  <2>3. ASSUME NEW c \in Callers, CallStep(c) \/ AckRetry(c) \/ NotifyFails(c)
        PROVE  states' \in Callers \cup {None, "vcpu"} /\ rare' \in 0..MaxRare
    <3>1. CASE \/ Locked(c) \/ UnparkAll(c) \/ SignalAll(c) \/ AckLock(c) \/ Acked(c)
               \/ NotifyPaused(c) \/ ParkLock(c) \/ JoinLock(c) \/ AckRetry(c)
      BY <2>0, <3>1
         DEF Locked, UnparkAll, SignalAll, AckLock, Acked, NotifyPaused, ParkLock,
                        JoinLock, AckRetry, ManagerOnly
    <3>2. CASE \/ Parked(c) \/ Resumed(c) \/ Joined(c) \/ Unkick(c) \/ AckTimeout(c)
               \/ NotifyFails(c) \/ \E n \in 1..MaxVcpus : Resize(c, n)
      BY <2>0, <3>2 DEF Parked, Resumed, Joined, Unkick, AckTimeout, NotifyFails, Resize
    <3> QED
      BY <2>3, <3>1, <3>2 DEF CallStep
  <2>4. CASE \/ Receive \/ NextPhase \/ Report
             \/ \E op \in {"pause", "resume", "nmi", "resize", "shutdown"} : Request(op)
             \/ StartMigration \/ IncreaseThrottle \/ ResetThrottle \/ OwnerPanics
             \/ StopForMigration \/ EndMigration \/ DropVm
    BY <2>0, <2>4
    DEF Receive, NextPhase, Report, Request, StartMigration, IncreaseThrottle,
        ResetThrottle,
        OwnerPanics, StopForMigration, EndMigration, DropVm, OwnerOnly, ThrottleOnly
  <2> QED
    BY <2>1, <2>2, <2>3, <2>4 DEF Next
<1> QED
  BY <1>1, <1>2 DEF FlagTypes

(***************************************************************************)
(* The invariant holds when the VM boots.                                  *)
(***************************************************************************)
LEMMA InitInv == Init => IndInv
<1> SUFFICES ASSUME Init PROVE IndInv
  OBVIOUS
<1>0. \A i \in Cpus : cpu[i] = IF i < BootVcpus THEN Started(Fresh) ELSE Fresh
  BY DEF Init
<1>1. /\ Started(Fresh) \in VcpuStates /\ Started(Fresh).pc = "top" /\ Started(Fresh).active
      /\ ~Started(Fresh).pending /\ ~Started(Fresh).paused
      /\ Fresh.pc = "off" /\ ~Fresh.active /\ ~Fresh.pending /\ ~Fresh.paused
      /\ Fresh \in VcpuStates
  <2>1. Fresh \in VcpuStates /\ Fresh.pc = "off" /\ ~Fresh.active /\ ~Fresh.pending /\ ~Fresh.paused
    BY FreshType DEF Fresh
  <2> QED
    BY <2>1, StartedFacts
<1>2. CpuTypes
  <2>1. \A i \in Cpus : cpu[i] \in VcpuStates
    BY <1>0, <1>1
  <2> QED
    BY <2>1 DEF Init, CpuTypes
<1>3. CallTypes /\ \A c \in Callers : call[c] = Idle /\ call[c].at = "idle" /\ call[c].op = None
  BY FreshType DEF Init, CallTypes, Idle
<1>4. DriverTypes /\ FlagTypes
  <2>1. sig \in Flags
    BY DEF Init, Flags
  <2>2. rare \in 0..MaxRare
    BY VcpuAssumption DEF Init
  <2>3. cmds \in Seq({"throttle", "reset", "exit"})
    BY DEF Init
  <2> QED
    BY <2>1, <2>2, <2>3 DEF Init, DriverTypes, FlagTypes
<1>5. CallShape /\ LockShape /\ ThrottleShape
  BY <1>3, OtherCaller
     DEF Init, CallShape, LockShape, ThrottleShape, Fits, Inside, Holding, At
<1>6. MigrationShape
  BY <1>3, OtherCaller DEF Init, MigrationShape, Throttling, At
<1>7. FlagShape
  BY <1>3, OtherCaller DEF Init, FlagShape, Doing, Inside
<1>8. ThreadShape /\ PauseHolds
  BY <1>0, <1>1 DEF Init, ThreadShape, Ejecting, PauseHolds, InRun
<1>9. StayingAreFirst
  <2>1. \A i \in Cpus : cpu[i].active /\ ~cpu[i].pending <=> i < BootVcpus
    BY <1>0, <1>1
  <2>2. Staying = {i \in Cpus : i < BootVcpus}
    BY <2>1 DEF Staying
  <2>3. Staying = 0..(BootVcpus - 1) /\ BootVcpus \in 0..MaxVcpus
    BY <2>2, VcpuAssumption DEF Cpus
  <2> QED
    BY <2>3 DEF StayingAreFirst
<1> QED
  BY <1>2, <1>3, <1>4, <1>5, <1>6, <1>7, <1>8, <1>9, TypeParts DEF IndInv

(***************************************************************************)
(* It says nothing of what is outside of the model.                        *)
(***************************************************************************)
LEMMA StutterInv == IndInv /\ UNCHANGED vars => IndInv'
<1> SUFFICES ASSUME IndInv, UNCHANGED vars PROVE IndInv'
  OBVIOUS
<1> USE DEF vars
<1>1. TypeOK' /\ CallShape' /\ LockShape' /\ ThrottleShape'
  BY DEF IndInv, TypeOK, CallShape, LockShape, ThrottleShape, Inside, At, VcpuStates
<1>2. MigrationShape' /\ FlagShape' /\ PauseHolds'
  BY DEF IndInv, MigrationShape, Throttling, FlagShape, PauseHolds, InRun, Doing,
     Inside, At
<1>3. ThreadShape' /\ StayingAreFirst'
  BY DEF IndInv, ThreadShape, Ejecting, StayingAreFirst, Staying
<1> QED
  BY <1>1, <1>2, <1>3 DEF IndInv

(***************************************************************************)
(* Every step preserves the invariant.                                     *)
(***************************************************************************)
LEMMA NextInv == IndInv /\ [Next]_vars => IndInv'
<1> SUFFICES ASSUME IndInv, Next PROVE IndInv'
  BY StutterInv
<1>1. Threads' /\ PauseHolds'
  BY ThreadStep, CallPause, DriverPause DEF Next
<1>2. TypeOK'
  <2>1. CpuTypes'
    BY <1>1 DEF Threads
  <2> QED
    BY <2>1, TypeParts, CallTypesStep, DriverTypesStep, FlagTypesStep, PTL
<1> QED
  BY <1>1, <1>2, ControlStep DEF IndInv, Threads, Control

(***************************************************************************)
(* The inductive invariant holds in every state, for every number of vCPUs *)
(* and of throttle commands and however often the rare failures happen.    *)
(***************************************************************************)
THEOREM IndInvHolds == Spec => []IndInv
  BY InitInv, NextInv, PTL DEF Spec

(***************************************************************************)
(* The flags, the vCPU states, the mutexes and the operations of           *)
(* CpuManager keep their types.                                            *)
(***************************************************************************)
THEOREM TypeCorrect == Spec => []TypeOK
<1>1. IndInv => TypeOK
  BY DEF IndInv
<1> QED
  BY <1>1, IndInvHolds, PTL

(***************************************************************************)
(* For every number of vCPUs: once Vm::pause has returned, and until the   *)
(* owner resumes the VM or shuts it down, no vCPU is in vcpu.run().        *)
(* CpuManager::pause returns only with every thread parked under           *)
(* vcpus_pause_signalled, and neither the throttle thread nor a late       *)
(* resize or eject clears the flag or starts a thread behind it.           *)
(***************************************************************************)
THEOREM PausedVmIsParked == Spec => []PausedMeansParked
<1>1. IndInv => PausedMeansParked
  BY DEF IndInv, PauseHolds, PausedMeansParked, Doing, Inside, At
<1> QED
  BY <1>1, IndInvHolds, PTL

(***************************************************************************)
(* A Running VM that nobody pauses has neither vcpus_pause_signalled nor   *)
(* vcpus_kick_signalled set after any history of migrations, throttling,   *)
(* NMIs and resizes in which no operation failed: the throttle thread      *)
(* never leaves its loop between a pause and the resume.                   *)
(***************************************************************************)
THEOREM RunningVmIsNotLeftPaused == Spec => []NotLeftPaused
<1>1. IndInv => NotLeftPaused
  BY DEF IndInv, FlagShape, MigrationShape, Throttling, NotLeftPaused, Doing, Inside, At
<1> QED
  BY <1>1, IndInvHolds, PTL
=============================================================================
