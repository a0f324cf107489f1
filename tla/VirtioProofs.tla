---------------------------- MODULE VirtioProofs ----------------------------
(***************************************************************************)
(* Proofs about the virtio devices: their activation through the PCI       *)
(* transport, and the pause of their workers.                              *)
(*                                                                         *)
(* VirtioPci, for every number of vCPUs and of set-ups: the device works   *)
(* on the queues that the driver set up last, and a paused VM has no       *)
(* activation outstanding.                                                 *)
(*                                                                         *)
(* VirtioPause, for every set of workers: the barrier holds exactly the    *)
(* threads that wait on it, and a device whose pause has returned is quiet *)
(* until it is resumed or reset.                                           *)
(*                                                                         *)
(* The two are separate specifications without a common variable.          *)
(***************************************************************************)
EXTENDS VirtioPci, VirtioPause, TLAPS

\* Set-up queues have a number, and an activator under way has a thread.
Shape ==
    /\ status # "init" => queues # 0
    /\ act.who = "none" <=> act.at = "idle"

\* A device with all its workers is marked activated, or is about to be.
WorkersAreMarked == serving # 0 => activated \/ act.at = "store"

\* An activator that has not reached its barrier is under way.
UnderWay == act.at \in {"activate", "store"}

\* As long as the driver does not reset the device under an activator, a driver
\* that has not written DRIVER_OK has a device that is off, whatever workers a
\* failed activation left.
OffBeforeDriverOk ==
    (~raced /\ status \in {"init", "setup"}) =>
        ~activated /\ serving = 0 /\ pending = <<>> /\ ~UnderWay

\* And after DRIVER_OK there is at most one activator, with the latest queues.
OneActivator ==
    (~raced /\ status \in {"ok", "needs_reset"}) =>
        /\ serving \in {0, queues}
        /\ pending # <<>> => Len(pending) = 1 /\ pending[1].q = queues /\ ~UnderWay
        /\ act.at = "activate" => act.q = queues
        /\ act.at = "store" => serving = queues

\* A half activated device is off, and an activator finds its device off.
HalfIsOff ==
    ~raced =>
        /\ half # 0 => serving = 0 /\ ~activated /\ act.at # "store"
        /\ pending # <<>> \/ UnderWay => ~activated

\* The vCPU of every activator waits at the barrier, each at its own.
WaitAtBarrier ==
    ~alone =>
        /\ \A k \in 1..Len(pending) :
             /\ pending[k].by \in Vcpus /\ vcpu[pending[k].by] = "barrier"
             /\ \A l \in 1..Len(pending) : pending[k].by = pending[l].by => k = l
             /\ act.at # "idle" => pending[k].by # act.by
        /\ act.at # "idle" => act.by \in Vcpus /\ vcpu[act.by] = "barrier"

\* The vCPUs of a paused VM are parked.
PausedIsParked == state = "Paused" => AllParked

\* A driver that wrote DRIVER_OK has its device or an activator on the way.
ServedOrPending ==
    (~raced /\ ~alone /\ status = "ok") =>
        serving = queues \/ pending # <<>> \/ act.at = "activate"

(***************************************************************************)
(* The inductive invariant.                                                *)
(***************************************************************************)
IndInv ==
    /\ TypeOK /\ Shape /\ WorkersAreMarked /\ OffBeforeDriverOk /\ OneActivator
    /\ HalfIsOff /\ WaitAtBarrier /\ PausedIsParked /\ ServedOrPending
-----------------------------------------------------------------------------
\* Whoever activates takes the first of the pending activators, if there is one.
TakesNext ==
    \/ pending = <<>> /\ act' = NoAct /\ pending' = <<>>
    \/ /\ pending # <<>> /\ Len(pending') = Len(pending) - 1
       /\ \A k \in 1..Len(pending') : pending'[k] = pending[k + 1]
       /\ act'.at = "activate" /\ act'.who # "none"
       /\ act'.q = pending[1].q /\ act'.by = pending[1].by

(***************************************************************************)
(* The first of a sequence and the others.                                 *)
(***************************************************************************)
LEMMA HeadAndTail ==
    ASSUME NEW A, NEW s \in Seq(A), s # <<>>
    PROVE  /\ s[1] \in A /\ Head(s) = s[1] /\ Tail(s) \in Seq(A)
           /\ Len(Tail(s)) = Len(s) - 1
           /\ \A k \in 1..Len(Tail(s)) : Tail(s)[k] = s[k + 1]
  OBVIOUS

(***************************************************************************)
(* activate_virtio_devices takes the activators in order.                  *)
(***************************************************************************)
LEMMA TakeNext ==
    ASSUME TypeOK, NEW who \in {"loop", "pause"},
           act' = NextActivator(who, pending), pending' = Rest(pending)
    PROVE  /\ TakesNext
           /\ pending' \in Seq([q : 1..MaxInits, by : {0} \cup Vcpus])
           /\ act' \in [who : {"none", "loop", "pause"},
                        at : {"idle", "activate", "store", "barrier"},
                        q : 0..MaxInits, by : {0} \cup Vcpus]
<1> USE VirtioPciAssumption DEF TypeOK, NextActivator, Rest, NoAct
<1>1. CASE pending = <<>>
  BY <1>1 DEF TakesNext
<1>2. CASE pending # <<>>
  <2>1. /\ pending[1] \in [q : 1..MaxInits, by : {0} \cup Vcpus]
        /\ Tail(pending) \in Seq([q : 1..MaxInits, by : {0} \cup Vcpus])
        /\ Len(Tail(pending)) = Len(pending) - 1
        /\ \A k \in 1..Len(Tail(pending)) : Tail(pending)[k] = pending[k + 1]
        /\ Head(pending) = pending[1]
    <3> DEFINE A == [q : 1..MaxInits, by : {0} \cup Vcpus]
    <3>1. pending \in Seq(A)
      OBVIOUS
    <3> HIDE DEF A
    <3>2. /\ pending[1] \in A /\ Head(pending) = pending[1] /\ Tail(pending) \in Seq(A)
          /\ Len(Tail(pending)) = Len(pending) - 1
          /\ \A k \in 1..Len(Tail(pending)) : Tail(pending)[k] = pending[k + 1]
      BY <1>2, <3>1, HeadAndTail
    <3> QED
      BY <3>2 DEF A
  <2>2. /\ act' = [who |-> who, at |-> "activate", q |-> pending[1].q, by |-> pending[1].by]
        /\ pending' = Tail(pending)
    BY <1>2, <2>1
  <2>3. /\ act'.at = "activate" /\ act'.who = who
        /\ act'.q = pending[1].q /\ act'.by = pending[1].by
    BY <2>2
  <2>4. act' \in [who : {"none", "loop", "pause"},
                 at : {"idle", "activate", "store", "barrier"},
                 q : 0..MaxInits, by : {0} \cup Vcpus]
    BY <2>1, <2>2
  <2> QED
    BY <1>2, <2>1, <2>2, <2>3, <2>4 DEF TakesNext
<1> QED
  BY <1>1, <1>2

(***************************************************************************)
(* The driver sets its queues up: the device is off.                       *)
(***************************************************************************)
LEMMA SetUpKeeps ==
    ASSUME IndInv, \E v \in Vcpus : SetUp(v)
    PROVE  IndInv'
<1> USE VirtioPciAssumption 
        DEF IndInv, UnderWay, AllParked, Vcpus
<1>1. TypeOK'
  BY DEF SetUp, TypeOK
<1>2. Shape' /\ WorkersAreMarked' /\ OffBeforeDriverOk' /\ OneActivator'
  BY DEF SetUp, TypeOK, Shape, WorkersAreMarked, OffBeforeDriverOk, OneActivator
<1>3. WaitAtBarrier' /\ PausedIsParked' /\ ServedOrPending'
  BY DEF SetUp, TypeOK, WaitAtBarrier, PausedIsParked, ServedOrPending
<1>h. HalfIsOff'
  BY DEF SetUp, HalfIsOff, OffBeforeDriverOk, OneActivator,
         WorkersAreMarked, Shape, TypeOK
<1> QED
  BY <1>1, <1>2, <1>3, <1>h

(***************************************************************************)
(* DRIVER_OK of a driver adds the only activator, with the latest queues,  *)
(* and its vCPU goes to the barrier.                                       *)
(***************************************************************************)
LEMMA DriverOkKeeps ==
    ASSUME IndInv, \E v \in Vcpus, w \in BOOLEAN : DriverOk(v, w)
    PROVE  IndInv'
<1> USE VirtioPciAssumption 
        DEF IndInv, UnderWay, AllParked, Vcpus, needs_activation, GetsBarrier
<1>v. PICK v \in Vcpus, w \in BOOLEAN : DriverOk(v, w)
  OBVIOUS
<1>p. /\ activated => UNCHANGED <<pending, evt, vcpu, alone>>
      /\ ~activated =>
           /\ act.at = "idle" /\ evt' = TRUE /\ (alone' <=> alone \/ w)
           /\ pending' \in Seq([q : 1..MaxInits, by : {0} \cup Vcpus])
           /\ Len(pending') = Len(pending) + 1
           /\ \A k \in 1..Len(pending) : pending'[k] = pending[k]
           /\ pending'[Len(pending')].q = queues
           /\ ~w => /\ pending'[Len(pending')].by = v
                    /\ vcpu' = [vcpu EXCEPT ![v] = "barrier"]
           /\ w => vcpu' = vcpu
  <2>1. CASE activated
    BY <1>v, <2>1 DEF DriverOk
  <2>2. CASE ~activated
    <3> DEFINE A == [q : 1..MaxInits, by : {0} \cup Vcpus]
               x == [q |-> queues, by |-> IF GetsBarrier(w) THEN v ELSE 0]
    <3>1. pending \in Seq(A) /\ x \in A /\ x.q = queues /\ (~w => x.by = v)
      BY <1>v DEF TypeOK, Shape, DriverOk
    <3>2. pending' = Append(pending, x)
      BY <1>v, <2>2 DEF DriverOk
    <3> HIDE DEF A, x
    <3>3. /\ pending' \in Seq(A) /\ Len(pending') = Len(pending) + 1
          /\ \A k \in 1..Len(pending) : pending'[k] = pending[k]
          /\ pending'[Len(pending')] = x
      BY <3>1, <3>2
    <3>4. pending' \in Seq([q : 1..MaxInits, by : {0} \cup Vcpus])
      BY <3>3 DEF A
    <3>5. act.at = "idle" /\ evt' = TRUE /\ (alone' <=> alone \/ w)
      BY <1>v, <2>2 DEF DriverOk, Shape
    <3>6. vcpu' = IF ~w THEN [vcpu EXCEPT ![v] = "barrier"] ELSE vcpu
      BY <1>v, <2>2 DEF DriverOk
    <3> QED
      BY <2>2, <3>1, <3>3, <3>4, <3>5, <3>6
  <2> QED
    BY <2>1, <2>2
<1>1. TypeOK'
  <2>1. /\ pending' \in Seq([q : 1..MaxInits, by : {0} \cup Vcpus])
        /\ vcpu' \in [Vcpus -> {"run", "barrier", "parked"}] /\ evt' \in BOOLEAN
    BY <1>v, <1>p DEF TypeOK
  <2>2. alone' \in BOOLEAN
    BY <1>v DEF TypeOK, DriverOk
  <2> QED
    BY <1>v, <2>1, <2>2 DEF TypeOK, DriverOk
<1>2. Shape'
  BY DEF DriverOk, Shape, TypeOK
<1>3. WorkersAreMarked'
  BY DEF DriverOk, WorkersAreMarked, Shape
<1>4. OffBeforeDriverOk'
  BY DEF DriverOk, OffBeforeDriverOk, WorkersAreMarked, Shape
<1>5. OneActivator'
  BY DEF DriverOk, OneActivator, OffBeforeDriverOk, Shape
<1>6. WaitAtBarrier'
  <2> SUFFICES ASSUME ~alone' PROVE WaitAtBarrier'
    BY DEF WaitAtBarrier
  <2>1. CASE activated
    BY <1>v, <1>p, <2>1 DEF DriverOk, WaitAtBarrier
  <2>2. CASE ~activated
    <3>1. /\ ~alone /\ ~w /\ act.at = "idle" /\ act' = act /\ vcpu[v] = "run"
      BY <1>v, <1>p, <2>2 DEF DriverOk
    <3>2. /\ \A k \in 1..Len(pending) :
               /\ pending[k].by \in Vcpus /\ vcpu[pending[k].by] = "barrier"
               /\ pending[k].by # v
          /\ \A k, l \in 1..Len(pending) : pending[k].by = pending[l].by => k = l
      BY <3>1 DEF WaitAtBarrier
    <3>3. /\ \A k \in 1..Len(pending) :
               pending'[k] = pending[k] /\ vcpu'[pending[k].by] = "barrier"
          /\ pending'[Len(pending')].by = v /\ vcpu'[v] = "barrier"
          /\ Len(pending') = Len(pending) + 1 /\ Len(pending) \in Nat
      <4>1. /\ vcpu' = [vcpu EXCEPT ![v] = "barrier"]
            /\ vcpu \in [Vcpus -> {"run", "barrier", "parked"}]
        BY <1>p, <2>2, <3>1 DEF TypeOK
      <4>2. Len(pending) \in Nat
        BY DEF TypeOK
      <4> QED
        BY <1>p, <2>2, <3>1, <3>2, <4>1, <4>2
    <3> HIDE DEF IndInv
    <3>4. \A k \in 1..Len(pending') : k \in 1..Len(pending) \/ k = Len(pending')
      BY <3>3
    <3>5. \A k \in 1..Len(pending') :
            pending'[k].by \in Vcpus /\ vcpu'[pending'[k].by] = "barrier"
      BY <1>v, <3>2, <3>3, <3>4
    <3>6. \A k, l \in 1..Len(pending') : pending'[k].by = pending'[l].by => k = l
      BY <3>2, <3>3, <3>4
    <3> QED
      BY <3>1, <3>5, <3>6 DEF WaitAtBarrier
  <2> QED
    BY <2>1, <2>2
<1>7. PausedIsParked'
  BY DEF DriverOk, PausedIsParked, TypeOK
<1>8. ServedOrPending'
  <2>1. CASE activated
    BY <1>v, <2>1 DEF DriverOk, ServedOrPending, OffBeforeDriverOk
  <2>2. CASE ~activated
    <3>1. Len(pending) \in Nat
      BY DEF TypeOK
    <3>2. pending' # <<>>
      BY <1>p, <2>2, <3>1
    <3> QED
      BY <3>2 DEF ServedOrPending
  <2> QED
    BY <2>1, <2>2
<1>h. HalfIsOff'
  BY DEF DriverOk, HalfIsOff, OffBeforeDriverOk, OneActivator,
         WorkersAreMarked, Shape, TypeOK
<1> QED
  BY <1>1, <1>2, <1>3, <1>4, <1>5, <1>6, <1>7, <1>8, <1>h

(***************************************************************************)
(* A reset with nothing under way leaves a device that is off; with an     *)
(* activator under way it is a race.                                       *)
(***************************************************************************)
LEMMA ResetKeeps ==
    ASSUME IndInv, \E v \in Vcpus : Reset(v)
    PROVE  IndInv'
<1> USE VirtioPciAssumption 
        DEF IndInv, UnderWay, AllParked, Vcpus, ResetsDevice
<1>1. TypeOK'
  <2>1. raced' \in BOOLEAN
    BY DEF Reset
  <2>2. serving' \in 0..MaxInits /\ half' \in 0..MaxInits /\ queues' \in 0..MaxInits
    <3>1. (serving' = 0 \/ serving' = serving) /\ half' \in {0, half} /\ queues' = 0
      BY DEF Reset
    <3> QED
      BY <3>1 DEF TypeOK
  <2>4. activated' \in BOOLEAN
    BY DEF Reset
  <2>3. /\ status' = "init"
        /\ UNCHANGED <<inits, pending, evt, act, vcpu, flag, pause, state, alone>>
    BY DEF Reset
  <2> QED
    BY <2>1, <2>2, <2>3, <2>4 DEF TypeOK
<1>2. Shape'
  BY DEF Reset, Shape, TypeOK
<1>3. WorkersAreMarked'
  BY DEF Reset, WorkersAreMarked, Shape
<1>4. OffBeforeDriverOk'
  BY DEF Reset, OffBeforeDriverOk, WorkersAreMarked, Shape
<1>5. OneActivator'
  BY DEF Reset, OneActivator, OffBeforeDriverOk, Shape
<1>6. WaitAtBarrier'
  <2>1. UNCHANGED <<pending, act, vcpu, alone>>
    BY DEF Reset
  <2> QED
    BY <2>1 DEF WaitAtBarrier
<1>7. PausedIsParked'
  BY DEF Reset, PausedIsParked, TypeOK
<1>8. ServedOrPending'
  BY DEF Reset, ServedOrPending, OffBeforeDriverOk, OneActivator, WaitAtBarrier,
         PausedIsParked, WorkersAreMarked, Shape, TypeOK
<1>h. HalfIsOff'
  BY DEF Reset, HalfIsOff, OffBeforeDriverOk, OneActivator,
         WorkersAreMarked, Shape, TypeOK
<1> QED
  BY <1>1, <1>2, <1>3, <1>4, <1>5, <1>6, <1>7, <1>8, <1>h

(***************************************************************************)
(* A vCPU that parks is not at a barrier.                                  *)
(***************************************************************************)
LEMMA ParkKeeps ==
    ASSUME IndInv, \E v \in Vcpus : Park(v)
    PROVE  IndInv'
<1> USE VirtioPciAssumption 
        DEF IndInv, UnderWay, AllParked, Vcpus, dev
<1>1. TypeOK'
  BY DEF Park, TypeOK
<1>2. Shape' /\ WorkersAreMarked' /\ OffBeforeDriverOk' /\ OneActivator'
  BY DEF Park, TypeOK, Shape, WorkersAreMarked, OffBeforeDriverOk, OneActivator
<1>3. WaitAtBarrier' /\ PausedIsParked' /\ ServedOrPending'
  BY DEF Park, TypeOK, WaitAtBarrier, PausedIsParked, ServedOrPending
<1>h. HalfIsOff'
  BY DEF Park, HalfIsOff, OffBeforeDriverOk, OneActivator,
         WorkersAreMarked, Shape, TypeOK
<1> QED
  BY <1>1, <1>2, <1>3, <1>h

(***************************************************************************)
(* A worker asks for a reset.                                              *)
(***************************************************************************)
LEMMA NeedsResetKeeps ==
    ASSUME IndInv, NeedsReset
    PROVE  IndInv'
<1> USE VirtioPciAssumption 
        DEF IndInv, UnderWay, AllParked, Vcpus
<1>1. TypeOK'
  BY DEF NeedsReset, TypeOK
<1>2. Shape' /\ WorkersAreMarked' /\ OffBeforeDriverOk' /\ OneActivator'
  BY DEF NeedsReset, TypeOK, Shape, WorkersAreMarked, OffBeforeDriverOk, OneActivator
<1>3. WaitAtBarrier' /\ PausedIsParked' /\ ServedOrPending'
  BY DEF NeedsReset, TypeOK, WaitAtBarrier, PausedIsParked, ServedOrPending
<1>h. HalfIsOff'
  BY DEF NeedsReset, HalfIsOff, OffBeforeDriverOk, OneActivator,
         WorkersAreMarked, Shape, TypeOK
<1> QED
  BY <1>1, <1>2, <1>3, <1>h

(***************************************************************************)
(* The activator gives the device the queues it was made with.             *)
(***************************************************************************)
LEMMA ActivateKeeps ==
    ASSUME IndInv, Activate
    PROVE  IndInv'
<1> USE VirtioPciAssumption 
        DEF IndInv, UnderWay, AllParked, Vcpus, AfterFailure, Failure
<1>s. /\ act' \in [who : {"none", "loop", "pause"},
                   at : {"idle", "activate", "store", "barrier"},
                   q : 0..MaxInits, by : {0} \cup Vcpus]
      /\ act'.who = act.who /\ act'.q = act.q /\ act'.by = act.by /\ act.who # "none"
      /\ \/ act'.at = "store" /\ serving' = act.q /\ half' = 0 /\ status' = status
         \/ act'.at = "barrier" /\ serving' \in {0, serving} /\ half' \in {0, half, act.q}
            /\ (half' = half \/ serving' = 0) /\ status' \in {status, "needs_reset"}
            /\ (status # "ok" => status' = status) /\ status' # "ok"
  BY DEF Activate, TypeOK, Shape
<1>1. TypeOK'
  <2>1. /\ status' \in {"init", "setup", "ok", "needs_reset"}
        /\ serving' \in 0..MaxInits /\ half' \in 0..MaxInits
    BY <1>s DEF TypeOK
  <2> QED
    BY <1>s, <2>1 DEF Activate, TypeOK
<1>2. Shape'
  BY DEF Activate, Shape, TypeOK
<1>3. WorkersAreMarked'
  <2>1. act.at = "activate" /\ UNCHANGED activated
    BY DEF Activate
  <2> QED
    BY <1>s, <2>1 DEF WorkersAreMarked
<1>4. OffBeforeDriverOk'
  BY DEF Activate, OffBeforeDriverOk, WorkersAreMarked, Shape
<1>5. OneActivator'
  BY <1>s DEF Activate, OneActivator, OffBeforeDriverOk
<1>6. WaitAtBarrier'
  BY DEF Activate, WaitAtBarrier, PausedIsParked, TypeOK, Shape
<1>7. PausedIsParked'
  BY DEF Activate, PausedIsParked, TypeOK
<1>8. ServedOrPending'
  BY DEF Activate, ServedOrPending, OffBeforeDriverOk, OneActivator, WaitAtBarrier,
         PausedIsParked, WorkersAreMarked, Shape, TypeOK
<1>h. HalfIsOff'
  BY DEF Activate, HalfIsOff, OffBeforeDriverOk, OneActivator,
         WorkersAreMarked, Shape, TypeOK
<1> QED
  BY <1>1, <1>2, <1>3, <1>4, <1>5, <1>6, <1>7, <1>8, <1>h

(***************************************************************************)
(* The device is marked activated after it got its workers.                *)
(***************************************************************************)
LEMMA StoreKeeps ==
    ASSUME IndInv, Store
    PROVE  IndInv'
<1> USE VirtioPciAssumption 
        DEF IndInv, UnderWay, AllParked, Vcpus
<1>1. TypeOK'
  <2> HIDE DEF IndInv, UnderWay, AllParked, Vcpus
  <2>t. TypeOK
    BY DEF IndInv
  <2> QED
    BY <2>t DEF Store, TypeOK
<1>2. Shape'
  BY DEF Store, Shape, TypeOK
<1>3. WorkersAreMarked'
  BY DEF Store, WorkersAreMarked, Shape
<1>4. OffBeforeDriverOk'
  BY DEF Store, OffBeforeDriverOk, WorkersAreMarked, Shape
<1>5. OneActivator'
  BY DEF Store, OneActivator, OffBeforeDriverOk, Shape
<1>6. WaitAtBarrier'
  BY DEF Store, WaitAtBarrier, PausedIsParked, TypeOK, Shape
<1>7. PausedIsParked'
  BY DEF Store, PausedIsParked, TypeOK
<1>8. ServedOrPending'
  BY DEF Store, ServedOrPending, OffBeforeDriverOk, OneActivator, WaitAtBarrier,
         PausedIsParked, WorkersAreMarked, Shape, TypeOK
<1>h. HalfIsOff'
  BY DEF Store, HalfIsOff, OffBeforeDriverOk, OneActivator,
         WorkersAreMarked, Shape, TypeOK
<1> QED
  BY <1>1, <1>2, <1>3, <1>4, <1>5, <1>6, <1>7, <1>8, <1>h

(***************************************************************************)
(* The vCPU is released, and nobody else waits at its barrier.             *)
(***************************************************************************)
LEMMA MeetKeeps ==
    ASSUME IndInv, Meet
    PROVE  IndInv'
<1> USE VirtioPciAssumption 
        DEF IndInv, UnderWay, AllParked, Vcpus, dev
<1>n. /\ TakesNext
      /\ pending' \in Seq([q : 1..MaxInits, by : {0} \cup Vcpus])
      /\ act' \in [who : {"none", "loop", "pause"},
                   at : {"idle", "activate", "store", "barrier"},
                   q : 0..MaxInits, by : {0} \cup Vcpus]
  BY TakeNext DEF Meet, TypeOK, Shape
<1>1. TypeOK'
  BY <1>n DEF Meet,
         TakesNext, NoAct, TypeOK
<1>2. Shape'
  BY <1>n DEF Meet,
         TakesNext, NoAct, Shape, TypeOK
<1>3. WorkersAreMarked'
  BY <1>n DEF Meet,
         TakesNext, NoAct, WorkersAreMarked, Shape
<1>4. OffBeforeDriverOk'
  BY <1>n DEF Meet,
         TakesNext, NoAct, OffBeforeDriverOk, WorkersAreMarked, Shape
<1>5. OneActivator'
  <2>1. CASE pending = <<>>
    BY <1>n, <2>1 DEF Meet, TakesNext, NoAct, OneActivator
  <2>2. CASE pending # <<>>
    <3>1. /\ act'.at = "activate" /\ act'.q = pending[1].q
          /\ UNCHANGED <<serving, queues, status, raced>>
      BY <1>n, <2>2 DEF Meet, TakesNext
    <3>2. (~raced /\ status \in {"ok", "needs_reset"}) => Len(pending) = 1
      BY <2>2 DEF OneActivator
    <3>3. Len(pending) = 1 => pending' = <<>>
      BY <1>n, <2>2 DEF TakesNext
    <3> QED
      BY <2>2, <3>1, <3>2, <3>3 DEF OneActivator
  <2> QED
    BY <2>1, <2>2
<1>6. WaitAtBarrier'
  <2> SUFFICES ASSUME ~alone PROVE WaitAtBarrier'
    BY DEF WaitAtBarrier, Meet
  <2>1. CASE pending = <<>>
    BY <1>n, <2>1 DEF Meet, TakesNext, NoAct, WaitAtBarrier, TypeOK
  <2>2. CASE pending # <<>>
    <3>1. /\ act'.at = "activate" /\ act'.by = pending[1].by /\ UNCHANGED alone
          /\ Len(pending) \in Nat \ {0} /\ Len(pending') = Len(pending) - 1
          /\ \A k \in 1..Len(pending') : pending'[k] = pending[k + 1]
      BY <1>n, <2>2 DEF Meet, TakesNext, TypeOK
    <3>2. \A k \in 1..Len(pending) :
            /\ pending[k].by \in Vcpus /\ vcpu[pending[k].by] = "barrier"
            /\ \A l \in 1..Len(pending) : pending[k].by = pending[l].by => k = l
            /\ act.at # "idle" => pending[k].by # act.by
      BY DEF WaitAtBarrier
    <3>3. \A k \in 1..Len(pending) : vcpu'[pending[k].by] = "barrier"
      BY <3>2 DEF Meet, TypeOK
    <3>4. 1 \in 1..Len(pending) /\ \A k \in 1..Len(pending') : k + 1 \in 2..Len(pending)
      BY <3>1
    <3>5. ASSUME NEW k \in 1..Len(pending')
          PROVE  /\ pending'[k].by \in Vcpus /\ vcpu'[pending'[k].by] = "barrier"
                 /\ pending'[k].by # act'.by
      <4>1. pending'[k] = pending[k + 1] /\ k + 1 \in 1..Len(pending) /\ k + 1 # 1
        BY <3>1
      <4> QED
        BY <3>1, <3>2, <3>3, <3>4, <4>1
    <3>6. ASSUME NEW k \in 1..Len(pending'), NEW l \in 1..Len(pending'),
                 pending'[k].by = pending'[l].by
          PROVE  k = l
      <4>1. /\ pending'[k] = pending[k + 1] /\ k + 1 \in 1..Len(pending)
            /\ pending'[l] = pending[l + 1] /\ l + 1 \in 1..Len(pending)
        BY <3>1
      <4>2. k + 1 = l + 1
        BY <3>2, <3>6, <4>1
      <4> QED
        BY <4>2
    <3> QED
      BY <3>1, <3>2, <3>3, <3>4, <3>5, <3>6 DEF WaitAtBarrier
  <2> QED
    BY <2>1, <2>2
<1>7. PausedIsParked'
  BY <1>n DEF Meet,
         TakesNext, NoAct, PausedIsParked, TypeOK
<1>8. ServedOrPending'
  BY <1>n DEF Meet,
         TakesNext, NoAct, ServedOrPending, OffBeforeDriverOk, OneActivator, WaitAtBarrier,
         PausedIsParked, WorkersAreMarked, Shape, TypeOK
<1>h. HalfIsOff'
  BY <1>n DEF Meet, TakesNext, NoAct, HalfIsOff, OffBeforeDriverOk, OneActivator,
         WorkersAreMarked, Shape, TypeOK
<1> QED
  BY <1>1, <1>2, <1>3, <1>4, <1>5, <1>6, <1>7, <1>8, <1>h

(***************************************************************************)
(* The control loop takes the pending activators up.                       *)
(***************************************************************************)
LEMMA LoopActivatesKeeps ==
    ASSUME IndInv, LoopActivates
    PROVE  IndInv'
<1> USE VirtioPciAssumption 
        DEF IndInv, UnderWay, AllParked, Vcpus, Begin, dev
<1>n. /\ TakesNext
      /\ pending' \in Seq([q : 1..MaxInits, by : {0} \cup Vcpus])
      /\ act' \in [who : {"none", "loop", "pause"},
                   at : {"idle", "activate", "store", "barrier"},
                   q : 0..MaxInits, by : {0} \cup Vcpus]
  BY TakeNext DEF LoopActivates, TypeOK, Shape
<1>1. TypeOK'
  <2> HIDE DEF IndInv, UnderWay, AllParked, Vcpus
  <2>t. TypeOK
    BY DEF IndInv
  <2>1. evt' \in BOOLEAN
    BY DEF LoopActivates
  <2> QED
    BY <2>t, <2>1, <1>n DEF LoopActivates, TypeOK
<1>2. Shape'
  BY <1>n DEF LoopActivates,
         TakesNext, NoAct, Shape, TypeOK
<1>3. WorkersAreMarked'
  BY <1>n DEF LoopActivates,
         TakesNext, NoAct, WorkersAreMarked, Shape
<1>4. OffBeforeDriverOk'
  BY <1>n DEF LoopActivates,
         TakesNext, NoAct, OffBeforeDriverOk, WorkersAreMarked, Shape
<1>5. OneActivator'
  <2>1. CASE pending = <<>>
    BY <1>n, <2>1 DEF LoopActivates, TakesNext, NoAct, OneActivator
  <2>2. CASE pending # <<>>
    <3>1. /\ act'.at = "activate" /\ act'.q = pending[1].q
          /\ UNCHANGED <<serving, queues, status, raced>>
      BY <1>n, <2>2 DEF LoopActivates, TakesNext
    <3>2. (~raced /\ status \in {"ok", "needs_reset"}) => Len(pending) = 1
      BY <2>2 DEF OneActivator
    <3>3. Len(pending) = 1 => pending' = <<>>
      BY <1>n, <2>2 DEF TakesNext
    <3> QED
      BY <2>2, <3>1, <3>2, <3>3 DEF OneActivator
  <2> QED
    BY <2>1, <2>2
<1>6. WaitAtBarrier'
  <2> SUFFICES ASSUME ~alone PROVE WaitAtBarrier'
    BY DEF WaitAtBarrier, LoopActivates
  <2>1. CASE pending = <<>>
    BY <1>n, <2>1 DEF LoopActivates, TakesNext, NoAct, WaitAtBarrier, TypeOK
  <2>2. CASE pending # <<>>
    <3>1. /\ act'.at = "activate" /\ act'.by = pending[1].by /\ UNCHANGED alone
          /\ Len(pending) \in Nat \ {0} /\ Len(pending') = Len(pending) - 1
          /\ \A k \in 1..Len(pending') : pending'[k] = pending[k + 1]
      BY <1>n, <2>2 DEF LoopActivates, TakesNext, TypeOK
    <3>2. \A k \in 1..Len(pending) :
            /\ pending[k].by \in Vcpus /\ vcpu[pending[k].by] = "barrier"
            /\ \A l \in 1..Len(pending) : pending[k].by = pending[l].by => k = l
            /\ act.at # "idle" => pending[k].by # act.by
      BY DEF WaitAtBarrier
    <3>3. \A k \in 1..Len(pending) : vcpu'[pending[k].by] = "barrier"
      BY <3>2 DEF LoopActivates, TypeOK
    <3>4. 1 \in 1..Len(pending) /\ \A k \in 1..Len(pending') : k + 1 \in 2..Len(pending)
      BY <3>1
    <3>5. ASSUME NEW k \in 1..Len(pending')
          PROVE  /\ pending'[k].by \in Vcpus /\ vcpu'[pending'[k].by] = "barrier"
                 /\ pending'[k].by # act'.by
      <4>1. pending'[k] = pending[k + 1] /\ k + 1 \in 1..Len(pending) /\ k + 1 # 1
        BY <3>1
      <4> QED
        BY <3>1, <3>2, <3>3, <3>4, <4>1
    <3>6. ASSUME NEW k \in 1..Len(pending'), NEW l \in 1..Len(pending'),
                 pending'[k].by = pending'[l].by
          PROVE  k = l
      <4>1. /\ pending'[k] = pending[k + 1] /\ k + 1 \in 1..Len(pending)
            /\ pending'[l] = pending[l + 1] /\ l + 1 \in 1..Len(pending)
        BY <3>1
      <4>2. k + 1 = l + 1
        BY <3>2, <3>6, <4>1
      <4> QED
        BY <4>2
    <3> QED
      BY <3>1, <3>2, <3>3, <3>4, <3>5, <3>6 DEF WaitAtBarrier
  <2> QED
    BY <2>1, <2>2
<1>7. PausedIsParked'
  BY <1>n DEF LoopActivates,
         TakesNext, NoAct, PausedIsParked, TypeOK
<1>8. ServedOrPending'
  BY <1>n DEF LoopActivates,
         TakesNext, NoAct, ServedOrPending, OffBeforeDriverOk, OneActivator, WaitAtBarrier,
         PausedIsParked, WorkersAreMarked, Shape, TypeOK
<1>h. HalfIsOff'
  BY <1>n DEF LoopActivates, TakesNext, NoAct, HalfIsOff, OffBeforeDriverOk, OneActivator,
         WorkersAreMarked, Shape, TypeOK
<1> QED
  BY <1>1, <1>2, <1>3, <1>4, <1>5, <1>6, <1>7, <1>8, <1>h

(***************************************************************************)
(* A pause begins.                                                         *)
(***************************************************************************)
LEMMA PauseBeginsKeeps ==
    ASSUME IndInv, \E who \in {"loop", "worker"} : PauseBegins(who)
    PROVE  IndInv'
<1> USE VirtioPciAssumption 
        DEF IndInv, UnderWay, AllParked, Vcpus, dev
<1>1. TypeOK'
  BY DEF PauseBegins, TypeOK
<1>2. Shape' /\ WorkersAreMarked' /\ OffBeforeDriverOk' /\ OneActivator'
  BY DEF PauseBegins, TypeOK, Shape, WorkersAreMarked, OffBeforeDriverOk, OneActivator
<1>3. WaitAtBarrier' /\ PausedIsParked' /\ ServedOrPending'
  BY DEF PauseBegins, TypeOK, WaitAtBarrier, PausedIsParked, ServedOrPending
<1>h. HalfIsOff'
  BY DEF PauseBegins, HalfIsOff, OffBeforeDriverOk, OneActivator,
         WorkersAreMarked, Shape, TypeOK
<1> QED
  BY <1>1, <1>2, <1>3, <1>h

(***************************************************************************)
(* A pause activates what is pending first.                                *)
(***************************************************************************)
LEMMA PauseActivatesKeeps ==
    ASSUME IndInv, PauseActivates
    PROVE  IndInv'
<1> USE VirtioPciAssumption 
        DEF IndInv, UnderWay, AllParked, Vcpus, Begin, dev
<1>n. /\ TakesNext
      /\ pending' \in Seq([q : 1..MaxInits, by : {0} \cup Vcpus])
      /\ act' \in [who : {"none", "loop", "pause"},
                   at : {"idle", "activate", "store", "barrier"},
                   q : 0..MaxInits, by : {0} \cup Vcpus]
  BY TakeNext DEF PauseActivates, TypeOK, Shape
<1>1. TypeOK'
  <2>1. pause' \in [who : {"none", "loop", "worker"},
                    at : {"idle", "activate", "kick", "wait"}]
    BY DEF PauseActivates, TypeOK
  <2> QED
    BY <1>n, <2>1 DEF PauseActivates, TypeOK
<1>2. Shape'
  BY <1>n DEF PauseActivates,
         TakesNext, NoAct, Shape, TypeOK
<1>3. WorkersAreMarked'
  BY <1>n DEF PauseActivates,
         TakesNext, NoAct, WorkersAreMarked, Shape
<1>4. OffBeforeDriverOk'
  BY <1>n DEF PauseActivates,
         TakesNext, NoAct, OffBeforeDriverOk, WorkersAreMarked, Shape
<1>5. OneActivator'
  <2>1. CASE pending = <<>>
    BY <1>n, <2>1 DEF PauseActivates, TakesNext, NoAct, OneActivator
  <2>2. CASE pending # <<>>
    <3>1. /\ act'.at = "activate" /\ act'.q = pending[1].q
          /\ UNCHANGED <<serving, queues, status, raced>>
      BY <1>n, <2>2 DEF PauseActivates, TakesNext
    <3>2. (~raced /\ status \in {"ok", "needs_reset"}) => Len(pending) = 1
      BY <2>2 DEF OneActivator
    <3>3. Len(pending) = 1 => pending' = <<>>
      BY <1>n, <2>2 DEF TakesNext
    <3> QED
      BY <2>2, <3>1, <3>2, <3>3 DEF OneActivator
  <2> QED
    BY <2>1, <2>2
<1>6. WaitAtBarrier'
  <2> SUFFICES ASSUME ~alone PROVE WaitAtBarrier'
    BY DEF WaitAtBarrier, PauseActivates
  <2>1. CASE pending = <<>>
    BY <1>n, <2>1 DEF PauseActivates, TakesNext, NoAct, WaitAtBarrier, TypeOK
  <2>2. CASE pending # <<>>
    <3>1. /\ act'.at = "activate" /\ act'.by = pending[1].by /\ UNCHANGED alone
          /\ Len(pending) \in Nat \ {0} /\ Len(pending') = Len(pending) - 1
          /\ \A k \in 1..Len(pending') : pending'[k] = pending[k + 1]
      BY <1>n, <2>2 DEF PauseActivates, TakesNext, TypeOK
    <3>2. \A k \in 1..Len(pending) :
            /\ pending[k].by \in Vcpus /\ vcpu[pending[k].by] = "barrier"
            /\ \A l \in 1..Len(pending) : pending[k].by = pending[l].by => k = l
            /\ act.at # "idle" => pending[k].by # act.by
      BY DEF WaitAtBarrier
    <3>3. \A k \in 1..Len(pending) : vcpu'[pending[k].by] = "barrier"
      BY <3>2 DEF PauseActivates, TypeOK
    <3>4. 1 \in 1..Len(pending) /\ \A k \in 1..Len(pending') : k + 1 \in 2..Len(pending)
      BY <3>1
    <3>5. ASSUME NEW k \in 1..Len(pending')
          PROVE  /\ pending'[k].by \in Vcpus /\ vcpu'[pending'[k].by] = "barrier"
                 /\ pending'[k].by # act'.by
      <4>1. pending'[k] = pending[k + 1] /\ k + 1 \in 1..Len(pending) /\ k + 1 # 1
        BY <3>1
      <4> QED
        BY <3>1, <3>2, <3>3, <3>4, <4>1
    <3>6. ASSUME NEW k \in 1..Len(pending'), NEW l \in 1..Len(pending'),
                 pending'[k].by = pending'[l].by
          PROVE  k = l
      <4>1. /\ pending'[k] = pending[k + 1] /\ k + 1 \in 1..Len(pending)
            /\ pending'[l] = pending[l + 1] /\ l + 1 \in 1..Len(pending)
        BY <3>1
      <4>2. k + 1 = l + 1
        BY <3>2, <3>6, <4>1
      <4> QED
        BY <4>2
    <3> QED
      BY <3>1, <3>2, <3>3, <3>4, <3>5, <3>6 DEF WaitAtBarrier
  <2> QED
    BY <2>1, <2>2
<1>7. PausedIsParked'
  BY <1>n DEF PauseActivates,
         TakesNext, NoAct, PausedIsParked, TypeOK
<1>8. ServedOrPending'
  BY <1>n DEF PauseActivates,
         TakesNext, NoAct, ServedOrPending, OffBeforeDriverOk, OneActivator, WaitAtBarrier,
         PausedIsParked, WorkersAreMarked, Shape, TypeOK
<1>h. HalfIsOff'
  BY <1>n DEF PauseActivates, TakesNext, NoAct, HalfIsOff, OffBeforeDriverOk, OneActivator,
         WorkersAreMarked, Shape, TypeOK
<1> QED
  BY <1>1, <1>2, <1>3, <1>4, <1>5, <1>6, <1>7, <1>8, <1>h

(***************************************************************************)
(* A pause signals the vCPUs.                                              *)
(***************************************************************************)
LEMMA PauseKicksKeeps ==
    ASSUME IndInv, PauseKicks
    PROVE  IndInv'
<1> USE VirtioPciAssumption 
        DEF IndInv, UnderWay, AllParked, Vcpus, dev
<1>1. TypeOK'
  <2> HIDE DEF IndInv, UnderWay, AllParked, Vcpus
  <2>t. TypeOK
    BY DEF IndInv
  <2> QED
    BY <2>t DEF PauseKicks, TypeOK
<1>2. Shape' /\ WorkersAreMarked' /\ OffBeforeDriverOk' /\ OneActivator'
  BY DEF PauseKicks, TypeOK, Shape, WorkersAreMarked, OffBeforeDriverOk, OneActivator
<1>3. WaitAtBarrier' /\ PausedIsParked' /\ ServedOrPending'
  BY DEF PauseKicks, TypeOK, WaitAtBarrier, PausedIsParked, ServedOrPending
<1>h. HalfIsOff'
  BY DEF PauseKicks, HalfIsOff, OffBeforeDriverOk, OneActivator,
         WorkersAreMarked, Shape, TypeOK
<1> QED
  BY <1>1, <1>2, <1>3, <1>h

(***************************************************************************)
(* The VM is paused when all vCPUs are parked.                             *)
(***************************************************************************)
LEMMA PausedKeeps ==
    ASSUME IndInv, Paused
    PROVE  IndInv'
<1> USE VirtioPciAssumption 
        DEF IndInv, UnderWay, AllParked, Vcpus, dev, NoPause
<1>1. TypeOK'
  BY DEF Paused, TypeOK
<1>2. Shape' /\ WorkersAreMarked' /\ OffBeforeDriverOk' /\ OneActivator'
  BY DEF Paused, TypeOK, Shape, WorkersAreMarked, OffBeforeDriverOk, OneActivator
<1>3. WaitAtBarrier' /\ PausedIsParked' /\ ServedOrPending'
  BY DEF Paused, TypeOK, WaitAtBarrier, PausedIsParked, ServedOrPending
<1>h. HalfIsOff'
  BY DEF Paused, HalfIsOff, OffBeforeDriverOk, OneActivator,
         WorkersAreMarked, Shape, TypeOK
<1> QED
  BY <1>1, <1>2, <1>3, <1>h

(***************************************************************************)
(* A pause that times out leaves the VM running.                           *)
(***************************************************************************)
LEMMA PauseTimesOutKeeps ==
    ASSUME IndInv, PauseTimesOut
    PROVE  IndInv'
<1> USE VirtioPciAssumption 
        DEF IndInv, UnderWay, AllParked, Vcpus, dev, NoPause
<1>1. TypeOK'
  BY DEF PauseTimesOut, TypeOK
<1>2. Shape' /\ WorkersAreMarked' /\ OffBeforeDriverOk' /\ OneActivator'
  BY DEF PauseTimesOut, TypeOK, Shape, WorkersAreMarked, OffBeforeDriverOk, OneActivator
<1>3. WaitAtBarrier' /\ PausedIsParked' /\ ServedOrPending'
  BY DEF PauseTimesOut, TypeOK, WaitAtBarrier, PausedIsParked, ServedOrPending
<1>h. HalfIsOff'
  BY DEF PauseTimesOut, HalfIsOff, OffBeforeDriverOk, OneActivator,
         WorkersAreMarked, Shape, TypeOK
<1> QED
  BY <1>1, <1>2, <1>3, <1>h

(***************************************************************************)
(* A resumed VM had no activator: none of its vCPUs was at a barrier.      *)
(***************************************************************************)
LEMMA ResumeKeeps ==
    ASSUME IndInv, Resume
    PROVE  IndInv'
<1> USE VirtioPciAssumption 
        DEF IndInv, UnderWay, AllParked, Vcpus, dev
<1>1. TypeOK'
  <2>1. flag' \in BOOLEAN
    BY DEF Resume
  <2>2. vcpu' \in [Vcpus -> {"run", "barrier", "parked"}]
    BY DEF Resume
  <2> QED
    BY <2>1, <2>2 DEF Resume, TypeOK
<1>2. Shape'
  BY DEF Resume, Shape, TypeOK
<1>3. WorkersAreMarked'
  BY DEF Resume, WorkersAreMarked, Shape
<1>4. OffBeforeDriverOk'
  BY DEF Resume, OffBeforeDriverOk, WorkersAreMarked, Shape
<1>5. OneActivator'
  BY DEF Resume, OneActivator, OffBeforeDriverOk, Shape
<1>6. WaitAtBarrier'
  BY DEF Resume, WaitAtBarrier, PausedIsParked, TypeOK, Shape
<1>7. PausedIsParked'
  BY DEF Resume, PausedIsParked, TypeOK
<1>8. ServedOrPending'
  BY DEF Resume, ServedOrPending, OffBeforeDriverOk, OneActivator, WaitAtBarrier,
         PausedIsParked, WorkersAreMarked, Shape, TypeOK
<1>h. HalfIsOff'
  BY DEF Resume, HalfIsOff, OffBeforeDriverOk, OneActivator,
         WorkersAreMarked, Shape, TypeOK
<1> QED
  BY <1>1, <1>2, <1>3, <1>4, <1>5, <1>6, <1>7, <1>8, <1>h

(***************************************************************************)
(* A restored VM has lost its pending activators; it had none.             *)
(***************************************************************************)
LEMMA RestoreKeeps ==
    ASSUME IndInv, Restore
    PROVE  IndInv'
<1> USE VirtioPciAssumption 
        DEF IndInv, UnderWay, AllParked, Vcpus
<1>1. TypeOK'
  <2> HIDE DEF IndInv, UnderWay, AllParked, Vcpus
  <2>t. TypeOK
    BY DEF IndInv
  <2>1. pending' \in Seq([q : 1..MaxInits, by : {0} \cup Vcpus])
    BY DEF Restore
  <2>2. serving' \in 0..MaxInits /\ half' \in 0..MaxInits
    BY <2>t DEF Restore, TypeOK
  <2>3. vcpu' \in [Vcpus -> {"run", "barrier", "parked"}]
    BY DEF Restore
  <2>4. evt' \in BOOLEAN /\ flag' \in BOOLEAN
    BY DEF Restore
  <2> QED
    BY <2>t, <2>1, <2>2, <2>3, <2>4 DEF Restore, TypeOK
<1>2. Shape'
  BY DEF Restore, Shape, TypeOK
<1>3. WorkersAreMarked'
  BY DEF Restore, WorkersAreMarked, Shape
<1>4. OffBeforeDriverOk'
  BY DEF Restore, OffBeforeDriverOk, WorkersAreMarked, Shape
<1>5. OneActivator'
  BY DEF Restore, OneActivator, OffBeforeDriverOk, Shape
<1>6. WaitAtBarrier'
  BY DEF Restore, WaitAtBarrier, PausedIsParked, TypeOK, Shape
<1>7. PausedIsParked'
  BY DEF Restore, PausedIsParked, TypeOK
<1>8. ServedOrPending'
  <2> HIDE DEF IndInv, UnderWay, AllParked, Vcpus
  <2> SUFFICES ASSUME ~raced, ~alone, status = "ok" PROVE serving' = queues'
    BY DEF Restore, ServedOrPending
  <2>1. state = "Paused" /\ act.at = "idle"
    BY DEF Restore, IndInv, Shape
  <2>2. pending = <<>>
    <3> SUFFICES ASSUME pending # <<>> PROVE FALSE
      OBVIOUS
    <3>1. 1 \in 1..Len(pending)
      BY DEF IndInv, TypeOK
    <3>2. pending[1].by \in Vcpus /\ vcpu[pending[1].by] = "barrier"
      BY <3>1 DEF IndInv, WaitAtBarrier
    <3>3. vcpu[pending[1].by] = "parked"
      BY <2>1, <3>2 DEF IndInv, PausedIsParked, AllParked
    <3> QED
      BY <3>2, <3>3
  <2>3. serving = queues
    BY <2>1, <2>2 DEF IndInv, ServedOrPending
  <2>4. queues # 0
    BY DEF IndInv, Shape
  <2>5. activated
    BY <2>1, <2>3, <2>4 DEF IndInv, WorkersAreMarked
  <2> QED
    BY <2>5 DEF Restore
<1>h. HalfIsOff'
  BY DEF Restore, HalfIsOff, OffBeforeDriverOk, OneActivator,
         WorkersAreMarked, Shape, TypeOK
<1> QED
  BY <1>1, <1>2, <1>3, <1>4, <1>5, <1>6, <1>7, <1>8, <1>h

-----------------------------------------------------------------------------
(***************************************************************************)
(* The invariant holds for every number of vCPUs and of set-ups.           *)
(***************************************************************************)
THEOREM IndInvHolds == Spec => []IndInv
<1>1. Init => IndInv
  <2> SUFFICES ASSUME Init PROVE IndInv
    OBVIOUS
  <2> USE VirtioPciAssumption DEF Init, NoAct, NoPause
  <2>1. pending \in Seq([q : 1..MaxInits, by : {0} \cup Vcpus]) /\ Len(pending) = 0
    OBVIOUS
  <2>2. /\ queues \in 0..MaxInits /\ inits \in 0..MaxInits /\ serving \in 0..MaxInits
        /\ half \in 0..MaxInits
        /\ act \in [who : {"none", "loop", "pause"},
                    at : {"idle", "activate", "store", "barrier"},
                    q : 0..MaxInits, by : {0} \cup Vcpus]
    OBVIOUS
  <2>4. /\ activated \in BOOLEAN /\ evt \in BOOLEAN /\ flag \in BOOLEAN
        /\ raced \in BOOLEAN /\ alone \in BOOLEAN
    OBVIOUS
  <2>3. TypeOK
    BY <2>1, <2>2, <2>4 DEF TypeOK
  <2> QED
    BY <2>1, <2>3
       DEF IndInv, Shape, WorkersAreMarked, UnderWay, OffBeforeDriverOk, OneActivator,
           HalfIsOff, WaitAtBarrier, PausedIsParked, ServedOrPending
<1>2. IndInv /\ [Next]_vars => IndInv'
  <2> SUFFICES ASSUME IndInv, [Next]_vars PROVE IndInv'
    OBVIOUS
  <2>1. CASE \E v \in Vcpus :
               SetUp(v) \/ Reset(v) \/ Park(v) \/ \E w \in BOOLEAN : DriverOk(v, w)
    BY <2>1, SetUpKeeps, ResetKeeps, ParkKeeps, DriverOkKeeps
  <2>2. CASE ActivateStep
    BY <2>2, ActivateKeeps, StoreKeeps, MeetKeeps DEF ActivateStep
  <2>3. CASE UNCHANGED vars
    BY <2>3
       DEF vars, dev, IndInv, TypeOK, Shape, WorkersAreMarked, UnderWay, OffBeforeDriverOk,
           OneActivator, HalfIsOff, WaitAtBarrier, PausedIsParked, AllParked, ServedOrPending
  <2> QED
    BY <2>1, <2>2, <2>3, NeedsResetKeeps, LoopActivatesKeeps, PauseBeginsKeeps,
       PauseActivatesKeeps, PauseKicksKeeps, PausedKeeps, PauseTimesOutKeeps, ResumeKeeps,
       RestoreKeeps DEF Next
<1> QED
  BY <1>1, <1>2, PTL DEF Spec

(***************************************************************************)
(* The workers of a device are on the queues that the driver set up last,  *)
(* and a device that was reset has no workers, unless the reset raced with *)
(* an activator or the activation had failed half way: what that left is   *)
(* gone when the device is activated again.                                *)
(***************************************************************************)
THEOREM DeviceServesTheDriver == Spec => []ServesTheDriver
<1>1. IndInv => ServesTheDriver
  BY DEF IndInv, TypeOK, OffBeforeDriverOk, OneActivator, HalfIsOff, ServesTheDriver
<1> QED
  BY <1>1, IndInvHolds, PTL

(***************************************************************************)
(* A pause that returned left no activation behind: the vCPU of an         *)
(* outstanding one would not have parked.                                  *)
(***************************************************************************)
THEOREM PausedVmIsActivated == Spec => []PausedIsActivated
<1>1. IndInv => PausedIsActivated
  <2> SUFFICES ASSUME IndInv, state = "Paused", status = "ok", ~raced, ~alone
               PROVE  serving = queues
    BY DEF PausedIsActivated
  <2>1. act.at = "idle"
    BY DEF IndInv, WaitAtBarrier, PausedIsParked, AllParked
  <2>2. pending = <<>>
    <3>1. CASE pending # <<>>
      <4>1. Len(pending) \in Nat /\ Len(pending) # 0
        BY <3>1 DEF IndInv, TypeOK
      <4>2. pending[1].by \in Vcpus /\ vcpu[pending[1].by] = "barrier"
        BY <4>1 DEF IndInv, WaitAtBarrier
      <4> QED
        BY <4>2 DEF IndInv, PausedIsParked, AllParked
    <3> QED
      BY <3>1
  <2> QED
    BY <2>1, <2>2 DEF IndInv, ServedOrPending
<1> QED
  BY <1>1, IndInvHolds, PTL
-----------------------------------------------------------------------------
(***************************************************************************)
(* VirtioPause: the pause flag, the barrier and the parked workers.        *)
(***************************************************************************)
\* Without an activation there are no worker threads, and only an active
\* device has an API thread inside pause or at the joins.
WorkersOfActivation ==
    /\ ~active => \A w \in Workers : worker[w] = "exited"
    /\ api \in {"pauseWrite", "pauseWait", "barrier", "join"} => active

\* The flag is set while pause waits and cleared while resume or reset works.
FlagOfOperation ==
    /\ api \in {"pauseWrite", "pauseWait", "barrier"} => paused
    /\ api \in {"resume", "join"} => ~paused

(***************************************************************************)
(* The inductive invariant.  PausedIsQuiet alone is not inductive: that    *)
(* resume leaves a running device behind needs FlagOfOperation, and that   *)
(* a device activated while paused is quiet needs WorkersOfActivation.     *)
(***************************************************************************)
PauseInv == PauseTypeOK /\ WorkersOfActivation /\ FlagOfOperation /\ PausedIsQuiet

(***************************************************************************)
(* A thread that arrives at the barrier either waits there or releases     *)
(* every worker and the API thread at once.                                *)
(***************************************************************************)
LEMMA ArriveCases ==
    ASSUME PauseTypeOK, NEW x \in Workers \cup {Api}, Arrive(x)
    PROVE  \/ /\ barrier \cup {x} = Workers \cup {Api}
              /\ barrier' = {} /\ api' = "idle"
              /\ worker' = [w \in Workers |-> "check"]
           \/ /\ barrier' = barrier \cup {x}
              /\ x = Api => api' = "barrier" /\ worker' = worker
              /\ x # Api => api' = api /\ worker' = [worker EXCEPT ![x] = "barrier"]
  BY WorkersAssumption DEF Arrive

(***************************************************************************)
(* Every step of a worker, of the guest and of the API thread preserves    *)
(* the invariant.                                                          *)
(***************************************************************************)
LEMMA PauseInvStep == PauseInv /\ [PauseNext]_pauseVars => PauseInv'
<1> SUFFICES ASSUME PauseInv, [PauseNext]_pauseVars PROVE PauseInv'
  OBVIOUS
<1> USE WorkersAssumption
        DEF PauseInv, PauseTypeOK, WorkersOfActivation, FlagOfOperation, PausedIsQuiet
<1>1. ASSUME NEW w \in Workers, StartCheck(w) PROVE PauseInv'
  BY <1>1 DEF StartCheck, MayStart
<1>2. ASSUME NEW w \in Workers, Unparked(w) PROVE PauseInv'
  BY <1>2 DEF Unparked
<1>3. ASSUME NEW w \in Workers, EpollWait(w) PROVE PauseInv'
  BY <1>3 DEF EpollWait, Readable
<1>4. ASSUME NEW w \in Workers, NextRound(w) PROVE PauseInv'
  BY <1>4 DEF NextRound
<1>5. ASSUME NEW w \in Workers, DispatchKill(w) PROVE PauseInv'
  BY <1>5 DEF DispatchKill
<1>6. ASSUME NEW w \in Workers, DispatchPause(w) PROVE PauseInv'
  BY <1>6, ArriveCases DEF DispatchPause
<1>7. ASSUME NEW w \in Workers, CheckPaused(w) PROVE PauseInv'
  BY <1>7 DEF CheckPaused
<1>8. ASSUME NEW w \in Workers, DrainPauseEvt(w) PROVE PauseInv'
  BY <1>8 DEF DrainPauseEvt
<1>9. ASSUME NEW w \in Workers, HandleEvent(w) PROVE PauseInv'
  BY <1>9 DEF HandleEvent
<1>10. ASSUME NEW w \in Workers, SpuriousUnpark(w) PROVE PauseInv'
  BY <1>10 DEF SpuriousUnpark
<1>11. ASSUME NEW w \in Workers, GuestKick(w) PROVE PauseInv'
  BY <1>11 DEF GuestKick
<1>12. ASSUME NEW w \in Workers, HandlerFails(w) PROVE PauseInv'
  BY <1>12 DEF HandlerFails
<1>13. CASE PauseSwap
  BY <1>13 DEF PauseSwap
<1>14. CASE ResumeStore
  BY <1>14 DEF ResumeStore
<1>15. CASE DeviceReset
  BY <1>15 DEF DeviceReset, Unpark
<1>16. CASE DeviceActivate
  BY <1>16 DEF DeviceActivate
<1>17. CASE PauseWrite
  BY <1>17 DEF PauseWrite
<1>18. CASE PauseWait
  BY <1>18, ArriveCases DEF PauseWait, WaitForWorkers
<1>19. CASE ResumeUnpark
  BY <1>19 DEF ResumeUnpark, Unpark, AllQueueEvents
<1>20. CASE Joined
  BY <1>20 DEF Joined
<1>21. CASE UNCHANGED pauseVars
  BY <1>21 DEF pauseVars
<1> QED
  BY <1>1, <1>2, <1>3, <1>4, <1>5, <1>6, <1>7, <1>8, <1>9, <1>10, <1>11, <1>12,
     <1>13, <1>14, <1>15, <1>16, <1>17, <1>18, <1>19, <1>20, <1>21
     DEF PauseNext, Worker, Control

(***************************************************************************)
(* The barrier of pause holds exactly the threads that wait on it, however *)
(* many workers there are and whichever of them fail.                      *)
(***************************************************************************)
THEOREM BarrierIsCounted == PauseSpec => []PauseTypeOK
<1>1. PauseInit => PauseInv
  BY DEF PauseInit, PauseInv, PauseTypeOK, WorkersOfActivation, FlagOfOperation, PausedIsQuiet
<1>2. PauseInv => PauseTypeOK
  BY DEF PauseInv
<1> QED
  BY <1>1, <1>2, PauseInvStep, PTL DEF PauseSpec

(***************************************************************************)
(* Once VirtioCommon::pause has returned, no worker is in its event loop   *)
(* until the device is resumed or reset, whatever was signalled before and *)
(* also when the device is activated while it is paused.                   *)
(***************************************************************************)
THEOREM PausedDeviceIsQuiet == PauseSpec => []PausedIsQuiet
<1>1. PauseInit => PauseInv
  BY DEF PauseInit, PauseInv, PauseTypeOK, WorkersOfActivation, FlagOfOperation, PausedIsQuiet
<1>2. PauseInv => PausedIsQuiet
  BY DEF PauseInv
<1> QED
  BY <1>1, <1>2, PauseInvStep, PTL DEF PauseSpec
=============================================================================
