------------------------- MODULE VmLifecycleProofs --------------------------
(***************************************************************************)
(* Proofs about VmLifecycle for every number of disks and of slots: the    *)
(* configuration names the disks that the VM has, no two disks are in one  *)
(* slot, and the guest is asked to eject only what the API removed.        *)
(*                                                                         *)
(* The order of the module: the parts of the invariant, the slots of a new *)
(* VM, the steps by their effect on the disks, types, the parts about the  *)
(* disks, theorems.                                                        *)
(***************************************************************************)
EXTENDS VmLifecycle, FiniteSetTheorems, WellFoundedInduction, TLAPS

\* TypeOK by variable.
Vms == [state : {"none", "Created", "Running", "Paused", "Shutdown"},
        slot : [Disks -> {0} \cup Slots], leaked : SUBSET Slots, orphans : SUBSET Disks,
        down : SUBSET Slots, blocks : SUBSET Disks, mirrors : SUBSET Disks]
VmTypes == vm \in Vms /\ guest \subseteq Slots
HistTypes ==
    hist \in [removing : SUBSET Disks, ejected : SUBSET Disks, again : SUBSET Slots,
              odd : BOOLEAN, asked : SUBSET {"reset", "gexit"},
              end : {"none", "carried out", "taken"}]
ConfigTypes == config \in [present : BOOLEAN, disks : SUBSET Disks]
EventTypes ==
    /\ evt \in [reset : BOOLEAN, gexit : BOOLEAN] /\ postponed \in {"none", "reboot", "shutdown"}
LoopTypes ==
    /\ own \in {"none", "owned", "migration"} /\ loop \in {"run", "exit", "error"}
    /\ mig \in [at : {"no", "sending", "paused", "moved", "preserved", "failed"},
                initial : {"none", "Running", "Paused"}]

\* No removal and no ejection is recorded.
Fresh(h) == h.removing = {} /\ h.ejected = {} /\ h.again = {}

\* Without a VM there is nothing of one, a VM has a configuration, and a
\* migration has the VM.
NothingOfNoVm ==
    /\ own = "none" => vm = NoVm /\ guest = {} /\ Fresh(hist)
    /\ own # "none" => config.present
    /\ mig.at # "no" => own = "migration"

\* A disk whose removal was accepted is still plugged, one that the guest
\* ejected on its own is not, and stays in the configuration.
RemovalShape ==
    /\ hist.removing \subseteq Plugged(vm)
    /\ hist.ejected \subseteq config.disks \ Plugged(vm)

\* A slot that the guest is asked to eject, and was not asked twice, holds a
\* disk, and is not both in the register and read by the guest.
SlotShape ==
    /\ vm.down \cap guest \subseteq hist.again
    /\ \A s \in (vm.down \cup guest) \ hist.again : \E d \in Plugged(vm) : vm.slot[d] = s

(***************************************************************************)
(* The inductive invariant.  The two properties need each other's state:   *)
(* that an ejected disk leaves the configuration correct rests on          *)
(* RemovalShape, and that add_disk puts a disk into a slot that nobody     *)
(* asked to eject rests on SlotShape, which only holds for slots that were *)
(* not asked for twice (hist.again).                                       *)
(***************************************************************************)
IndInv ==
    /\ TypeOK /\ NothingOfNoVm /\ RemovalShape /\ SlotShape
    /\ ConfigIsCurrent /\ EjectsWhatWasRemoved

(***************************************************************************)
(* Every nonempty set of naturals has a least element: a free slot can be  *)
(* found when there is one.                                                *)
(***************************************************************************)
LEMMA LeastExists ==
    ASSUME NEW S \in SUBSET Nat, S # {}
    PROVE  \E x \in S : \A y \in S : x <= y
<1>1. PICK x \in S : \A y \in S : ~(<<y, x>> \in OpToRel(<, Nat))
  BY NatLessThanWellFounded, WFMin, Zenon
<1>2. \A y \in S : ~(y < x)
  BY <1>1 DEF OpToRel
<1> QED
  BY <1>2

(***************************************************************************)
(* TypeOK by variable.                                                     *)
(***************************************************************************)
LEMMA TypeParts ==
    TypeOK <=> VmTypes /\ HistTypes /\ ConfigTypes /\ EventTypes /\ LoopTypes
  BY DEF TypeOK, VmTypes, HistTypes, ConfigTypes, EventTypes, LoopTypes, Vms

(***************************************************************************)
(* Vm::new gives every disk a slot of its own.                             *)
(***************************************************************************)
LEMMA RankFacts ==
    ASSUME NEW disks \in SUBSET Disks, NEW d \in disks
    PROVE  /\ Cardinality({e \in disks : e <= d}) \in Nat \ {0}
           /\ Cardinality({e \in disks : e <= d}) <= Cardinality(disks)
           /\ Cardinality(disks) \in Nat
           /\ \A f \in disks : d < f =>
                Cardinality({e \in disks : e <= d}) < Cardinality({e \in disks : e <= f})
<1> DEFINE Upto(x) == {e \in disks : e <= x}
<1>0. disks \subseteq Nat /\ NDisks \in Nat
  BY LifecycleAssumption DEF Disks
<1>1. IsFiniteSet(disks)
  <2>1. IsFiniteSet(1..NDisks)
    <3>1. 1 \in Int /\ NDisks \in Int
      BY <1>0
    <3> QED
      BY <3>1, FS_Interval
  <2> QED
    BY <2>1, FS_Subset DEF Disks
<1>2. \A x \in disks : Upto(x) \in SUBSET disks /\ x \in Upto(x)
  BY <1>0
<1>3. \A x \in disks : IsFiniteSet(Upto(x)) /\ Cardinality(Upto(x)) <= Cardinality(disks)
                       /\ Cardinality(Upto(x)) \in Nat
  BY <1>1, <1>2, FS_Subset, FS_CardinalityType
<1>4. Cardinality(Upto(d)) # 0
  BY <1>2, <1>3, FS_EmptySet
<1>5. ASSUME NEW f \in disks, d < f PROVE Cardinality(Upto(d)) < Cardinality(Upto(f))
  <2>0. d \in Nat /\ f \in Nat /\ \A e \in disks : e \in Nat
    BY <1>0
  <2>a. (\A e \in disks : e <= d => e <= f) /\ ~(f <= d) /\ f <= f
    BY <1>5, <2>0
  <2>1. Upto(d) \in SUBSET Upto(f) /\ f \notin Upto(d) /\ f \in Upto(f)
    BY <2>a
  <2>2. Upto(d) # Upto(f)
    BY <2>1
  <2>3. /\ Cardinality(Upto(d)) <= Cardinality(Upto(f))
        /\ Cardinality(Upto(d)) = Cardinality(Upto(f)) => Upto(d) = Upto(f)
    BY <1>3, <2>1, FS_Subset
  <2> HIDE DEF Upto
  <2> QED
    BY <1>3, <2>2, <2>3
<1>6. Cardinality(disks) \in Nat
  BY <1>1, FS_CardinalityType
<1> QED
  BY <1>3, <1>4, <1>5, <1>6

(***************************************************************************)
(* A VM made from a configuration has the disks of the configuration in    *)
(* slots of their own, and no removal pending.                             *)
(***************************************************************************)
LEMMA NewVmFacts ==
    ASSUME NEW disks \in SUBSET Disks, Fits(disks), NEW s \in {"Created", "Running", "Paused"}
    PROVE  /\ NewVm(s, disks) \in Vms /\ Plugged(NewVm(s, disks)) = disks
           /\ NewVm(s, disks).down = {}
           /\ \A d, e \in disks : NewVm(s, disks).slot[d] = NewVm(s, disks).slot[e] => d = e
<1> DEFINE rank == [d \in Disks |-> IF d \in disks THEN Cardinality({e \in disks : e <= d}) ELSE 0]
<1>1. NewVm(s, disks) = [state |-> s, slot |-> rank, leaked |-> {}, orphans |-> {}, down |-> {},
                         blocks |-> disks, mirrors |-> {}]
  <2>1. NoVm = [state |-> "none", slot |-> [d \in Disks |-> 0], leaked |-> {}, orphans |-> {}, down |-> {},
                blocks |-> {}, mirrors |-> {}]
    BY DEF NoVm
  <2>2. NewVm(s, disks) = [NoVm EXCEPT !.state = s, !.blocks = disks, !.slot = rank]
    BY DEF NewVm
  <2> HIDE DEF rank
  <2> QED
    BY <2>1, <2>2
<1>2. \A d \in disks : rank[d] \in Slots /\ rank[d] # 0
  <2> SUFFICES ASSUME NEW d \in disks PROVE rank[d] \in Slots /\ rank[d] # 0
    OBVIOUS
  <2>1. rank[d] = Cardinality({e \in disks : e <= d})
    OBVIOUS
  <2> QED
    BY <2>1, RankFacts, LifecycleAssumption DEF Slots, Fits
<1>3. \A d \in Disks \ disks : rank[d] = 0
  OBVIOUS
<1>4. ASSUME NEW d \in disks, NEW e \in disks, rank[d] = rank[e] PROVE d = e
  <2>0. d \in Nat /\ e \in Nat
    BY LifecycleAssumption DEF Disks
  <2>1. rank[d] = Cardinality({x \in disks : x <= d}) /\ rank[e] = Cardinality({x \in disks : x <= e})
    OBVIOUS
  <2>2. rank[d] \in Nat /\ rank[e] \in Nat /\ (d < e => rank[d] < rank[e]) /\ (e < d => rank[e] < rank[d])
    BY <2>1, RankFacts
  <2> HIDE DEF rank
  <2> QED
    BY <1>4, <2>0, <2>2
<1>5. rank \in [Disks -> {0} \cup Slots]
  <2>1. \A d \in Disks : rank[d] \in {0} \cup Slots
    BY <1>2, <1>3
  <2> QED
    BY <2>1
<1> HIDE DEF rank
<1>6. NewVm(s, disks) \in Vms
  BY <1>1, <1>5 DEF Vms
<1>7. Plugged(NewVm(s, disks)) = disks
  BY <1>1, <1>2, <1>3 DEF Plugged
<1> QED
  BY <1>1, <1>4, <1>6, <1>7

(***************************************************************************)
(* A free slot holds no disk.                                              *)
(***************************************************************************)
LEMMA SlotFacts ==
    ASSUME VmTypes
    PROVE  /\ 0 \notin Slots
           /\ \A d \in Disks : vm.slot[d] \in {0} \cup Slots
           /\ \A d \in Plugged(vm) : d \in Disks /\ vm.slot[d] \in Slots
           /\ FreeSlots(vm) # {} =>
                /\ Min(FreeSlots(vm)) \in Slots
                /\ \A d \in Plugged(vm) : vm.slot[d] # Min(FreeSlots(vm))
<1>1. 0 \notin Slots /\ Slots \in SUBSET Nat
  BY LifecycleAssumption DEF Slots
<1>2. /\ \A d \in Disks : vm.slot[d] \in {0} \cup Slots
      /\ \A d \in Plugged(vm) : d \in Disks /\ vm.slot[d] \in Slots
  BY DEF VmTypes, Vms, Plugged
<1>3. ASSUME FreeSlots(vm) # {} PROVE Min(FreeSlots(vm)) \in FreeSlots(vm)
  <2>1. FreeSlots(vm) \in SUBSET Nat
    BY <1>1 DEF FreeSlots
  <2> QED
    BY <1>3, <2>1, LeastExists DEF Min
<1> QED
  BY <1>1, <1>2, <1>3 DEF FreeSlots

(***************************************************************************)
(* The steps by their effect on the disks: the VM ends, a new one is made, *)
(* there is none, or it keeps its disks.  The others plug or unplug one.   *)
(***************************************************************************)
Ended ==
    /\ own' = "none" /\ vm' = NoVm /\ guest' = {} /\ Fresh(hist') /\ mig'.at = "no"

Made ==
    /\ own' = "owned" /\ Fits(config'.disks) /\ config'.present
    /\ \E s \in {"Created", "Running", "Paused"} : vm' = NewVm(s, config'.disks)
    /\ guest' = {} /\ Fresh(hist') /\ mig'.at = "no"

NoVmYet == own = "none" /\ UNCHANGED <<own, vm, guest, hist, mig>>

Kept ==
    /\ own # "none" /\ own' # "none" /\ (mig'.at # "no" => own' = "migration")
    /\ UNCHANGED <<config, guest>>
    /\ vm'.slot = vm.slot /\ vm'.down = vm.down
    /\ hist'.removing = hist.removing /\ hist'.ejected = hist.ejected /\ hist'.again = hist.again

Ejects(s, d) ==
    /\ own # "none" /\ d \in Plugged(vm) /\ vm.slot[d] = s /\ Unplug(d)
    /\ guest' = guest \ {s} /\ UNCHANGED <<config, own, mig>>

EjectsNothing(s) ==
    /\ guest' = guest \ {s} /\ own # "none" /\ UNCHANGED <<config, own, hist, mig>>
    /\ vm'.slot = vm.slot /\ vm'.down = vm.down

(***************************************************************************)
(* What the end of a VM, or of the VMM, leaves of the history.             *)
(***************************************************************************)
LEMMA AfterEndFacts ==
    /\ Fresh(NoHist)
    /\ \A how : Fresh(AfterEnd(how)) /\ \A b : Fresh([AfterEnd(how) EXCEPT !.odd = b])
    /\ \A b : Fresh([NoHist EXCEPT !.odd = b])
  BY DEF Fresh, AfterEnd, NoHist

(***************************************************************************)
(* The end of the VMM is the end of its VM.                                *)
(***************************************************************************)
LEMMA VmmEndsFacts ==
    ASSUME NEW how, VmmEnds(how)
    PROVE  Ended
  BY AfterEndFacts DEF VmmEnds, Ended, NoMigration

(***************************************************************************)
(* The steps by what they do to the disks: the VM ends, one is made, there *)
(* is none, its disks are kept, or one of the four operations on slots.    *)
(***************************************************************************)
LEMMA StepKinds ==
    ASSUME IndInv, Next
    PROVE  \/ Ended \/ Made \/ NoVmYet \/ Kept \/ ReadDown
           \/ \E d \in Disks : add_disk(d) \/ remove_device(d)
           \/ \E s \in Slots : EjectsNothing(s)
           \/ \E s \in Slots, d \in Disks : Ejects(s, d)
<1>0. VmTypes /\ HistTypes /\ ConfigTypes /\ EventTypes /\ LoopTypes /\ NothingOfNoVm
  BY TypeParts DEF IndInv
<1> USE DEF DropVm
<1>1. ASSUME vm_shutdown \/ vm_delete \/ HandleGuestExit \/ MigrationSucceeded PROVE Ended
  BY <1>0, <1>1, AfterEndFacts, VmmEndsFacts
     DEF vm_shutdown, vm_delete, HandleGuestExit, MigrationSucceeded, MustPostpone,
                    Ended, NothingOfNoVm, LoopTypes, NoMigration
<1>2. ASSUME vm_reboot \/ HandleReset PROVE Ended \/ Made
  BY <1>0, <1>2, AfterEndFacts, VmmEndsFacts
     DEF vm_reboot, HandleReset, Reboot, RebootFails, Ended, Made, NothingOfNoVm,
                    LoopTypes
<1>3. CASE HandleExit
  BY <1>3, VmmEndsFacts DEF HandleExit
<1>4. CASE vm_boot
  BY <1>0, <1>4, AfterEndFacts DEF vm_boot, Made, NothingOfNoVm
<1>5. ASSUME NEW ds \in SUBSET Disks, vm_create(ds) PROVE NoVmYet
  BY <1>0, <1>5 DEF vm_create, NoVmYet, NothingOfNoVm
<1>6. ASSUME NEW ds \in SUBSET Disks, vm_restore(ds) PROVE Made
  BY <1>0, <1>6, AfterEndFacts DEF vm_restore, Made, NothingOfNoVm
<1>7. ASSUME NEW d \in Disks, add_to_config(d) \/ remove_from_config(d) PROVE NoVmYet
  BY <1>7 DEF add_to_config, remove_from_config, NoVmYet
<1>8. ASSUME NEW d \in Disks, \/ add_disk_fails(d) \/ remove_orphan(d)
                              \/ vm_disk_mirror_start(d) \/ vm_disk_mirror_end(d)
      PROVE  Kept
  BY <1>0, <1>8
     DEF add_disk_fails, remove_orphan, vm_disk_mirror_start, vm_disk_mirror_end,
                    MayAdd, Kept, VmTypes, Vms, NothingOfNoVm
<1>9. ASSUME vm_pause \/ vm_resume \/ vm_send_migration PROVE Kept
  BY <1>0, <1>9 DEF vm_pause, vm_resume, Odd, vm_send_migration, Kept, VmTypes, Vms, HistTypes,
                    NothingOfNoVm
<1>10. ASSUME ResetPostponed \/ GuestExitPostponed PROVE Kept
  BY <1>0, <1>10
     DEF ResetPostponed, GuestExitPostponed, Postpone, MustPostpone, Kept, VmTypes,
                     Vms, NothingOfNoVm
<1>11. ASSUME ResetWithoutVm \/ ShutdownFails PROVE Ended
  BY <1>11, VmmEndsFacts DEF ResetWithoutVm, ShutdownFails
<1>12. ASSUME MigrationReturned \/ Downtime PROVE Kept
  BY <1>0, <1>12
     DEF MigrationReturned, Downtime, NoMigration, Kept, VmTypes, Vms, LoopTypes,
                     NothingOfNoVm
<1>13. ASSUME NEW r \in {"moved", "preserved", "failed"}, WorkerEnds(r) PROVE Kept
  BY <1>0, <1>13 DEF WorkerEnds, Kept, LoopTypes, NothingOfNoVm
<1>14. ASSUME NEW e \in {"reset", "gexit"}, GuestAsks(e) PROVE Kept
  BY <1>0, <1>14 DEF GuestAsks, GuestRuns, Kept, HistTypes, NothingOfNoVm
<1>15. ASSUME NEW s \in Slots, EjectSlot(s)
       PROVE  \/ EjectsNothing(s)
              \/ \E d \in Disks : Ejects(s, d)
  BY <1>0, <1>15 DEF EjectSlot, GuestRuns, Ejects, EjectsNothing, Plugged, VmTypes, Vms
<1>16. ASSUME NEW d \in Disks, EjectDisk(d) PROVE \E s \in Slots : Ejects(s, d)
  <2>1. vm.slot[d] \in Slots /\ guest \ {vm.slot[d]} = guest
    BY <1>0, <1>16, SlotFacts DEF EjectDisk
  <2> QED
    BY <1>16, <2>1 DEF EjectDisk, GuestRuns, Ejects
<1> QED
  BY <1>1, <1>2, <1>3, <1>4, <1>5, <1>6, <1>7, <1>8, <1>9, <1>10, <1>11, <1>12, <1>13,
     <1>14,
     <1>15, <1>16, Zenon
  DEF Next, LoopStep, ApiRequest, GuestStep, WorkerStep

(***************************************************************************)
(* Type correctness, one part of it at a time.                             *)
(***************************************************************************)

(***************************************************************************)
(* No VM is a value of vm.                                                 *)
(***************************************************************************)
LEMMA NoVmType == NoVm \in Vms
  BY DEF NoVm, Vms

(***************************************************************************)
(* Every step preserves the types of the VM and of what the guest read,    *)
(***************************************************************************)
LEMMA VmStep ==
    ASSUME IndInv, Next
    PROVE  VmTypes'
<1>0. VmTypes /\ ConfigTypes
  BY TypeParts DEF IndInv
<1> USE DEF DropVm
<1> SUFFICES vm' \in Vms /\ guest' \in SUBSET Slots
  BY DEF VmTypes, Vms
<1>1. CASE vm_shutdown \/ vm_delete \/ HandleGuestExit \/ MigrationSucceeded
  BY <1>1, NoVmType DEF vm_shutdown, vm_delete, HandleGuestExit, MigrationSucceeded, VmmEnds
<1>2. CASE vm_reboot \/ HandleReset
  BY <1>0, <1>2, NoVmType, NewVmFacts
     DEF vm_reboot, HandleReset, Reboot, RebootFails, VmmEnds, ConfigTypes
<1>3. CASE HandleExit \/ ResetWithoutVm \/ ShutdownFails
  BY <1>3, NoVmType DEF HandleExit, ResetWithoutVm, ShutdownFails, VmmEnds
<1>4. CASE vm_boot
  BY <1>0, <1>4, NewVmFacts DEF vm_boot, VmTypes, ConfigTypes
<1>5. CASE \E ds \in SUBSET Disks : vm_restore(ds)
  BY <1>0, <1>5, NewVmFacts DEF vm_restore, VmTypes
<1>6. CASE UNCHANGED <<vm, guest>>
  BY <1>0, <1>6 DEF VmTypes
<1>7. ASSUME NEW d \in Disks,
             \/ add_disk_fails(d) \/ remove_orphan(d)
             \/ vm_disk_mirror_start(d) \/ vm_disk_mirror_end(d)
      PROVE  vm' \in Vms /\ guest' \in SUBSET Slots
  <2>1. CASE add_disk_fails(d)
    <3>1. PICK leak \in SUBSET Slots :
             vm' = [vm EXCEPT !.orphans = @ \cup {d}, !.blocks = @ \cup {d},
                              !.leaked = @ \cup leak]
      BY <2>1 DEF add_disk_fails, FreeSlots
    <3> QED
      BY <1>0, <2>1, <3>1 DEF add_disk_fails, VmTypes, Vms
  <2>2. CASE remove_orphan(d)
    BY <1>0, <2>2 DEF remove_orphan, VmTypes, Vms
  <2>3. CASE vm_disk_mirror_start(d)
    BY <1>0, <2>3 DEF vm_disk_mirror_start, VmTypes, Vms
  <2>4. CASE vm_disk_mirror_end(d)
    BY <1>0, <2>4 DEF vm_disk_mirror_end, VmTypes, Vms
  <2> QED
    BY <1>7, <2>1, <2>2, <2>3, <2>4
<1>8. CASE vm_pause \/ vm_resume \/ MigrationReturned \/ Downtime
  BY <1>0, <1>8 DEF vm_pause, vm_resume, MigrationReturned, Downtime, VmTypes, Vms
<1>9. CASE ResetPostponed \/ GuestExitPostponed
  BY <1>0, <1>9 DEF ResetPostponed, GuestExitPostponed, Postpone, VmTypes, Vms
<1>10. CASE ReadDown
  BY <1>0, <1>10 DEF ReadDown, AfterRead, VmTypes, Vms
<1>11. ASSUME NEW d \in Disks, add_disk(d) PROVE vm' \in Vms /\ guest' \in SUBSET Slots
  <2>1. Min(FreeSlots(vm)) \in Slots
    BY <1>0, <1>11, SlotFacts DEF add_disk
  <2> QED
    BY <1>0, <1>11, <2>1 DEF add_disk, VmTypes, Vms
<1>12. ASSUME NEW d \in Disks, remove_device(d) PROVE vm' \in Vms /\ guest' \in SUBSET Slots
  <2>1. vm.slot[d] \in Slots
    BY <1>0, <1>12, SlotFacts DEF remove_device
  <2> QED
    BY <1>0, <1>12, <2>1 DEF remove_device, VmTypes, Vms
<1>13. ASSUME NEW s \in Slots, EjectSlot(s) PROVE vm' \in Vms /\ guest' \in SUBSET Slots
  <2>1. guest' \in SUBSET Slots
    BY <1>0, <1>13 DEF EjectSlot, VmTypes
  <2>2. \/ vm' = [vm EXCEPT !.leaked = @ \ {s}]
        \/ \E d \in Disks : vm' = [vm EXCEPT !.slot[d] = 0]
    BY <1>13 DEF EjectSlot, Unplug, Plugged
  <2> QED
    BY <1>0, <2>1, <2>2 DEF VmTypes, Vms
<1>14. CASE \E d \in Disks : EjectDisk(d)
  BY <1>0, <1>14 DEF EjectDisk, Unplug, VmTypes, Vms
<1>15. CASE \/ \E ds \in SUBSET Disks : vm_create(ds)
            \/ \E d \in Disks : add_to_config(d) \/ remove_from_config(d)
            \/ vm_send_migration
            \/ \E e \in {"reset", "gexit"} : GuestAsks(e)
            \/ \E r \in {"moved", "preserved", "failed"} : WorkerEnds(r)
  BY <1>6, <1>15 DEF vm_create, add_to_config, remove_from_config, vm_send_migration,
                     GuestAsks, WorkerEnds
<1> QED
  BY <1>1, <1>2, <1>3, <1>4, <1>5, <1>7, <1>8, <1>9, <1>10, <1>11, <1>12, <1>13, <1>14,
     <1>15
  DEF Next, LoopStep, ApiRequest, GuestStep, WorkerStep

(***************************************************************************)
(* of the history,                                                         *)
(***************************************************************************)
LEMMA HistStep ==
    ASSUME IndInv, Next
    PROVE  HistTypes'
<1>0. VmTypes /\ HistTypes
  BY TypeParts DEF IndInv
<1> USE DEF DropVm
<1>a. CASE UNCHANGED hist
  BY <1>0, <1>a DEF HistTypes
<1>b. ASSUME NEW b \in BOOLEAN, hist' = NoHist \/ hist' = [NoHist EXCEPT !.odd = b]
      PROVE  HistTypes'
  <2>1. CASE hist' = NoHist
    BY <2>1 DEF HistTypes, NoHist
  <2>2. CASE hist' = [NoHist EXCEPT !.odd = b]
    BY <2>2 DEF HistTypes, NoHist
  <2> QED
    BY <1>b, <2>1, <2>2
<1>c. ASSUME NEW how \in {"none", "carried out", "taken"}, NEW b \in BOOLEAN,
             hist' = AfterEnd(how) \/ hist' = [AfterEnd(how) EXCEPT !.odd = b]
      PROVE  HistTypes'
  BY <1>c DEF HistTypes, AfterEnd, NoHist
<1>d. \A e : CarriedOut(e) \in {"none", "carried out", "taken"}
  BY DEF CarriedOut
<1>e. Left \in BOOLEAN
  BY DEF Left
<1>1. CASE \/ vm_shutdown \/ vm_delete \/ HandleGuestExit \/ MigrationSucceeded \/ vm_reboot
           \/ HandleReset \/ HandleExit \/ ResetWithoutVm \/ ShutdownFails
  BY <1>b, <1>c, <1>d, <1>e, <1>1
     DEF vm_shutdown, vm_delete, HandleGuestExit, MigrationSucceeded, vm_reboot,
         HandleReset, Reboot, RebootFails, HandleExit, ResetWithoutVm, ShutdownFails, VmmEnds
<1>2. CASE vm_pause \/ vm_resume
  BY <1>0, <1>2 DEF vm_pause, vm_resume, Odd, HistTypes
<1>f. CASE vm_boot \/ \E ds \in SUBSET Disks : vm_restore(ds)
  BY <1>b, <1>e, <1>f DEF vm_boot, vm_restore
<1>g. ASSUME NEW e \in {"reset", "gexit"}, GuestAsks(e) PROVE HistTypes'
  BY <1>0, <1>g DEF GuestAsks, HistTypes
<1>3. ASSUME NEW d \in Disks, remove_device(d) PROVE HistTypes'
  <2>1. vm.slot[d] \in Slots
    BY <1>0, <1>3, SlotFacts DEF remove_device
  <2> QED
    BY <1>0, <1>3, <2>1 DEF remove_device, HistTypes
<1>4. ASSUME NEW d \in Disks, d \in Plugged(vm), Unplug(d) PROVE HistTypes'
  BY <1>0, <1>4, SlotFacts DEF Unplug, HistTypes
<1>5. CASE (\E s \in Slots : EjectSlot(s)) \/ \E d \in Disks : EjectDisk(d)
  BY <1>4, <1>5, <1>a DEF EjectSlot, EjectDisk, Plugged
<1>6. CASE \/ \E ds \in SUBSET Disks : vm_create(ds)
           \/ \E d \in Disks : \/ add_to_config(d) \/ remove_from_config(d) \/ add_disk(d)
                               \/ add_disk_fails(d) \/ remove_orphan(d)
                               \/ vm_disk_mirror_start(d) \/ vm_disk_mirror_end(d)
           \/ vm_send_migration
  BY <1>a, <1>6
     DEF vm_create, add_to_config, remove_from_config, add_disk,
                    add_disk_fails, remove_orphan, vm_disk_mirror_start,
                    vm_disk_mirror_end,
                    vm_send_migration
<1>7. CASE \/ ReadDown \/ ResetPostponed
           \/ GuestExitPostponed \/ MigrationReturned \/ Downtime
           \/ \E r \in {"moved", "preserved", "failed"} : WorkerEnds(r)
  BY <1>a, <1>7
     DEF WorkerEnds, ReadDown, Postpone, ResetPostponed, GuestExitPostponed,
         MigrationReturned, Downtime
<1> QED
  BY <1>1, <1>2, <1>3, <1>5, <1>6, <1>7, <1>f, <1>g
     DEF Next, LoopStep, ApiRequest, GuestStep, WorkerStep

(***************************************************************************)
(* of the configuration,                                                   *)
(***************************************************************************)
LEMMA ConfigStep ==
    ASSUME IndInv, Next
    PROVE  ConfigTypes'
<1>0. ConfigTypes
  BY TypeParts DEF IndInv
<1>a. CASE UNCHANGED config
  BY <1>0, <1>a DEF ConfigTypes
<1>b. CASE config' = NoConfig
  BY <1>b DEF ConfigTypes, NoConfig
<1>1. CASE \/ vm_delete \/ HandleGuestExit \/ HandleExit \/ HandleReset \/ vm_reboot
           \/ ResetWithoutVm \/ ShutdownFails
  BY <1>a, <1>b, <1>1
     DEF vm_delete, HandleGuestExit, HandleExit, HandleReset, vm_reboot, Reboot,
         RebootFails, ResetWithoutVm, ShutdownFails, VmmEnds
<1>2. ASSUME NEW ds \in SUBSET Disks, vm_create(ds) \/ vm_restore(ds) PROVE ConfigTypes'
  <2>1. config' = [present |-> TRUE, disks |-> ds]
    BY <1>2 DEF vm_create, vm_restore
  <2> QED
    BY <2>1 DEF ConfigTypes
<1>3. CASE \E d \in Disks : add_to_config(d) \/ remove_from_config(d) \/ add_disk(d) \/ remove_device(d)
  BY <1>0, <1>3
     DEF add_to_config, remove_from_config, add_disk, WithDisk, remove_device,
         ConfigTypes
<1>4. CASE \/ \E d \in Disks : \/ add_disk_fails(d) \/ remove_orphan(d)
                               \/ vm_disk_mirror_start(d) \/ vm_disk_mirror_end(d)
           \/ vm_send_migration \/ vm_boot \/ vm_shutdown \/ vm_pause \/ vm_resume
  BY <1>a, <1>4 DEF vm_boot, add_disk_fails, remove_orphan, vm_disk_mirror_start,
                    vm_disk_mirror_end, vm_send_migration, vm_shutdown, vm_pause,
                    vm_resume
<1>5. CASE \/ ReadDown \/ ResetPostponed
           \/ GuestExitPostponed \/ MigrationReturned \/ Downtime
           \/ MigrationSucceeded
           \/ \E e \in {"reset", "gexit"} : GuestAsks(e)
           \/ \E r \in {"moved", "preserved", "failed"} : WorkerEnds(r)
           \/ \E s \in Slots : EjectSlot(s)
           \/ \E d \in Disks : EjectDisk(d)
  BY <1>a, <1>5
     DEF GuestAsks, WorkerEnds, ReadDown, Postpone, ResetPostponed, GuestExitPostponed,
         MigrationReturned, Downtime, MigrationSucceeded, EjectSlot, EjectDisk
<1> QED
  BY <1>1, <1>2, <1>3, <1>4, <1>5 DEF Next, LoopStep, ApiRequest, GuestStep, WorkerStep

(***************************************************************************)
(* of the events, signalled or postponed,                                  *)
(***************************************************************************)
LEMMA EventStep ==
    ASSUME IndInv, Next
    PROVE  EventTypes'
<1>0. EventTypes
  BY TypeParts DEF IndInv
<1> USE DEF DropVm
<1>a. CASE UNCHANGED <<evt, postponed>>
  BY <1>0, <1>a DEF EventTypes
<1>b. CASE Replay
  BY <1>0, <1>b DEF EventTypes, Replay, Replayed
<1>c. ASSUME NEW how, VmmEnds(how) PROVE EventTypes'
  BY <1>c DEF VmmEnds, NoEvt, EventTypes
<1>1. CASE vm_shutdown \/ vm_delete
  BY <1>a, <1>1 DEF vm_shutdown, vm_delete
<1>2. CASE HandleGuestExit
  BY <1>0, <1>c, <1>2 DEF HandleGuestExit, EventTypes
<1>3. CASE vm_reboot \/ HandleReset
  BY <1>0, <1>c, <1>3 DEF vm_reboot, HandleReset, Reboot, RebootFails, EventTypes
<1>4. CASE HandleExit \/ ResetWithoutVm \/ ShutdownFails
  BY <1>c, <1>4 DEF HandleExit, ResetWithoutVm, ShutdownFails
<1>5. CASE vm_send_migration \/ MigrationSucceeded
  BY <1>0, <1>5 DEF vm_send_migration, MigrationSucceeded, EventTypes
<1>6. CASE ResetPostponed
  BY <1>0, <1>6 DEF ResetPostponed, Postpone, EventTypes
<1>7. CASE GuestExitPostponed
  BY <1>0, <1>7 DEF GuestExitPostponed, Postpone, EventTypes
<1>9. CASE GuestAsks("reset")
  BY <1>0, <1>9 DEF GuestAsks, EventTypes
<1>10. CASE GuestAsks("gexit")
  BY <1>0, <1>10 DEF GuestAsks, EventTypes
<1>11. CASE MigrationReturned \/ \E d \in Disks : vm_disk_mirror_end(d)
  BY <1>a, <1>b, <1>11 DEF MigrationReturned, vm_disk_mirror_end
<1>12. CASE \/ \E ds \in SUBSET Disks : vm_create(ds) \/ vm_restore(ds)
            \/ \E d \in Disks : \/ add_to_config(d) \/ remove_from_config(d) \/ add_disk(d)
                                \/ remove_device(d) \/ add_disk_fails(d) \/ remove_orphan(d)
                                \/ vm_disk_mirror_start(d)
            \/ vm_boot \/ vm_pause \/ vm_resume
  BY <1>a, <1>12
     DEF vm_create, vm_restore, add_to_config, remove_from_config, vm_boot, add_disk,
                     add_disk_fails, remove_orphan, vm_disk_mirror_start, remove_device,
                     vm_pause, vm_resume
<1>13. CASE \/ ReadDown \/ Downtime
            \/ \E r \in {"moved", "preserved", "failed"} : WorkerEnds(r)
            \/ \E s \in Slots : EjectSlot(s)
            \/ \E d \in Disks : EjectDisk(d)
  BY <1>a, <1>13 DEF WorkerEnds, ReadDown, Downtime, EjectSlot, EjectDisk
<1> QED
  BY <1>1, <1>2, <1>3, <1>4, <1>5, <1>6, <1>7, <1>9, <1>10, <1>11, <1>12, <1>13
  DEF Next, LoopStep, ApiRequest, GuestStep, WorkerStep

(***************************************************************************)
(* and of the control loop and the migration.                              *)
(***************************************************************************)
LEMMA LoopTypeStep ==
    ASSUME IndInv, Next
    PROVE  LoopTypes'
<1>0. LoopTypes
  BY TypeParts DEF IndInv
<1> USE DEF DropVm, LoopTypes
<1>a. CASE UNCHANGED <<own, loop, mig>>
  BY <1>0, <1>a
<1>1. CASE \/ vm_shutdown \/ vm_delete \/ HandleGuestExit \/ MigrationSucceeded \/ vm_reboot
           \/ HandleReset \/ HandleExit \/ ResetWithoutVm \/ ShutdownFails \/ vm_boot
           \/ \E ds \in SUBSET Disks : vm_restore(ds)
  BY <1>0, <1>1
     DEF vm_shutdown, vm_delete, HandleGuestExit, MigrationSucceeded, NoMigration,
                    vm_reboot, HandleReset, Reboot, RebootFails, HandleExit, vm_boot,
                    vm_restore, ResetWithoutVm, ShutdownFails, VmmEnds
<1>2. CASE vm_send_migration \/ Downtime \/ MigrationReturned
  BY <1>0, <1>2 DEF vm_send_migration, Downtime, MigrationReturned, NoMigration
<1>3. CASE \E r \in {"moved", "preserved", "failed"} : WorkerEnds(r)
  BY <1>0, <1>3 DEF WorkerEnds
<1>4. CASE \/ \E ds \in SUBSET Disks : vm_create(ds)
           \/ \E d \in Disks : \/ add_to_config(d) \/ remove_from_config(d) \/ add_disk(d)
                               \/ remove_device(d) \/ add_disk_fails(d) \/ remove_orphan(d)
                               \/ vm_disk_mirror_start(d) \/ vm_disk_mirror_end(d)
           \/ vm_pause \/ vm_resume
  BY <1>a, <1>4
     DEF vm_create, add_to_config, remove_from_config, add_disk, vm_disk_mirror_end,
                     add_disk_fails, remove_orphan, vm_disk_mirror_start, remove_device,
                     vm_pause, vm_resume
<1>5. CASE \/ ReadDown \/ ResetPostponed \/ GuestExitPostponed
           \/ \E s \in Slots : EjectSlot(s)
           \/ \E d \in Disks : EjectDisk(d)
           \/ \E e \in {"reset", "gexit"} : GuestAsks(e)
  BY <1>a, <1>5
     DEF ReadDown, EjectSlot, EjectDisk, ResetPostponed, GuestExitPostponed, Postpone,
                    GuestAsks
<1> QED
  BY <1>1, <1>2, <1>3, <1>4, <1>5 DEF Next, LoopStep, ApiRequest, GuestStep, WorkerStep

(***************************************************************************)
(* The kinds of step, one by one: what holds of the disks, the             *)
(* configuration and the slots afterwards.                                 *)
(***************************************************************************)
DiskInv ==
    NothingOfNoVm /\ RemovalShape /\ SlotShape /\ ConfigIsCurrent /\ EjectsWhatWasRemoved

(***************************************************************************)
(* Without a VM there are no disks.                                        *)
(***************************************************************************)
LEMMA NoDisks == Plugged(NoVm) = {} /\ NoVm.down = {}
  BY DEF Plugged, NoVm

(***************************************************************************)
(* A VM that ends leaves nothing behind.                                   *)
(***************************************************************************)
LEMMA EndedStep ==
    ASSUME Ended
    PROVE  DiskInv'
<1>1. Plugged(vm') = {} /\ vm'.down = {}
  BY NoDisks DEF Ended
<1> QED
  BY <1>1 DEF Ended, DiskInv, NothingOfNoVm, RemovalShape, SlotShape, ConfigIsCurrent,
              EjectsWhatWasRemoved, Fresh

(***************************************************************************)
(* A VM made from the configuration has exactly its disks.                 *)
(***************************************************************************)
LEMMA MadeStep ==
    ASSUME Made, ConfigTypes'
    PROVE  DiskInv'
<1>1. /\ Plugged(vm') = config'.disks /\ vm'.down = {}
      /\ \A d, e \in config'.disks : vm'.slot[d] = vm'.slot[e] => d = e
  BY NewVmFacts DEF Made, ConfigTypes
<1> QED
  BY <1>1 DEF Made, DiskInv, NothingOfNoVm, RemovalShape, SlotShape, ConfigIsCurrent,
              EjectsWhatWasRemoved, Fresh

(***************************************************************************)
(* Without a VM only the configuration changes.                            *)
(***************************************************************************)
LEMMA NoVmStep ==
    ASSUME NothingOfNoVm, NoVmYet
    PROVE  DiskInv'
<1>1. vm' = NoVm /\ guest' = {} /\ Fresh(hist') /\ own' = "none" /\ mig'.at = "no"
  BY DEF NothingOfNoVm, NoVmYet, Fresh
<1> QED
  BY <1>1, EndedStep DEF Ended

(***************************************************************************)
(* Most requests leave the disks alone.                                    *)
(***************************************************************************)
LEMMA KeptStep ==
    ASSUME DiskInv, Kept
    PROVE  DiskInv'
<1>1. Plugged(vm') = Plugged(vm)
  BY DEF Kept, Plugged
<1> QED
  BY <1>1 DEF Kept, DiskInv, NothingOfNoVm, RemovalShape, SlotShape, ConfigIsCurrent,
              EjectsWhatWasRemoved

\* The read moves the bits to the guest.
LEMMA ReadStep ==
    ASSUME VmTypes, DiskInv, ReadDown
    PROVE  DiskInv'
<1>1. /\ vm'.slot = vm.slot /\ vm'.down = {} /\ guest' = guest \cup vm.down /\ own # "none"
      /\ UNCHANGED <<config, own, mig, hist>>
  BY DEF ReadDown, GuestRuns, AfterRead, VmTypes, Vms
<1>2. Plugged(vm') = Plugged(vm)
  BY <1>1 DEF Plugged
<1> QED
  BY <1>1, <1>2 DEF DiskInv, NothingOfNoVm, RemovalShape, SlotShape, ConfigIsCurrent,
                    EjectsWhatWasRemoved

\* A free slot has no bit that was asked for once only: such a slot has a disk.
LEMMA AddStep ==
    ASSUME VmTypes, ConfigTypes, DiskInv, NEW d \in Disks, add_disk(d)
    PROVE  DiskInv'
<1> DEFINE s == Min(FreeSlots(vm))
<1>0. s \in Slots /\ s # 0 /\ (\A e \in Plugged(vm) : vm.slot[e] # s) /\ d \notin Plugged(vm)
      /\ d \notin config.disks /\ own # "none"
  BY SlotFacts DEF add_disk, MayAdd, Tree
<1>1. /\ vm'.slot = [vm.slot EXCEPT ![d] = s] /\ vm'.down = vm.down
      /\ config' = [config EXCEPT !.disks = @ \cup {d}]
      /\ UNCHANGED <<own, guest, mig, hist>>
  BY DEF add_disk, WithDisk, VmTypes, Vms
<1>a. vm.slot \in [Disks -> {0} \cup Slots]
  BY DEF VmTypes, Vms
<1> HIDE DEF s
<1>b. config'.disks = config.disks \cup {d} /\ config'.present = config.present
  BY <1>1 DEF ConfigTypes
<1>2. Plugged(vm') = Plugged(vm) \cup {d} /\ \A e \in Plugged(vm) : vm'.slot[e] = vm.slot[e]
  BY <1>0, <1>1, <1>a DEF Plugged
<1>3. vm'.slot[d] = s
  BY <1>1, <1>a
<1>4. s \notin (vm.down \cup guest) \ hist.again
  BY <1>0 DEF DiskInv, SlotShape
<1>5. NothingOfNoVm' /\ RemovalShape' /\ ConfigIsCurrent'
  BY <1>0, <1>1, <1>b, <1>2 DEF DiskInv, NothingOfNoVm, RemovalShape, ConfigIsCurrent
<1>6. SlotShape'
  BY <1>1, <1>2 DEF DiskInv, SlotShape
<1>7. EjectsWhatWasRemoved'
  BY <1>0, <1>1, <1>2, <1>3, <1>4 DEF DiskInv, EjectsWhatWasRemoved
<1> QED
  BY <1>5, <1>6, <1>7 DEF DiskInv

\* A slot that the guest has already read is one of a disk that is being
\* removed, or was asked for twice before: its new bit is one too many.
LEMMA RemoveStep ==
    ASSUME VmTypes, HistTypes, ConfigTypes, DiskInv, NEW d \in Disks, remove_device(d)
    PROVE  DiskInv'
<1> DEFINE s == vm.slot[d]
<1>0. d \in Plugged(vm) /\ own # "none"
  BY DEF remove_device
<1>1. /\ vm'.slot = vm.slot /\ vm'.down = vm.down \cup {s}
      /\ UNCHANGED <<own, guest, mig>>
  BY DEF remove_device, VmTypes, Vms
<1>2. /\ hist'.removing = hist.removing \cup {d} /\ hist'.ejected = hist.ejected
      /\ hist'.again = IF d \in hist.removing THEN hist.again \cup {s} ELSE hist.again
  BY DEF remove_device, HistTypes
<1>3. config'.disks = config.disks \ {d} /\ config'.present = config.present
  BY DEF remove_device, ConfigTypes
<1> HIDE DEF s
<1>4. Plugged(vm') = Plugged(vm)
  BY <1>1 DEF Plugged
<1>5. NothingOfNoVm' /\ RemovalShape' /\ ConfigIsCurrent'
  BY <1>0, <1>1, <1>2, <1>3, <1>4
     DEF DiskInv, NothingOfNoVm, RemovalShape, ConfigIsCurrent
<1>6. SlotShape'
  BY <1>0, <1>1, <1>2, <1>4 DEF DiskInv, SlotShape, EjectsWhatWasRemoved, s
<1>7. EjectsWhatWasRemoved'
  BY <1>0, <1>1, <1>2, <1>4 DEF DiskInv, EjectsWhatWasRemoved, s
<1> QED
  BY <1>5, <1>6, <1>7 DEF DiskInv

(***************************************************************************)
(* The guest ejects a slot that holds nothing.                             *)
(***************************************************************************)
LEMMA EmptySlotStep ==
    ASSUME DiskInv, NEW t \in Slots, EjectsNothing(t)
    PROVE  DiskInv'
<1>1. Plugged(vm') = Plugged(vm)
  BY DEF Plugged, EjectsNothing
<1> QED
  BY <1>1 DEF EjectsNothing, DiskInv, NothingOfNoVm, RemovalShape, SlotShape, ConfigIsCurrent,
              EjectsWhatWasRemoved

\* The slot that becomes free keeps its bit only if that is one too many.
LEMMA EjectStep ==
    ASSUME VmTypes, HistTypes, DiskInv, NEW t \in Slots, NEW d \in Disks, Ejects(t, d)
    PROVE  DiskInv'
<1>0. d \in Plugged(vm) /\ vm.slot[d] = t /\ own # "none" /\ guest' = guest \ {t}
      /\ UNCHANGED <<config, own, mig>>
  BY DEF Ejects
<1>1. vm'.slot = [vm.slot EXCEPT ![d] = 0] /\ vm'.down = vm.down
  BY DEF Ejects, Unplug, VmTypes, Vms
<1>2. /\ hist'.removing = hist.removing \ {d}
      /\ hist'.ejected = IF d \in hist.removing THEN hist.ejected ELSE hist.ejected \cup {d}
      /\ hist'.again = IF t \in guest \/ t \notin vm.down THEN hist.again ELSE hist.again \cup {t}
  BY <1>0 DEF Ejects, Unplug, HistTypes
<1>3. Plugged(vm') = Plugged(vm) \ {d} /\ \A e \in Plugged(vm) \ {d} : vm'.slot[e] = vm.slot[e]
  BY <1>1 DEF Plugged, VmTypes, Vms
<1>4. NothingOfNoVm' /\ RemovalShape' /\ ConfigIsCurrent'
  BY <1>0, <1>2, <1>3 DEF DiskInv, NothingOfNoVm, RemovalShape, ConfigIsCurrent
<1>5. t \notin (vm'.down \cup guest') \ hist'.again
  BY <1>0, <1>1, <1>2 DEF DiskInv, SlotShape
<1>6. (vm'.down \cup guest') \ hist'.again \subseteq (vm.down \cup guest) \ hist.again
  BY <1>0, <1>1, <1>2
<1>7. SlotShape'
  BY <1>0, <1>1, <1>2, <1>3, <1>5, <1>6 DEF DiskInv, SlotShape
<1>8. EjectsWhatWasRemoved'
  BY <1>2, <1>3, <1>6 DEF DiskInv, EjectsWhatWasRemoved
<1> QED
  BY <1>4, <1>7, <1>8 DEF DiskInv

(***************************************************************************)
(* Every step preserves the parts about the disks.                         *)
(***************************************************************************)
LEMMA DiskStep ==
    ASSUME IndInv, Next
    PROVE  DiskInv'
<1>0. VmTypes /\ HistTypes /\ ConfigTypes /\ DiskInv
  BY TypeParts DEF IndInv, DiskInv
<1>1. NothingOfNoVm /\ ConfigTypes'
  BY ConfigStep DEF IndInv
<1> QED
  BY <1>0, <1>1, StepKinds, EndedStep, MadeStep, NoVmStep, KeptStep, ReadStep, AddStep,
     RemoveStep, EmptySlotStep, EjectStep, Zenon

(***************************************************************************)
(* The invariant holds when the VMM starts.                                *)
(***************************************************************************)
LEMMA InitInv == Init => IndInv
<1> SUFFICES ASSUME Init PROVE IndInv
  OBVIOUS
<1>1. VmTypes
  BY NoVmType DEF Init, VmTypes
<1>2. HistTypes /\ ConfigTypes /\ EventTypes /\ LoopTypes
  BY DEF Init, HistTypes, ConfigTypes, EventTypes, LoopTypes, NoHist, NoConfig, NoEvt,
         NoMigration
<1>3. NothingOfNoVm /\ RemovalShape /\ SlotShape /\ ConfigIsCurrent /\ EjectsWhatWasRemoved
  BY NoDisks DEF Init, Fresh, NothingOfNoVm, RemovalShape, SlotShape, ConfigIsCurrent,
                 EjectsWhatWasRemoved, NoHist, NoConfig, NoMigration
<1> QED
  BY <1>1, <1>2, <1>3, TypeParts DEF IndInv

(***************************************************************************)
(* It says nothing of what is outside of the model.                        *)
(***************************************************************************)
LEMMA StutterInv == IndInv /\ UNCHANGED vars => IndInv'
<1> SUFFICES ASSUME IndInv, UNCHANGED vars PROVE IndInv'
  OBVIOUS
<1>1. TypeOK'
  <2>1. VmTypes /\ HistTypes /\ ConfigTypes /\ EventTypes /\ LoopTypes
    BY TypeParts DEF IndInv
  <2>2. VmTypes' /\ HistTypes' /\ ConfigTypes'
    BY <2>1 DEF vars, VmTypes, HistTypes, ConfigTypes
  <2>3. EventTypes' /\ LoopTypes'
    BY <2>1 DEF vars, EventTypes, LoopTypes
  <2> QED
    BY <2>2, <2>3, TypeParts, PTL
<1>2. NothingOfNoVm' /\ RemovalShape'
  BY DEF vars, IndInv, NothingOfNoVm, Fresh, RemovalShape, Plugged
<1>3. SlotShape' /\ ConfigIsCurrent' /\ EjectsWhatWasRemoved'
  BY DEF vars, IndInv, SlotShape, ConfigIsCurrent, EjectsWhatWasRemoved, Plugged
<1> QED
  BY <1>1, <1>2, <1>3 DEF IndInv

(***************************************************************************)
(* Every step preserves the invariant.                                     *)
(***************************************************************************)
LEMMA NextInv == IndInv /\ [Next]_vars => IndInv'
<1> SUFFICES ASSUME IndInv, Next PROVE IndInv'
  BY StutterInv
<1>1. TypeOK'
  BY TypeParts, VmStep, HistStep, ConfigStep, EventStep, LoopTypeStep, PTL
<1> QED
  BY <1>1, DiskStep DEF IndInv, DiskInv

(***************************************************************************)
(* The inductive invariant holds in every state, for every number of disks *)
(* and of slots, with and without no_shutdown.                             *)
(***************************************************************************)
THEOREM IndInvHolds == Spec => []IndInv
  BY InitInv, NextInv, PTL DEF Spec

(***************************************************************************)
(* The state of the VMM keeps its types through every sequence of API      *)
(* requests, guest events and migrations: no slot but one of the bus is    *)
(* ever given to a disk.                                                   *)
(***************************************************************************)
THEOREM TypeCorrect == Spec => []TypeOK
<1>1. IndInv => TypeOK
  BY DEF IndInv
<1> QED
  BY <1>1, IndInvHolds, PTL

(***************************************************************************)
(* The configuration that vm_reboot and vm_shutdown leave for the next VM  *)
(* names exactly the disks of the present one, apart from those whose      *)
(* removal is under way or that the guest ejected on its own, however      *)
(* requests, ejections, reboots and migrations interleave                  *)
(* (Vmm::vm_add_disk, vm_remove_device).                                   *)
(***************************************************************************)
THEOREM ConfigurationIsCurrent == Spec => []ConfigIsCurrent
<1>1. IndInv => ConfigIsCurrent
  BY DEF IndInv
<1> QED
  BY <1>1, IndInvHolds, PTL

(***************************************************************************)
(* No two disks share a slot, and a slot that the guest is asked to eject  *)
(* (pci_devices_down, or what the guest read of it) holds no disk but one  *)
(* that the API removed, unless the slot was asked for twice.              *)
(***************************************************************************)
THEOREM OnlyRemovedIsEjected == Spec => []EjectsWhatWasRemoved
<1>1. IndInv => EjectsWhatWasRemoved
  BY DEF IndInv
<1> QED
  BY <1>1, IndInvHolds, PTL
=============================================================================
