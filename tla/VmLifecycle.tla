---------------------------- MODULE VmLifecycle -----------------------------
(***************************************************************************)
(* The VMM's control loop and its VM (vmm/src/lib.rs): the API requests    *)
(* that create, boot, pause, shut down, reboot and delete the VM, the      *)
(* lifecycle events of the guest and when they are postponed, hotplug of   *)
(* disks with the guest's side of it (vmm/src/vm.rs,                       *)
(* vmm/src/device_manager.rs), and who has the VM during a migration.      *)
(*                                                                         *)
(* The control loop is one thread: an API request or an event is one step. *)
(* The guest runs beside it: it raises events, reads the PCID register and *)
(* ejects slots from a vCPU thread.                                        *)
(*                                                                         *)
(* A request that is refused changes nothing and is no step.  Left out:    *)
(* the consoles, vCPU and memory resizing, breakpoints, the PCIU register  *)
(* (it only tells the guest of a new device), devices other than disks, a  *)
(* pause that fails half-way (module Vcpus).                               *)
(* The migration itself is module Migration, the mirror module DiskMirror. *)
(***************************************************************************)
EXTENDS Naturals, FiniteSets, FiniteSetsExt

CONSTANTS NDisks,     \* disks that a VM can have
          NSlots,     \* PCI device ids beside that of the root
          NoShutdown  \* --no-shutdown: the VMM survives its guest

ASSUME LifecycleAssumption ==
    /\ {NDisks, NSlots} \subseteq Nat
    /\ NoShutdown \in BOOLEAN

Disks == 1..NDisks
Slots == 1..NSlots

VARIABLES
    config,    \* vm_config, and the disks it names
    own,       \* VmOwnership
    vm,        \* the VM: VmState, device tree, PCID bitmap, block_devices
    evt,       \* reset_evt and guest_exit_evt are signalled
    postponed, \* postponed_lifecycle_event
    mig,       \* the migration worker
    loop,      \* the control loop runs, or ended with or without an error
    guest,     \* slots the guest read from PCID and has still to eject
    hist       \* history, only read by the properties

vars == <<config, own, vm, evt, postponed, mig, loop, guest, hist>>

NoConfig == [present |-> FALSE, disks |-> {}]
NoVm == [state |-> "none", slot |-> [d \in Disks |-> 0], leaked |-> {}, orphans |-> {},
         down |-> {}, blocks |-> {}, mirrors |-> {}]
NoMigration == [at |-> "no", initial |-> "none"]

\* removing: disks of the tree whose removal the API accepted; ejected: disks
\* the guest ejected on its own; again: slots of a disk that was to be removed
\* twice; odd: an earlier VM left an event to the present one, or the API resumed
\* it when it was not paused; asked: what the guest of the present VM asked for,
\* unless odd; end: how the VM before it ended, if its guest had asked.
NoHist == [removing |-> {}, ejected |-> {}, again |-> {}, odd |-> FALSE,
           asked |-> {}, end |-> "none"]
NoEvt == [reset |-> FALSE, gexit |-> FALSE]

Init ==
    /\ config = NoConfig /\ own = "none" /\ vm = NoVm
    /\ evt = NoEvt /\ postponed = "none" /\ mig = NoMigration /\ loop = "run"
    /\ guest = {} /\ hist = NoHist

\* The control loop returns, with or without an error: the VMM ends, and all it
\* has goes with it.
VmmEnds(how) ==
    /\ loop' = how
    /\ config' = NoConfig /\ own' = "none" /\ vm' = NoVm
    /\ evt' = NoEvt /\ postponed' = "none" /\ mig' = NoMigration
    /\ guest' = {} /\ hist' = NoHist

\* The disks in the device tree that are on the PCI bus, and all of them.
Plugged(v) == {d \in Disks : v.slot[d] # 0}
Tree(v) == Plugged(v) \cup v.orphans
FreeSlots(v) == Slots \ ({v.slot[d] : d \in Plugged(v)} \cup v.leaked)
-----------------------------------------------------------------------------
(***************************************************************************)
(* Creating and ending a VM.                                               *)
(***************************************************************************)
\* Vm::new creates the disks of the configuration in order, each in the first
\* free slot.
NewVm(state, disks) ==
    [NoVm EXCEPT !.state = state, !.blocks = disks,
                 !.slot = [d \in Disks |-> IF d \in disks
                                           THEN Cardinality({e \in disks : e <= d})
                                           ELSE 0]]

Fits(disks) == Cardinality(disks) <= NSlots

\* The history when a VM ends, by an event or because it is taken away, and
\* when the next one is made.
AfterEnd(how) == [NoHist EXCEPT !.end = IF hist.asked = {} THEN "none" ELSE how]
CarriedOut(e) == IF e \in hist.asked THEN "carried out" ELSE "none"
Left == evt' # NoEvt \/ postponed' # "none"

\* The VM is taken out of VmOwnership, shut down and dropped.  What it signalled
\* or had postponed is left behind for the next VM.
DropVm(how) == own' = "none" /\ vm' = NoVm /\ guest' = {} /\ hist' = AfterEnd(how)

\* vm.create
vm_create(disks) ==
    /\ loop = "run" /\ own # "migration" /\ ~config.present
    /\ config' = [present |-> TRUE, disks |-> disks]
    /\ UNCHANGED <<own, vm, evt, postponed, mig, loop, guest, hist>>

\* vm.boot: a VM whose boot fails is owned, in the state Created.
vm_boot ==
    /\ loop = "run" /\ own = "none" /\ config.present /\ Fits(config.disks)
    /\ own' = "owned"
    /\ \E s \in {"Running", "Created"} : vm' = NewVm(s, config.disks)
    /\ UNCHANGED <<config, evt, postponed, mig, loop, guest>>
    /\ hist' = [NoHist EXCEPT !.odd = Left]

\* vm.restore, with and without resume.
vm_restore(disks) ==
    /\ loop = "run" /\ own = "none" /\ ~config.present /\ Fits(disks)
    /\ config' = [present |-> TRUE, disks |-> disks]
    /\ own' = "owned"
    /\ \E s \in {"Running", "Paused"} : vm' = NewVm(s, disks)
    /\ UNCHANGED <<evt, postponed, mig, loop, guest>>
    /\ hist' = [NoHist EXCEPT !.odd = Left]

\* vm.shutdown
vm_shutdown ==
    /\ loop = "run" /\ own = "owned"
    /\ DropVm("taken")
    /\ UNCHANGED <<config, evt, postponed, mig, loop>>

\* vm_reboot: the old VM is dropped, a second reset is discarded, and a new VM
\* is created from the configuration and booted.
Reboot(how) ==
    /\ Fits(config.disks)
    /\ vm' = NewVm("Running", config.disks) /\ own' = "owned"
    /\ evt' = [evt EXCEPT !.reset = FALSE]
    /\ guest' = {}
    /\ UNCHANGED <<config, postponed, mig, loop>>
    /\ hist' = [AfterEnd(how) EXCEPT !.odd = Left]

\* The old VM is dropped and the new one is not created or does not boot; a
\* shutdown that fails returns before the second reset is discarded.
RebootFails ==
    /\ DropVm("taken")
    /\ evt' \in {evt, [evt EXCEPT !.reset = FALSE]}
    /\ UNCHANGED <<config, postponed, mig, loop>>

\* vm.reboot
vm_reboot ==
    /\ loop = "run" /\ own = "owned"
    /\ Reboot("taken") \/ RebootFails

\* vm.delete; one whose shutdown fails is vm_shutdown.
vm_delete ==
    /\ loop = "run" /\ own # "migration" /\ config.present
    /\ DropVm("taken") /\ config' = NoConfig
    /\ UNCHANGED <<evt, postponed, mig, loop>>

\* The history when the VM is driven through a state it is not in.
Odd == [hist EXCEPT !.odd = TRUE, !.asked = {}, !.end = "none"]

\* vm.pause and vm.resume, and what VmState::valid_transition lets them do.
vm_pause ==
    /\ loop = "run" /\ own = "owned" /\ vm.state \in {"Created", "Running"}
    /\ vm' = [vm EXCEPT !.state = "Paused"]
    /\ hist' = IF vm.state = "Created" THEN Odd ELSE hist
    /\ UNCHANGED <<config, own, evt, postponed, mig, loop, guest>>

vm_resume ==
    /\ loop = "run" /\ own = "owned" /\ vm.state \in {"Created", "Shutdown", "Paused"}
    /\ vm' = [vm EXCEPT !.state = "Running"]
    /\ hist' = IF vm.state = "Paused" THEN hist ELSE Odd
    /\ UNCHANGED <<config, own, evt, postponed, mig, loop, guest>>
-----------------------------------------------------------------------------
(***************************************************************************)
(* Hotplug: the API's side.                                                *)
(***************************************************************************)
\* vm.add-disk without a VM: only the configuration changes.
add_to_config(d) ==
    /\ loop = "run" /\ own = "none" /\ config.present /\ d \notin config.disks
    /\ config' = [config EXCEPT !.disks = @ \cup {d}]
    /\ UNCHANGED <<own, vm, evt, postponed, mig, loop, guest, hist>>

\* The configuration after a disk was hotplugged.
ForgetsAdded(d) == config  \* mutant of WithDisk
WithDisk(d) == [config EXCEPT !.disks = @ \cup {d}]

\* vm.add-disk: the id is new to the configuration and to the device tree.
MayAdd(d) == loop = "run" /\ own = "owned" /\ d \notin config.disks \cup Tree(vm)

add_disk(d) ==
    /\ MayAdd(d) /\ FreeSlots(vm) # {}
    /\ vm' = [vm EXCEPT !.slot[d] = Min(FreeSlots(vm)), !.blocks = @ \cup {d}]
    /\ config' = WithDisk(d)
    /\ UNCHANGED <<own, evt, postponed, mig, loop, guest, hist>>

\* vm.add-disk without a free slot, with a slot that is in use, or with an error
\* after the slot was allocated, which nobody frees: the disk is already in
\* block_devices and has a node in the device tree.
add_disk_fails(d) ==
    /\ MayAdd(d)
    /\ \E leak \in {{}} \cup {{s} : s \in FreeSlots(vm)} :
          vm' = [vm EXCEPT !.orphans = @ \cup {d}, !.blocks = @ \cup {d},
                           !.leaked = @ \cup leak]
    /\ UNCHANGED <<config, own, evt, postponed, mig, loop, guest, hist>>

\* vm.remove-device without a VM.
remove_from_config(d) ==
    /\ loop = "run" /\ own = "none" /\ d \in config.disks
    /\ config' = [config EXCEPT !.disks = @ \ {d}]
    /\ UNCHANGED <<own, vm, evt, postponed, mig, loop, guest, hist>>

\* vm.remove-device: the disk leaves block_devices and the configuration; the
\* guest is told through PCID.  It stays in the tree until the guest ejects it.
remove_device(d) ==
    /\ loop = "run" /\ own = "owned" /\ d \in Plugged(vm) /\ d \notin vm.mirrors
    /\ vm' = [vm EXCEPT !.blocks = @ \ {d}, !.down = @ \cup {vm.slot[d]}]
    /\ config' = [config EXCEPT !.disks = @ \ {d}]
    /\ hist' = [hist EXCEPT !.removing = @ \cup {d},
                            !.again = IF d \in hist.removing THEN @ \cup {vm.slot[d]} ELSE @]
    /\ UNCHANGED <<own, evt, postponed, mig, loop, guest>>

\* vm.remove-device of a disk that was not plugged: MissingNode, after the disk
\* left block_devices.
remove_orphan(d) ==
    /\ loop = "run" /\ own = "owned" /\ d \in vm.orphans \cap vm.blocks
    /\ vm' = [vm EXCEPT !.blocks = @ \ {d}]
    /\ UNCHANGED <<config, own, evt, postponed, mig, loop, guest, hist>>
-----------------------------------------------------------------------------
(***************************************************************************)
(* The guest, on a vCPU thread.                                            *)
(***************************************************************************)
GuestRuns == loop = "run" /\ own # "none" /\ vm.state = "Running"

\* A read of PCID returns the bitmap and clears it.
KeepsBits(v) == v  \* mutant of AfterRead
AfterRead(v) == [v EXCEPT !.down = {}]

ReadDown ==
    /\ GuestRuns /\ vm.down # {}
    /\ guest' = guest \cup vm.down
    /\ vm' = AfterRead(vm)
    /\ UNCHANGED <<config, own, evt, postponed, mig, loop, hist>>

\* eject_device: the disk leaves the tree and the buses.  block_devices keeps a
\* disk that the API did not remove.
Unplug(d) ==
    /\ vm' = [vm EXCEPT !.slot[d] = 0]
    /\ hist' = [hist EXCEPT
          !.removing = @ \ {d},
          !.ejected = IF d \in hist.removing THEN @ ELSE @ \cup {d},
          !.again = IF vm.slot[d] \in guest \/ vm.slot[d] \notin vm.down THEN @
                    ELSE @ \cup {vm.slot[d]}]

\* The guest ejects a slot it was told to; one without a device is an error,
\* after the slot was freed.
EjectSlot(s) ==
    /\ GuestRuns /\ s \in guest
    /\ guest' = guest \ {s}
    /\ IF \E d \in Plugged(vm) : vm.slot[d] = s
       THEN \E d \in Plugged(vm) : vm.slot[d] = s /\ Unplug(d)
       ELSE vm' = [vm EXCEPT !.leaked = @ \ {s}] /\ UNCHANGED hist
    /\ UNCHANGED <<config, own, evt, postponed, mig, loop>>

\* The guest's administrator ejects a disk, a mirrored one too.
EjectDisk(d) ==
    /\ GuestRuns /\ d \in Plugged(vm) /\ vm.slot[d] \notin guest
    /\ Unplug(d)
    /\ UNCHANGED <<config, own, evt, postponed, mig, loop, guest>>

\* The guest reboots or powers off.
GuestAsks(e) ==
    /\ GuestRuns
    /\ evt' = [evt EXCEPT ![e] = TRUE]
    /\ hist' = [hist EXCEPT !.asked = IF hist.odd THEN @ ELSE @ \cup {e}, !.end = "none"]
    /\ UNCHANGED <<config, own, vm, postponed, mig, loop, guest>>
-----------------------------------------------------------------------------
(***************************************************************************)
(* Disk mirrors.                                                           *)
(***************************************************************************)
\* replay_lifecycle_event
Replayed(e) ==
    [e EXCEPT !.reset = @ \/ postponed = "reboot", !.gexit = @ \/ postponed = "shutdown"]

Replay == evt' = Replayed(evt) /\ postponed' = "none"

vm_disk_mirror_start(d) ==
    /\ loop = "run" /\ own = "owned" /\ vm.state # "Paused"
    /\ d \in vm.blocks \cap Plugged(vm) /\ d \notin vm.mirrors
    /\ vm' = [vm EXCEPT !.mirrors = @ \cup {d}]
    /\ UNCHANGED <<config, own, evt, postponed, mig, loop, guest, hist>>

\* vm_disk_mirror_complete and vm_disk_mirror_cancel: the last mirror's end lets
\* a postponed event through.
vm_disk_mirror_end(d) ==
    /\ loop = "run" /\ own = "owned" /\ vm.state # "Paused" /\ d \in vm.mirrors
    /\ vm' = [vm EXCEPT !.mirrors = @ \ {d}]
    /\ IF vm'.mirrors = {} THEN Replay ELSE UNCHANGED <<evt, postponed>>
    /\ UNCHANGED <<config, own, mig, loop, guest, hist>>
-----------------------------------------------------------------------------
(***************************************************************************)
(* The events of the control loop.                                         *)
(***************************************************************************)
\* postpone_lifecycle_event: during a migration or a mirror.  The first event
\* is kept; without a migration the VM is shut down, but not dropped.
MustPostpone == own = "migration" \/ (own = "owned" /\ vm.mirrors # {})
PostponeForgets(ev) ==  \* mutant of Postpone
    /\ vm' = IF own = "owned" THEN [vm EXCEPT !.state = "Shutdown"] ELSE vm
    /\ UNCHANGED <<config, own, postponed, mig, loop, guest, hist>>

Postpone(ev) ==
    /\ postponed' = IF postponed = "none" THEN ev ELSE postponed
    /\ vm' = IF own = "owned" THEN [vm EXCEPT !.state = "Shutdown"] ELSE vm
    /\ UNCHANGED <<config, own, mig, loop, guest, hist>>

ResetPostponed ==
    /\ loop = "run" /\ evt.reset /\ MustPostpone
    /\ Postpone("reboot")
    /\ evt' = [evt EXCEPT !.reset = FALSE]

\* vm_reboot; an error of it ends the control loop.
HandleReset ==
    /\ loop = "run" /\ evt.reset /\ own = "owned" /\ ~MustPostpone
    /\ Reboot(CarriedOut("reset")) \/ VmmEnds("error")

\* The VM was shut down in between: VmNotCreated.
ResetWithoutVm ==
    /\ loop = "run" /\ evt.reset /\ own = "none"
    /\ VmmEnds("error")

GuestExitPostponed ==
    /\ loop = "run" /\ evt.gexit /\ MustPostpone
    /\ Postpone("shutdown")
    /\ evt' = [evt EXCEPT !.gexit = FALSE]

\* vm_shutdown with --no-shutdown, which fails without a VM; else vmm_shutdown.
HandleGuestExit ==
    /\ loop = "run" /\ evt.gexit /\ ~MustPostpone
    /\ CASE ~NoShutdown -> VmmEnds("exit")
         [] NoShutdown /\ own = "none" -> VmmEnds("error")
         [] OTHER -> /\ DropVm(CarriedOut("gexit"))
                     /\ evt' = [evt EXCEPT !.gexit = FALSE]
                     /\ UNCHANGED <<config, postponed, mig, loop>>

\* Vm::shutdown fails in a handler that postpones or exits: the loop ends.
ShutdownFails ==
    /\ loop = "run" /\ own = "owned" /\ vm.state # "Shutdown"
    /\ evt.gexit \/ (evt.reset /\ MustPostpone)
    /\ VmmEnds("error")

\* exit_evt is signalled: by a signal to the VMM, a device that cannot go on, a
\* failed resume or the end of a migration without keep_alive.  Nobody else
\* reads it, so that signalling and handling it are one step.  vmm_shutdown
\* fails when the VM is with the migration worker.
HandleExit ==
    /\ loop = "run"
    /\ VmmEnds(IF own = "migration" THEN "error" ELSE "exit")
-----------------------------------------------------------------------------
(***************************************************************************)
(* A migration to another host.                                            *)
(***************************************************************************)
\* vm.send-migration: an event postponed earlier is discarded.
vm_send_migration ==
    /\ loop = "run" /\ own = "owned" /\ vm.state \in {"Running", "Paused"}
    /\ own' = "migration" /\ mig' = [at |-> "sending", initial |-> vm.state]
    /\ postponed' = "none"
    /\ UNCHANGED <<config, vm, evt, loop, guest, hist>>

\* The worker pauses the VM for the downtime.
Downtime ==
    /\ loop = "run" /\ mig.at = "sending"
    /\ mig' = [mig EXCEPT !.at = "paused"]
    /\ vm' = [vm EXCEPT !.state = "Paused"]
    /\ UNCHANGED <<config, own, evt, postponed, loop, guest, hist>>

\* The worker ends: the VM moved, it did with preserve_source, or it did not; a
\* disk with a mirror cannot be in a snapshot.
WorkerEnds(res) ==
    /\ loop = "run" /\ mig.at \in {"sending", "paused"}
    /\ res # "failed" => mig.at = "paused" /\ vm.mirrors = {}
    /\ mig' = [mig EXCEPT !.at = res]
    /\ UNCHANGED <<config, own, vm, evt, postponed, loop, guest, hist>>

\* check_migration: the VM moved, or is lost after a postcopy that failed late;
\* it is shut down here, and its postponed event, which the destination has, is
\* cleared.
MigrationSucceeded ==
    /\ loop = "run" /\ mig.at = "moved"
    /\ mig' = NoMigration /\ DropVm("taken")
    /\ postponed' = "none"
    /\ UNCHANGED <<config, evt, loop>>

\* check_migration: preserve_source, or a failed or cancelled migration, after
\* which a VM that ran is resumed.
MigrationReturned ==
    /\ loop = "run" /\ mig.at \in {"preserved", "failed"}
    /\ mig' = NoMigration /\ own' = "owned"
    /\ vm' = IF mig.at = "failed" /\ mig.initial = "Running" /\ vm.state = "Paused"
             THEN [vm EXCEPT !.state = "Running"] ELSE vm
    /\ Replay
    /\ UNCHANGED <<config, loop, guest, hist>>
-----------------------------------------------------------------------------
\* An event that is signalled, or a worker that ended.
LoopStep ==
    \/ ResetPostponed \/ HandleReset \/ ResetWithoutVm \/ GuestExitPostponed
    \/ HandleGuestExit \/ ShutdownFails \/ HandleExit \/ MigrationSucceeded \/ MigrationReturned

ApiRequest ==
    \/ \E ds \in SUBSET Disks : vm_create(ds) \/ vm_restore(ds)
    \/ vm_boot \/ vm_shutdown \/ vm_reboot \/ vm_delete \/ vm_pause \/ vm_resume
    \/ \E d \in Disks :
          \/ add_to_config(d) \/ add_disk(d) \/ add_disk_fails(d)
          \/ remove_from_config(d) \/ remove_device(d) \/ remove_orphan(d)
          \/ vm_disk_mirror_start(d) \/ vm_disk_mirror_end(d)
    \/ vm_send_migration

GuestStep ==
    \/ ReadDown
    \/ \E s \in Slots : EjectSlot(s)
    \/ \E d \in Disks : EjectDisk(d)
    \/ \E e \in {"reset", "gexit"} : GuestAsks(e)

WorkerStep == Downtime \/ \E r \in {"moved", "preserved", "failed"} : WorkerEnds(r)

Next == LoopStep \/ ApiRequest \/ GuestStep \/ WorkerStep

Spec == Init /\ [][Next]_vars

\* epoll returns every event that is signalled, so the loop handles each of them.
FairSpec ==
    /\ Spec
    /\ WF_vars(ResetPostponed \/ HandleReset \/ ResetWithoutVm)
    /\ WF_vars(GuestExitPostponed \/ HandleGuestExit)
    /\ WF_vars(MigrationSucceeded \/ MigrationReturned)
-----------------------------------------------------------------------------
(***************************************************************************)
(* Properties.                                                             *)
(***************************************************************************)
TypeOK ==
    /\ config \in [present : BOOLEAN, disks : SUBSET Disks]
    /\ own \in {"none", "owned", "migration"}
    /\ vm \in [state : {"none", "Created", "Running", "Paused", "Shutdown"},
               slot : [Disks -> {0} \cup Slots], leaked : SUBSET Slots, orphans : SUBSET Disks,
               down : SUBSET Slots, blocks : SUBSET Disks, mirrors : SUBSET Disks]
    /\ evt \in [reset : BOOLEAN, gexit : BOOLEAN] /\ postponed \in {"none", "reboot", "shutdown"}
    /\ mig \in [at : {"no", "sending", "paused", "moved", "preserved", "failed"},
                initial : {"none", "Running", "Paused"}]
    /\ loop \in {"run", "exit", "error"} /\ guest \subseteq Slots
    /\ hist \in [removing : SUBSET Disks, ejected : SUBSET Disks, again : SUBSET Slots,
                 odd : BOOLEAN, asked : SUBSET {"reset", "gexit"},
                 end : {"none", "carried out", "taken"}]

\* The configuration, from which a reboot makes the next VM, names exactly the
\* disks the VM has: those hotplugged too, those whose removal the guest has
\* not carried out no more.  A disk the guest ejected on its own comes back.
ConfigIsCurrent ==
    own # "none" => Plugged(vm) \ hist.removing = config.disks \ hist.ejected

\* No two disks are in one slot, and a slot the guest is asked to eject holds no
\* disk but one the API removed - unless the removal was requested again before
\* the guest ejected the disk, or the guest was faster than the register: the
\* bit that is left then asks for whatever is plugged there next.
EjectsWhatWasRemoved ==
    /\ \A d, e \in Plugged(vm) : vm.slot[d] = vm.slot[e] => d = e
    /\ \A d \in Plugged(vm) :
          vm.slot[d] \in (vm.down \cup guest) \ hist.again => d \in hist.removing

\* What the guest asked for is carried out once no migration and no mirror is
\* under way: neither being postponed, nor a second event, nor the way in which
\* the migration or the mirror ends loses it.  The API may shut the VM down
\* before that, and a VM that moved ends elsewhere.  Excepted is a VM to which
\* an earlier one left an event, which may be taken for its own, and one that
\* the API resumes after its shutdown was postponed.
EventIsHandled ==
    <>[](loop # "run" \/ ~MustPostpone) =>
        (hist.asked # {} ~> (hist.end \in {"carried out", "taken"} \/ hist.odd \/ loop # "run"))
=============================================================================
