# A formal model of Cloud Hypervisor

This directory holds TLA+ specifications of the concurrent core of the
repository: live disk mirroring, the pause handshake of virtio devices, the
drain of the block device, live migration and its memory transfer, the vCPU
threads and those who stop them, the life of a VM with disk hotplug, the
activation of virtio PCI devices, and MSI-X interrupts. TLC checks them on
small instances; TLAPS proves every safety property that a passing run
checks, for every instance, three of them under a hypothesis about faults
(section 5).

    tlc -workers 2 -config MCMigration.cfg MCMigration   # one run
    tlapm MigrationProofs.tla                            # one module of proofs

`PROJECT.json` lists the runs, which source lines each definition models, the
mutants that show each property can fail, the hazards that the properties are
aimed at, the theorems, and a finding.

## 1. Inventory

One VMM process runs one VM. Its threads are the control loop (API requests and
guest lifecycle events), one thread per vCPU, one worker per virtio queue (or
device), and helpers that come and go: the copy worker of a disk mirror, the
migration worker, the threads of a memory transfer, the fault handler of a
postcopy destination.

| Component | State | Operations | Interacts by | What is hard |
|---|---|---|---|---|
| `block/src/mirror.rs` range locks | ordered map of held ranges, condition variable | lock, release | called by queue workers and copy worker | one-entry overlap test, lost wake-ups, overflow |
| `block/src/mirror.rs` mirror | phase, destination, copy offset | mirrored write, copy, fail, transition | shared `MirrorState`, two I/O backends | write against copy, error against completion |
| `virtio-devices/src/block.rs` queues | rings, in-flight map, staged command, stall flag | submit, complete, apply command | eventfds, command slot, acknowledgement channel | swallowed kicks, late commands, drain |
| `virtio-devices/src/block.rs` device | mirror handle, disk, drain flag, counter | start/complete/cancel mirror, pause, reset, activate, drop | commands to the workers, barrier | partial switch-over, timeouts, retries |
| `virtio-devices/src/{device,epoll_helper,thread_helper}.rs` | paused flag, eventfds, barrier, park tokens | activate, pause, resume, reset | barrier and eventfds shared by the workers | early parking, stale events, join of parked threads |
| `vmm/src/lib.rs` control loop | owner of the VM, postponed event, exit | API calls, events, `check_migration` | eventfds, worker's result | VM is away with the worker |
| `vmm/src/lib.rs`, `vmm/src/migration/*` source | migration worker, cancel flag, dirty log | `send_migration` | requests and answers, disk locks | lost answers, late failures, cancellation |
| `vmm/src/lib.rs` destination | `ReceiveMigrationState`, VM | receive steps, restore, complete | the same connection, fault connection | break at any step, missing locks |
| `vmm/src/memory_manager.rs`, `uffd.rs` | regions, slots, dirty log, fault handler | map, resize, fault service | KVM, userfaultfd, fault connection | pages fetched late, broken connection |
| `vmm/src/vm.rs`, `cpu.rs` | `VmState`, vCPU threads | boot, pause, resume, snapshot, restore, resize | signals, barriers | partial pause, kick of a vCPU |
| `vmm/src/device_manager.rs` | device tree, buses, locks | add, remove, eject, lock, release | PCI bus, control loop | eject against guest access |
| `vmm/src/vcpu_throttling.rs` | throttle thread | set, stop | vCPU pause | throttle against pause |
| `vmm/src/migration/transport.rs` | sending threads, gates | send ranges, shut down | sockets | error of one of several threads |
| `vm-migration` | protocol records, progress, keep-alive | encode, iterate bitmaps | sockets | bit and page arithmetic |
| `virtio-devices/src/transport` | common config, queue config | driver writes, activation | activation barrier with the VMM thread | activation against pause |
| `virtio-devices/src/vsock` | connections, credit, kill queue | packets, streams | host sockets | credit, wrap-around, shutdown |
| `virtio-devices/src/{net,balloon,mem,iommu,...}.rs` | per device | queue handlers | worker loop | bitmap and size arithmetic |
| `virtio-devices/src/vhost_user` | backend connection | set up, reconnect | another process | in-flight requests |
| `rate_limiter` | token buckets, timer | consume, unblock, group broadcast | timerfd, eventfds | overflow, missed unblock |
| `vm-allocator` | address ranges, GSIs, slots | allocate, free | device manager | alignment, adjacency |
| `pci`, `devices`, `vm-device` | registers, MSI-X, IOAPIC, bus ranges | reads and writes | vCPU exits | pending interrupts |
| `block` formats, `hypervisor`, `arch`, `net_util`, `tpm`, `serial_buffer` | per library | host I/O, wrappers | | metadata cache of qcow2 |
| `vmm/src/config.rs`, `option_parser`, `api_client`, seccomp, landlock, `tracer`, `event_monitor`, daemons | configuration, tables | parsing | | none that is concurrent |

What makes the modelled parts correct:

* **Range locks**: granted ranges never overlap; the map is exactly what the
  guards hold; nobody sleeps without a reason.
* **Disk mirror**: no acknowledged guest write is lost by starting, failing,
  cancelling, completing or resetting; a ready mirror is in sync; all queues
  serve the same disk; a phase transition never panics; calls return.
* **Pause and drain**: a paused device does nothing, has nothing in flight and
  a clean image; no request waits without a signal; a pause, a reset and a
  resume take effect.
* **Migration**: the guest runs at most once and is not lost, on complete
  memory and with its disk locks; a reset or shutdown of the guest is carried
  out where the guest ends up; every migration ends.
* **Memory transfer**: after each iteration the destination has every page the
  dirty log does not name, whichever connection carried it; both sides end,
  also when a connection fails.
* **vCPUs**: in a paused VM no vCPU runs, in a running one none is held back,
  whatever throttling did; an operation on the vCPUs returns.
* **VM life cycle**: the configuration names the disks the VM has; the guest is
  asked to eject only what was removed; a reset or shutdown that the guest asks
  for is carried out, postponed or not.
* **PCI activation**: a device works on the queues its driver set up last; a
  paused VM has no activation outstanding; no vCPU waits for ever.
* **MSI-X**: an interrupt goes where its vector was programmed to go and is not
  lost by masking; KVM never has an irqfd without a route.

## 2. Modules

| Module | Models | Used by |
|---|---|---|
| `RangeExclusion` | what a range lock promises: acquire a free set of addresses, release it | `RangeLock` |
| `RangeLock` | `RangeLockManager`, `RangeGuard`; shown to implement `RangeExclusion` | `MCRangeLock`, `MirrorProofs` |
| `DiskMirror` | mirror state, mirroring backend, copy worker, queue workers, block API | `MCDiskMirror`, `MirrorProofs` |
| `VirtioPause` | `VirtioCommon`, `WorkerThreads`, `EpollHelper` | `MCVirtioPause`, `VirtioProofs` |
| `BlockDrain` | request accounting of the block device against pause | `MCBlockDrain`, `BlockDrainProofs` |
| `Migration` | both ends of a live migration, connection, locks, memory, guest event | `MCMigration`, `MigrationProofs` |
| `MemTransfer` | memory iterations over several connections, gates, errors | `MCMemTransfer`, `MemTransferProofs` |
| `Vcpus` | vCPU threads, `CpuManager`, CPU hotplug device, throttle thread | `MCVcpus`, `VcpusProofs` |
| `VmLifecycle` | control loop, ownership of the VM, disk hotplug and eject, mirrors | `MCVmLifecycle`, `VmLifecycleProofs` |
| `VirtioPci` | driver status, activators, barrier, pause and restore | `MCVirtioPci`, `VirtioProofs` |
| `Msix` | MSI-X table and pending bits, interrupt group, routes in KVM | `MCMsix`, `MsixProofs` |
| `MirrorProofs`, `VirtioProofs`, `BlockDrainProofs`, `MigrationProofs`, `MemTransferProofs`, `VcpusProofs`, `VmLifecycleProofs`, `MsixProofs` | inductive invariants, lemmas and theorems (section 5) | |

The modules meet at narrow seams. `DiskMirror` takes a lock per block where the
code takes a range, which `RangeLock` justifies. `BlockDrain` takes
`VirtioCommon::pause` as one step, which `VirtioPause` details. `Migration`
takes the pause of a VM as one step that succeeds or fails, which `Vcpus`
details for the vCPUs and `VirtioPci` for devices that are not activated yet;
it takes the sending of a table as one step, which `MemTransfer` details.
`VmLifecycle` takes a migration as a worker that has the VM and ends in one of
three ways, and a mirror as a set that a disk is in or not.

### RangeLock
`ranges` is the `BTreeMap`, `pc`/`req` is where each thread is and what it asks
for. `CallLockRange` covers the two rejections and the first test, `WaitWhile`
the loop of `Condvar::wait_while` (a wake-up followed by another test, also
spurious), `Release` the drop of a guard: remove and `notify_all`.
`OverlapsAny` is the code's one-entry test, not the mathematical one; that both
agree on reachable maps is the theorem `OverlapsAnyIsExact`.

### DiskMirror
A write is named by its number, which is also the data it writes, and covers
one block. `legal[b]`, a history variable, holds the data a read of block `b`
may return: that of the newest acknowledged writes and of the unacknowledged
ones. `src` and `dst[g]` are the disks; `backend[q]` is the `AsyncIo` of queue
`q` (source, mirroring with or without passthrough after a failure, or
destination). A mirrored write is `LockRange`, then `SourceIo` and
`DestinationIo` in any order and with any outcome, then `WaitForCompletions`.
The API thread is a program counter (`api`): every call stages a command in
each queue's slot (`Stage`), waits for all acknowledgements or times out, and
continues or rolls back. `ApplyCommand` follows
`try_apply_pending_block_queue_command`: only with no request in flight, then
acknowledge, then look at the ring again. A command whose caller gave up stays
in its slot with `live = FALSE`. A panic ends the VMM (`crash`).

Abstractions: reads are the property's job (`ReadDisk`); zeroing and hole
punching are writes; a flush has no effect because no host cache is modelled;
host I/O in flight at a reset reaches the disk or not; pausing is left to
`VirtioPause` (the block API refuses a mirror call on a paused device).

### VirtioPause
`worker[w]` is where a worker is in `run_with_timeout`: start loop, epoll,
dispatch, barrier, parked, draining the pause event. `events[w]` are those epoll
returned and the worker has not dispatched, in any order. The park token of
`std::thread::park`, spurious unparks, and the `Barrier` are modelled as the
standard library documents them.

### BlockDrain
Requests are counted rather than named. A pass of `process_queue_submit` is
split where another thread can see a difference: raise the counter (`Enter`),
test the flag (`FirstCheck`, again for each request in `LoopCheck`), pop,
submit, count the batch, drop the guard (`Leave`). `PauseFails` covers the
timeout of the drain and a metadata flush that fails; both clear the flag.

The error returns are actions of their own. `PopFails`, `SubmitFails` and
`CompleteFails` are those that the code only logs: guest memory cannot be
written, the ring not be updated, an `fsync` fails. A popped batch, and the
request at hand, are then never answered (`lost`); the rest of the ring waits
with its kick consumed (`skipped`), the rest of the completions with the
notifier read (`stuck`). `RingFails` and a failed signal to the guest (`Dies`)
end the worker (`pc[q] = "dead"`), whose device is marked NEEDS_RESET; a pause
waits for it at the barrier for ever. `HandleCommand` and `Apply` are what a
mirror command means for a queue: it is pending until nothing is in flight, the
ring is left alone meanwhile and while the queue is stalled (`Deferred`), and
the ring is looked at once the command is applied. Which commands come in which
order is left to `DiskMirror`; here they come in any. `submit_batch_requests`
submits all of a batch or nothing, the contract of `AsyncIo`
(`block/src/io/async_io.rs:190-192`).

### Migration
The worker is a program counter `wpc`: what it does next, or the request it
waits for. One request and one answer travel at a time, as
`send_request_expect_ok` does; `Break` may lose either. `stale` holds the pages
whose content the destination lacks, `dirty` the dirty log, `table` what was
taken from it. `check_migration` is split by its branches: `CheckPreserved`,
`CheckMoved`, `CheckPostcopyFailed`, `CheckFailed`. The destination follows
`ReceiveMigrationState`. Lock holders are `src`, `dst`, another process or
nobody.

Abstractions: convergence is a choice; one memory connection; one guest event
per behaviour; a preserved VM is not sent twice; an operator's shutdown of the
VMM during a migration is not modelled (the code marks it as open); the
destination fetches pages in the background.

### Vcpus
`cpu[i]` is a vCPU thread: its place in the run loop, its flags `active`,
`signalled`, `paused`, its park token and, while it ejects another, its target.
`call[c]` is the operation of one of the two callers: the owner of the `Vm` and
the throttle thread. `manager` and `states` are the two mutexes. `signal_vcpus`
is `SignalAll`, then for each vCPU a wait for its acknowledgement that ends in
`Acked`, `AckRetry` or `AckTimeout`; pause goes on to notify the clock of each
vCPU, which needs that vCPU's own mutex, and to spin until all have set
`paused`. An access to the hotplug device (`Access`, `AccessDone`) needs the
mutex of `vcpu_states` on the vCPU thread; an eject holds it across the wait
for the other thread. A throttle thread that fails panics and poisons the
manager's mutex. `late` records a pause that failed.

Abstractions: lengths of throttling phases; the migration is only its pause,
its reset of the throttle thread and its end.

### MemTransfer
`own` is the migration worker, `snd[w]` and `rcv[w]` are the threads at the two
ends of connection `w`, `chan` is the bounded channel all send workers share,
`opened` the gates. A page's content is a version, so that a late chunk is
visible as an older version over a newer one. A fault is a write, read,
connect, accept or spawn that fails, on either side; after it the model follows
the code's way out: the error note, the gate opened for those who wait, the
disconnect messages, the joins, the kill event of the receiver.

### VmLifecycle
`config` is `vm_config`, `own` is `VmOwnership`, `vm` the state, the slots, the
block devices, the PCID bits and the mirrors. `evt` are the reset and guest-exit
eventfds, `postponed` the postponed event; both outlive the VM that raised them,
as in the code, and the next VM may find them. `VmmEnds` is the end of the
control loop, with or without an error. An API request that is refused changes
nothing and is no step. A hotplug that fails after the device was created leaves
an `orphan` in the device tree and may leave a slot allocated (`leaked`), as the
code does. The history `hist` follows what the guest of the present VM asked for
(`asked`) and how that VM ended (`end`): by the event, or because the API or a
migration took the VM away. The guest learns a slot from PCID (`ReadDown`), ejects it (`EjectSlot`),
or ejects one of its own accord (`EjectDisk`).

### VirtioPci
The queues a driver sets up are a generation number; `serving` is the
generation the device works on, `pending` are the activators. `act` is the
thread in `activate_virtio_devices`: activate, store `device_activated`, meet
the vCPU at the barrier. A failure (`Failure`) leaves the device as it was, off,
or, when it comes for a later queue and is not that of a spawn, with the workers
of the queues before it (`half`). `raced` and `alone` record a reset that overtakes an
activator and an activator without a vCPU at its barrier.

### Msix
A guest write to the message control or the table takes several steps (`op`):
per vector an update of the irqfd, of the routing table under its mutex, of the
registration, then the injection of what was pending. `kvm` is what KVM has for
a GSI, `owed` the interrupts the guest has not got.

## 3. Runs

| Run | Shows | Bounds |
|---|---|---|
| `range_lock` | exclusion, no lost wake-up, refinement | 3 threads, addresses 0..5: three ranges with gaps, one request over all of them, an overflow |
| `mirror_data` | ready is in sync, no write lost, legal transitions | 2 queues, 2 blocks, 2 writes, one I/O error on either disk, in the copy or in the creation of a backend |
| `mirror_protocol` | no write lost, one serving disk, released destination, posted requests are submitted, calls return | 2 queues, 1 block, 1 write, 2 mirrors, 2 calls, 2 of: timeout, failed install, failed spawn |
| `pause` | paused is quiet, a pause of settled workers and a reset return, resumed queues run | 3 workers, one may die |
| `block_drain` | exact counter, drained and synced when paused, no waiting request without a signal | queues of 2 and 1 descriptors, the larger one rate limited, both with mirror commands, every fault of pause, requests and workers |
| `migration` | one runs, none lost, memory, locks, event carried out, migration ends | 1 page, 1 disk, 3 modes, 2 attempts, 2 iterations |
| `vcpus` | paused means parked, nobody is left paused, operations return | 2 vCPUs, one ejects, 1 throttle command in the channel, 2 resizes, NMIs or stops |
| `transfer` | iterations are complete, destination equals source, both sides end | 2 pages, 2 connections, a channel of 1 per thread, 2 iterations, 1 write, 1 fault |
| `lifecycle` | configuration is current, ejects what was removed, what a guest asks for is carried out | 2 disks, 2 slots |
| `virtio_pci` | serves the driver, paused is activated, driver is served | 3 vCPUs, 3 set-ups |
| `msix` | delivered where programmed, registered is routed, none lost | 2 devices of 1 vector, 2 GSIs, 2 messages |
| `mirror_cancel_retry` | **violated**: a retried cancellation leads to a transition that panics | 1 queue, 1 block, 1 write, 2 calls, a timeout and an error of the destination |

Why the bounds are enough to be interesting. Two queues are the least for a
device that is half installed, drained or switched; a third one only repeats
the second. In `block_drain` the queue of two descriptors has batches, the cap
of a pass and completions behind a failed one; the second queue only has to hold
a guard of its own. Two blocks let the copy be past one write and before another. Two
faults are needed for a timeout followed by a failing retry. Every migration
action treats the pages one by one and convergence is a choice, so one page
that is sent and dirtied again stands for all; two attempts let a failed or
cancelled migration be followed by another. Three workers let the barrier be
reached by some and missed by others. Of two vCPUs one can eject the other
while a pause is under way. Two connections and two pages let one connection
lag behind with an old version while the other has reached the gate; one slot
per thread fills the channel. Two disks and two slots let a slot be reused while the
other disk is mirrored, removed or unplugged. Three vCPUs are one that waits at
the barrier, one that resets meanwhile and one that starts the device again.
Two devices contend for GSIs and for the routing table.

### Exceptions
A property that the code does not keep everywhere says where it does not; the
exception is part of the formula and of its comment.

* `AtMostOneRunning`: a migration that failed once Complete was sent and was not
  postcopy (`split`). `RunsWithItsLocks`: one that failed after it gave the
  locks away (`lateFail`). `EventIsHandled` of `Migration`: an event that the
  control loop took after the snapshot (`lateEvent`).
* `SettledPauseReturns` speaks of a pause that found the workers in their loop.
* `DiskMirror`: no run's `Faults` has `cancel` (a revert that fails on a queue)
  or `complete` (a queue that cannot swap its backend during the switch-over:
  it clears `submissions_stopped`, `block.rs:699`, and serves the source again
  until the API thread reads its acknowledgement and aborts the VMM, as
  `docs/disk_mirroring.md:144-147` announces). A backend that cannot be created
  is in `mirror_data` only: after the drain of a cancel it leaves the queues
  stalled until a retry, and nothing obliges the operator to retry.
  `NoInvalidTransition` is checked by `mirror_data`, where no call times out;
  where one does it is violated (`mirror_cancel_retry`).
* `NotLeftPaused`: a pause that failed (`late`). `OwnerReturns`: a vCPU thread
  that left its loop on its own (`Gone`), an eject that joins a thread the pause
  has parked (`EjectJam`), a shutdown that took an old acknowledgement for a new
  one (`StaleAckJam`).
* `TransferEnds`: a connection that the failed accept thread never takes
  (`Stranded`).
* `EjectsWhatWasRemoved`: a removal requested twice, or ejected before the guest
  read the register (`again`): the bit left over asks for the next disk.
  `EventIsHandled` of `VmLifecycle`: a VM to which an earlier one left an event,
  signalled or postponed, and one that the API pauses when it is only created or
  resumes when it is not paused (`odd`).
* `ServesTheDriver`, `PausedIsActivated`, `DriverIsServed`: a driver that resets
  from another vCPU while an activator is under way (`raced`), a DRIVER_OK
  through the ECAM window, whose barrier nobody waits at (`alone`).
  `ServesTheDriver` also lets the workers of a half failed activation be, a reset
  in between or not, as long as the device is not activated again (`half`).
* `PausedIsDrained`: requests that an error return dropped before the pause
  (`lost`). `WaitingIsSignalled`: an error return in the last pass of the queue
  (`skipped`), one in its last completions while a command is pending (`stuck`),
  and a worker that ended.
* `NoInterruptIsLost`: what became pending while MSI-X was disabled; enabling it
  without the function mask leaves those pending bits alone.

Deadlock is checked except where the system may stop: in `pause` and
`block_drain` a worker may die, in `vcpus` an eject may jam or the owner panic, in `virtio_pci` an
activator may be alone, in the others the VMM may exit or the transfer end.

### Fairness
Threads are scheduled: weak fairness of each worker, the copy worker, the
control loop, the migration worker, the destination, each vCPU thread, the
throttle thread and the steps of a call that has begun. The host finishes I/O.
Nobody has to call, to post, to kick, to break a connection, to write a page, to
end a mirror or to set up a device; time slices of throttling end or not.
`MemTransfer` needs only that some step is taken while one can be. `RangeLock`,
`BlockDrain`, `Msix` and the run `mirror_data` are checked for safety;
`NoLostWakeup`, `WaitingIsSignalled` and `NoInterruptIsLost` say that what should
run again has something that wakes it. `Migration` assumes that `Dest`
progresses, which includes the background fetch of pages.

## 4. Finding

**A retried cancellation can panic the VMM** (`mirror_cancel_retry`). A revert
that times out leaves its command in a queue's slot and the mirror in
`Cancelling`, and `block.rs:1865-1867` says that calling `cancel_mirror` again
"retries the revert and finishes the cancellation". The retry drains the queues
first; with a slot occupied the drain fails, and `resume_queues`
(`block.rs:1783-1795`) replaces the staged revert by a resume. The queue then
mirrors guest writes for a mirror in `Cancelling`, and the first error of the
destination asks for `Cancelling -> Failed`, which `transition_to_phase` answers
with a panic. The attempt to prove `NoInvalidTransition` under timeouts led to
it: the invariant needs that no queue mirrors for a mirror that is being
cancelled.

### Known limits
What the exceptions above stand for, at the lines where it happens:

1. A mirror in `Cancelling` with one queue still mirroring panics on a
   destination error (`mirror.rs:346`; `block.rs:1865-1867`,
   `docs/disk_mirroring.md:124-127`): the finding above, and the same when a
   queue fails its revert or its switch-over.
2. A worker that sees the paused flag before the pause event parks and never
   reaches the barrier, where pause waits (`device.rs:472`, `device.rs:486`);
   `Vm::pause` activates pending devices just before.
3. A lost answer to Complete resumes the source outside postcopy (`lib.rs:2510`;
   `lib.rs:2158-2159` names the tradeoff for postcopy).
4. A late failure resumes the source without its disk locks (`lib.rs:2441`;
   `device_manager.rs:2901-2904`).
5. An event postponed after the snapshot was taken is cleared (`lib.rs:2483`;
   `vm.rs:1526`).
6. `signal_vcpus` waits with `vcpu_states` locked in its second loop
   (`cpu.rs:1794-1797`); the comment at `cpu.rs:1786-1789` says it does not. A
   vCPU in an access to the hotplug device then delays the pause until its
   timeout, which leaves the vCPUs signalled and the VM `Running`.
7. `eject_vcpu` joins a thread that a concurrent pause has parked
   (`cpu.rs:3464`), and the pause spins for the vCPU that joins (`cpu.rs:2898`).
8. A failed accept thread leaves connections in the backlog, and their senders
   wait (`transport.rs:651-675`).
9. `remove_device` sets the PCID bit also for a disk that is already being
   removed (`device_manager.rs:5737`), and `eject_device` does not clear it.
10. A reset from a second vCPU does not withdraw a pending activator
    (`pci_device.rs:1305-1317`).
11. `PciConfigMmio` drops the barrier of a write that activates
    (`pci/src/bus.rs:430`): the activator waits at it with the device manager
    locked.
12. `vm_reboot` (`lib.rs:3067`) shuts the VM down and drops it with any active
    mirror, and so does `Reboot` of `VmLifecycle`;
    `docs/disk_mirroring.md:153-155` says such a request is rejected. The error
    `ActiveBlockMirror` (`vm.rs:275`) and `cancel_block_mirrors` (`vm.rs:3544`,
    `device_manager.rs:6542`) have no user.
13. Errors that the queue worker of a block device only logs
    (`block.rs:614-617`, `block.rs:969-971`) end a pass or the completions early
    (`block.rs:443-468`, `538-554`, `573-579`, `756`, `798`, `855-864`). What was
    popped is not answered, and what is left in the ring waits for another kick.
    A corrupted ring or a reused head (`block.rs:423`, `433`) ends the worker; a
    later pause waits for it.
14. A `?` of `activate` for a later queue (`block.rs:2021-2051`,
    `net.rs:1024-1044`) leaves the workers of the earlier ones running; only a
    failed spawn resets the device (`device.rs:409-412`). `device_activated` is
    false, so a reset by the driver does not stop them (`pci_device.rs:1308`), and
    a pause waits for workers that do not exist (`device.rs:464-488`). The next
    activation replaces them.
15. An event that a VM signalled or had postponed when the API ended it stays
    behind (`lib.rs:3051-3065`). The next VM is rebooted or shut down by it, and
    an event of its own that has to be postponed is dropped in its favour
    (`lib.rs:1009-1012`); `docs/disk_mirroring.md:157-160` speaks of the event that
    the guest requested.

## 5. Proofs

Each theorem is about every value of the constants that the module's named
assumptions allow; no proof uses a bound of a run. The shape is always the same:
the parts of an inductive invariant, each with a name and a comment; a lemma per
action or per part; `IndInvHolds`, that is `Spec => []IndInv`; and the theorems,
each of which states a property that a run checks, so that TLC shows it on an
instance and TLAPS in general. Every inductive invariant was first checked by
TLC on the runs' instances.

`MirrorProofs` extends `RangeLock` and `DiskMirror`, `VirtioProofs` extends
`VirtioPause` and `VirtioPci`. The two specifications of such a module have no
variable in common and their theorems are separate; the formulas of `RangeLock`
and `VirtioPause` have names of their own for it (`LockSpec`, `LockInv`,
`PauseSpec`, `PauseInv`, ...).

| Module | Theorem | Property | Hypothesis |
|---|---|---|---|
| `MirrorProofs` | `GuardsExclude`, `SleepersHaveAConflict`, `RangeLockImplementsExclusion` | `Exclusion`, `NoLostWakeup`, `ImplementsExclusion` | |
| | `ReadyIsInSync`, `CancelledDestinationIsReleased` | `ReadyInSync`, `CancelReleasesDestination` | |
| | `QueuesServeOneDisk`, `WritesAreNotLost` | `OneServingDisk`, `NoWriteLost` | no queue fails its switch-over |
| | `NoTransitionPanics` | `NoInvalidTransition` | queues carry out their commands in time |
| `VirtioProofs` | `PausedDeviceIsQuiet` | `PausedIsQuiet` | |
| | `DeviceServesTheDriver`, `PausedVmIsActivated` | `ServesTheDriver`, `PausedIsActivated` | |
| `BlockDrainProofs` | `CounterIsExact`, `PausedDeviceIsDrained`, `PausedImageStaysSynced`, `WaitingRingIsSignalled` | `CountIsExact`, `PausedIsDrained`, `PausedImageIsSynced`, `WaitingIsSignalled` | |
| `MigrationProofs` | `GuestRunsOnce`, `VmIsNotLost`, `DestinationMemoryIsComplete`, `GuestRunsWithItsLocks` | `AtMostOneRunning`, `NotLost`, `MemoryIsComplete`, `RunsWithItsLocks` | |
| `MsixProofs` | `RegisteredVectorsAreRouted`, `VectorsDeliverWhereProgrammed`, `PendingInterruptsAreInjected` | `RegisteredIsRouted`, `DeliversWhereProgrammed`, `NoInterruptIsLost` | |
| `MemTransferProofs` | `IterationsAreComplete`, `ReceivedMemoryIsEqual` | `IterationIsComplete`, `DestinationIsEqual` | |
| `VcpusProofs` | `PausedVmIsParked`, `RunningVmIsNotLeftPaused` | `PausedMeansParked`, `NotLeftPaused` | |
| `VmLifecycleProofs` | `ConfigurationIsCurrent`, `OnlyRemovedIsEjected` | `ConfigIsCurrent`, `EjectsWhatWasRemoved` | |

### RangeLock
Assumption: the largest address is a natural number (`MaxU64Assumption`).

* `OverlapsAnyIsExact`: on a map of non-empty disjoint ranges the entry with the
  greatest start below `end` overlaps if any does. The argument takes a greatest
  element of the starts below `end` (`GreatestBelow`, from the well-ordering of
  a bounded set of naturals) and shows that any other overlapping range would
  overlap that one.
* `Exclusion` alone is not inductive: a grant looks at the map, so the map must
  be tied to the guards (`MapIsGuards`), and ranges must not be empty
  (`NonEmptyReq`, established by the early returns of `lock_range`) or an empty
  range could share its start with another and lose its entry.
* `MapMatchesGuards`: the map holds exactly the ranges of the guards, so no
  insert overwrites and no release removes another's entry.
* `RangeLockImplementsExclusion`: the refinement; a waiting or failing call
  stutters, a granted one acquires, a release releases.

### DiskMirror
Assumption: the numbers are natural, with at least one queue, block and mirror
(`ConstantsAssumption`). The invariant has two halves.

*Control* (`Shapes`). A call checks a phase, waits for every queue, and goes on
although workers, copy worker and guest ran meanwhile. So the invariant says
what each place of a call still knows (`CallShape`, `PhaseShape`), which command
can be in a slot or in a worker, also one that a call left behind
(`CommandShape`), what an acknowledgement means while the call waits for the
others (`Acknowledged`), that a mirror that is alive is on every queue
(`AliveIsMirrored`), that queues are switched over only when all are stalled
(`Switching`, `NoneLeft`), and that a queue does not come back to a cancelled
mirror (`Cancelled`).

*Data* (`Contents`). `Sync` says that source and destination agree behind the
copy worker except where a write holds the range, which needs the owner of every
lock (`LockShape`) and that no mirrored write is left pending on the host
(`MirroredShape`). For `NoWriteLost`, which is about a history, the proof
follows the content that the guest sees (`Image`: the source, or the destination
from the switch-over on), shows that only requests under way change it
(`ImageEffects`), that the switch-over does not change it because the disks are
in sync (`SwitchInSync`), and that a write that has reached it and is not yet
acknowledged has not been undone (`ImageIsLegal`).

The hypotheses are what the code needs, not what the prover needs. With
`"complete"` among the faults a queue that cannot swap its backend serves the
source again until the VMM aborts, and both properties are false. With a
timeout, a failed revert or a failed switch-over a queue can mirror for a mirror
in `Cancelling` or `Completing`, and the transition panics (section 4). All
other faults may happen in any number.

### VirtioPause
Assumption: the API thread is not a worker (`WorkersAssumption`).
`PausedIsQuiet` is not inductive: that a resume leaves a running device behind
needs the flag of the operation under way (`FlagOfOperation`), and that a device
activated while paused is quiet needs that an inactive device has no threads
(`WorkersOfActivation`).

### BlockDrain
Assumptions: a finite set of queues, each with a positive size, and known faults
(`QueuesAssumption`, `QueueSizeAssumption`, `FaultsAssumption`); the faults may
happen in any number. `active_request_count` counts guards, of passes and of
requests; the counter is the cardinality of the set `Guards`, and the proof
follows that set through every step that takes or drops a guard
(`CountIsExact`). Then the zero that pause reads means that nothing is taken,
and the flag keeps it so until the resume (`NoneTaken`), also for a worker that
is between its guard and its first look at the flag. `WaitingIsSignalled` needs
what a worker inside a pass has seen of the ring (`RingIsSeen`): the loop ends
at the queue size, so without a new kick all requests are seen; that a completion
nobody has looked at is announced (`CompletionIsSeen`); and that a command is
pending only while something is in flight that will make the worker try it again
(`CommandWaits`). That no descriptor gets lost but by an error return is a sum
over the places a descriptor can be in (`RingBound`), which every step keeps.

### Migration
Assumptions: known modes, natural bounds (`ModesAssumption`,
`BoundsAssumption`). None of the four properties is inductive. What holds them
together is what the two ends know of each other when the connection is gone:
which request may still arrive (`RequestOfWorker`), what an answer says
(`AnswerIsTrue`), and what the source may still do once Complete is on its way
or was carried out (`Committed`). `PrecopyMemory`, `SharedMemory` and
`FaultIsServed` say for each mode where the pages are that the destination
lacks; `SourceLocks` and `DestLocks` follow the disk locks.

### VirtioPci
Assumption: natural numbers of vCPUs and set-ups (`VirtioPciAssumption`). As long
as no reset overtakes an activator, before DRIVER_OK the device is off
(`OffBeforeDriverOk`) and afterwards there is one activator at most, with the
latest queues (`OneActivator`); every activator has its own vCPU at the barrier
(`WaitAtBarrier`), so a paused VM, whose vCPUs are parked, has none. A device with
the workers of half an activation is neither activated nor serving (`HalfIsOff`).

### Msix
Assumption: as many GSIs as vectors (`MsixAssumption`): the allocator hands out
numbers of 32 bits, and an exhausted one is not modelled. The order of an update under the routing mutex
(`UpdateIsOrdered`, `LockIsHeld`) keeps a registered irqfd routed
(`RegisteredHasEntry`); a vector that no write has still to update is routed to
its message (`SettledIsRouted`); an interrupt owed to the guest is pending, and
about to be injected once it can be delivered (`OwedIsPending`). GSIs are
distinct because each allocation takes one that no vector has.

### MemTransfer
Assumption: more than one connection, a channel with at least one slot
(`TransferAssumption`). The theorem behind both properties is a count.
`send_memory` puts one gate per send worker into the channel that the workers
share, and waits for as many notifications. A worker takes one gate and stops
there, so when all notifications are in and none is an error every worker is at
the gate (`GatesAreCounted`, `AllAtGate`); no chunk is behind a gate, so none is
left in the channel (`ChannelShape`), and a worker goes to the gate only with
its last chunk acknowledged, so none is on a connection (`WorkerShape`,
`WireShape`). `PagesAreCovered` is the data part: a page whose copy at the
destination is old is dirty, in the table, or under way in one of those places;
with nothing under way the rest is equal. An error of a connection
is in `worker_error`, some worker of the migration has it until the end, and the
migration worker ends with it (`ErrorShape`), so a transfer with a lost chunk
does not return well. The counting rests on lemmas about the
cardinality of index sets of a sequence (`CountAppend`, `CountTail`). The bound
on versions in `TypeOK` is a sum over pages and stays with TLC; the types that
the proof needs are a part of the invariant (`Types`).

### Vcpus
Assumption: at least one vCPU (`VcpuAssumption`). Two callers use the
`CpuManager`, the owner of the VM and the throttle thread. The control half of
the invariant says who is inside with which mutex (`CallShape`, `LockShape`),
what the throttle thread is doing there (`ThrottleShape`), that it follows the
migration: outside of one it waits with no command left, and the reset is its
last command (`MigrationShape`), and that the flags are what the operation under
way or the last one set (`FlagShape`). The other half is about the threads:
a parked or ejecting thread is where its flags say (`ThreadShape`), and no
thread enters the guest while the VM is paused (`PauseHolds`), which is stronger
than `PausedMeansParked`: it also covers the owner's calls that fail. A resize
counts the vCPUs that are active and starts the next ones by number; that it
starts no second thread for a vCPU holds because the vCPUs that stay are always
the first ones (`StayingAreFirst`, `ActiveAreFirst`), and because it refuses
while a removal is pending.

### VmLifecycle
Assumption: natural numbers of disks and slots (`LifecycleAssumption`). The
invariant adds what there is without a VM (`NothingOfNoVm`), that a disk being
removed is still plugged and one that the guest ejected on its own is not
(`RemovalShape`), and that a slot the guest is asked to eject holds a disk
(`SlotShape`), so that a slot that `add_disk` finds free is not one of them. The
steps fall into few kinds (`StepKinds`): the VM ends, one is made from the
configuration, there is none, it keeps its disks, or a slot changes. A new VM
numbers its disks by rank, and the rank is injective (`RankFacts`). Its history
starts empty but for how the last one ended (`Fresh`). The events have no part in
the two theorems; `EventIsHandled` is liveness.

### Only model-checked
All liveness, which is outside of the prover's reach, and the bound on page
versions in `MemTransfer`. That the history variables `raced`, `alone`,
`split`, `lateFail`, `lost`, `skipped`, `stuck` and `odd` mark only the exceptions they are meant for is read off
their definitions, not proved.

## 6. Not modelled

Device register emulation, configuration parsing, sandboxing tables, wrappers
of the kernel's interfaces, CPU feature tables and the auxiliary binaries have
no protocol that a model checker would add to; they are most of the repository's
lines. Within the modelled parts these are left out: metrics, progress reports
and the texts of errors; feature negotiation; consoles; memory resize; devices
other than disks in `VmLifecycle`; interrupts other than MSI-X; TLS. Three
error returns are left out too: of the `epoll` wait of a mirrored write
(`mirror.rs:376`, `mirror.rs:780`), which only a broken descriptor gives; of
`notify_completed_migration` (`lib.rs:2199`), when the VM has already moved; and
of a pause whose vCPUs are parked but whose clock or devices fail
(`vm.rs:3579-3586`), after which the VM is `Running` with parked vCPUs as after
the failed pauses that `Vcpus` has (`late`).

## 7. Plan

1. *vsock*: connection state machine, credit with wrap-around, kill queue of the
   muxer.
2. *Rate limiter*: token buckets, the missed unblock of a group; then
   `BlockDrain` with a real limiter.
3. *Memory manager*: hotplug slots, virtio-mem's plugged blocks, the postcopy
   fault handler in detail.
4. *Keep-alive stream*, *bitmap iterator*, *address allocator*: algorithms
   against reference definitions, with theorems about their operators.
5. *qcow2 metadata cache*; *vhost-user* reconnection.
6. *Proofs*: that `MemTransfer` and `Vcpus` implement the single steps that
   `Migration` takes for a table and for a pause.
