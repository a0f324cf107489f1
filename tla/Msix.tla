-------------------------------- MODULE Msix --------------------------------
(***************************************************************************)
(* MSI-X interrupts: a device's MSI-X table, function mask and pending bit *)
(* array (pci/src/msix.rs, virtio-devices/src/transport/pci_device.rs) and *)
(* the routes that its vectors have in the hypervisor                      *)
(* (vmm/src/interrupt.rs).                                                 *)
(*                                                                         *)
(* A guest write holds the device's MsixConfig until it is done, with it   *)
(* the device's own triggers.  The GSIs and the routing table are shared   *)
(* by all devices, so the writes to two devices interleave at the mutex of *)
(* gsi_msi_routes.                                                         *)
(*                                                                         *)
(* Left out: MSI without X, legacy interrupts, interrupt remapping, errors *)
(* of KVM, devices that signal the irqfd themselves.                       *)
(***************************************************************************)
EXTENDS Naturals, FiniteSets, FiniteSetsExt

CONSTANTS NDevices,  \* devices
          NVectors,  \* entries of an MSI-X table
          NGsis,     \* GSIs, enough for these devices
          Msgs,      \* address and data of an entry
          NoMsg      \* no route

ASSUME MsixAssumption ==
    /\ {NDevices, NVectors, NGsis} \subseteq Nat /\ NGsis >= NDevices * NVectors
    /\ Msgs # {} /\ NoMsg \notin Msgs

Devices == 1..NDevices
Vectors == 1..NVectors
Gsis == 1..NGsis
Irqs == Devices \X Vectors

VARIABLES
    enabled,    \* devices with the MSI-X Enable bit
    fmasked,    \* devices with the Function Mask bit
    vmasked,    \* entries with the mask bit of their vector_ctl
    msg,        \* the entries' messages
    pba,        \* the pending bits
    gsi,        \* InterruptRoute::gsi, 0 for none
    registered, \* irqfds that KVM knows
    irqfd,      \* irqfds that were signalled while KVM did not know them
    routes,     \* gsi_msi_routes: message and mask of a GSI
    kvm,        \* KVM's routing table
    lock,       \* the device whose write holds gsi_msi_routes, 0 for none
    op,         \* the guest write that a device is carrying out
    owed        \* history: interrupts of an enabled device not yet injected;
                \* given up when one is injected while MSI-X is disabled or
                \* the vector has no GSI, and when MSI-X is enabled without the
                \* Function Mask, as the pending bits are then left alone

table == <<enabled, fmasked, vmasked, msg>>
vars == <<table, pba, gsi, registered, irqfd, routes, kvm, lock, op, owed>>

Of(d) == {i \in Irqs : i[1] = d}
NoOp == [at |-> "idle", todo |-> {}, inject |-> {}]
NoRoute == [m |-> NoMsg, masked |-> TRUE]

Init ==
    /\ enabled = {} /\ fmasked = Devices /\ vmasked = Irqs
    /\ msg \in [Irqs -> {CHOOSE m \in Msgs : TRUE}]
    /\ pba = {} /\ gsi = [i \in Irqs |-> 0] /\ registered = {} /\ irqfd = {}
    /\ routes = [g \in Gsis |-> NoRoute] /\ kvm = [g \in Gsis |-> NoMsg]
    /\ lock = 0 /\ op = [d \in Devices |-> NoOp] /\ owed = {}
-----------------------------------------------------------------------------
(***************************************************************************)
(* The guest's writes.                                                     *)
(***************************************************************************)
\* Clearing the Function Mask: the pending vectors that are not masked.
PendingStays(d, fm) == {}  \* mutant of UnmaskedPending
UnmaskedPending(d, fm) ==
    IF d \in fmasked /\ ~fm THEN (Of(d) \cap pba) \ vmasked ELSE {}

\* A write with nothing left to do is done.
Doing(todo, is) == [at |-> IF todo \cup is = {} THEN "idle" ELSE "next",
                    todo |-> todo, inject |-> is]

\* set_msg_ctl: when one of the bits changes, the routes of all vectors are
\* updated, or (MsiInterruptGroup::disable) their irqfds are unregistered.
set_msg_ctl(d, en, fm) ==
    /\ op[d].at = "idle"
    /\ enabled' = IF en THEN enabled \cup {d} ELSE enabled \ {d}
    /\ fmasked' = IF fm THEN fmasked \cup {d} ELSE fmasked \ {d}
    /\ LET changed == (d \in enabled) # en \/ (d \in fmasked) # fm
           wasOn == d \in enabled \/ d \notin fmasked
           on == en /\ ~fm
       IN /\ registered' = IF changed /\ ~on /\ wasOn THEN registered \ Of(d) ELSE registered
          /\ op' = [op EXCEPT ![d] = Doing(IF changed /\ on THEN Of(d) ELSE {},
                                           UnmaskedPending(d, fm))]
    /\ owed' = IF en /\ d \notin enabled \cup fmasked THEN owed \ Of(d) ELSE owed
    /\ UNCHANGED <<vmasked, msg, pba, gsi, irqfd, routes, kvm, lock>>

On(d) == d \in enabled /\ d \notin fmasked

\* The entry's route follows it while the entry is not masked.
UpdatesIfItWasOn(i, mk) == On(i[1]) /\ i \notin vmasked  \* mutant of UpdatesRoute
UpdatesRoute(i, mk) == On(i[1]) /\ ~mk

\* write_table: a new message or mask bit of an entry; both in one write of 8 bytes.
write_table(i, m, mk) ==
    LET d == i[1] IN
    /\ op[d].at = "idle" /\ (m # msg[i] \/ mk # (i \in vmasked))
    /\ msg' = [msg EXCEPT ![i] = m]
    /\ vmasked' = IF mk THEN vmasked \cup {i} ELSE vmasked \ {i}
    /\ op' = [op EXCEPT ![d] =
                Doing(IF UpdatesRoute(i, mk) THEN {i} ELSE {},
                      IF On(d) /\ i \in vmasked /\ ~mk THEN {i} \cap pba ELSE {})]
    /\ UNCHANGED <<enabled, fmasked, pba, gsi, registered, irqfd, routes, kvm, lock, owed>>
-----------------------------------------------------------------------------
(***************************************************************************)
(* MsiInterruptGroup.                                                      *)
(***************************************************************************)
\* The vector that the loop of set_msg_ctl is at.
Current(d) == CHOOSE i \in op[d].todo : \A j \in op[d].todo : i[2] <= j[2]
Advance(d) == op' = [op EXCEPT ![d] = Doing(@.todo \ {Current(d)}, @.inject)]

UnregisteredGsis == Gsis \ {gsi[i] : i \in registered}  \* mutant of FreeGsis
FreeGsis == Gsis \ {gsi[i] : i \in Irqs}

\* update of a masked entry: the irqfd is unregistered before KVM loses the
\* route; nothing to do for an entry that never had a GSI.
update_masked(d) ==
    /\ op[d].at = "next" /\ op[d].todo # {} /\ Current(d) \in vmasked
    /\ IF gsi[Current(d)] = 0
       THEN Advance(d) /\ UNCHANGED registered
       ELSE /\ registered' = registered \ {Current(d)}
            /\ op' = [op EXCEPT ![d].at = "route"]
    /\ UNCHANGED <<table, pba, gsi, irqfd, routes, kvm, lock, owed>>

\* update of an entry that is not masked: its first GSI is allocated.  Others may
\* have taken them all; that error is only logged.
update_unmasked(d) ==
    /\ op[d].at = "next" /\ op[d].todo # {} /\ Current(d) \notin vmasked
    /\ \/ /\ gsi' = [gsi EXCEPT ![Current(d)] = IF @ # 0 THEN @ ELSE Min(FreeGsis)]
          /\ op' = [op EXCEPT ![d].at = "route"]
       \/ gsi[Current(d)] = 0 /\ Advance(d) /\ UNCHANGED gsi
    /\ UNCHANGED <<table, pba, registered, irqfd, routes, kvm, lock, owed>>

\* The routing table gets the new entry and KVM the entries that are not masked.
set_gsi_routes(d) ==
    /\ op[d].at = "route" /\ lock = 0
    /\ LET i == Current(d) IN
       routes' = [routes EXCEPT ![gsi[i]] = [m |-> msg[i], masked |-> i \in vmasked]]
    /\ kvm' = [g \in Gsis |-> IF routes'[g].masked THEN NoMsg ELSE routes'[g].m]
    /\ lock' = d
    /\ op' = [op EXCEPT ![d].at = "enable"]
    /\ UNCHANGED <<table, pba, gsi, registered, irqfd, owed>>

\* InterruptRoute::enable; KVM injects what the eventfd holds when it is
\* registered.
enable(d) ==
    /\ op[d].at = "enable"
    /\ LET new == {Current(d)} \ vmasked IN
       /\ registered' = registered \cup new
       /\ irqfd' = irqfd \ new /\ owed' = owed \ (irqfd \cap new)
    /\ lock' = 0
    /\ Advance(d)
    /\ UNCHANGED <<table, pba, gsi, routes, kvm>>

\* InterruptRoute::trigger of each of a set of vectors.
Trigger(is) ==
    /\ irqfd' = irqfd \cup (is \ registered)
    /\ owed' = (owed \ is) \cup {i \in is \ registered : i[1] \in enabled /\ gsi[i] # 0}

\* inject_msix_and_clear_pba, and the end of the write.
inject(d) ==
    /\ op[d].at = "next" /\ op[d].todo = {}
    /\ Trigger(op[d].inject)
    /\ pba' = pba \ op[d].inject
    /\ op' = [op EXCEPT ![d] = NoOp]
    /\ UNCHANGED <<table, gsi, registered, routes, kvm, lock>>
-----------------------------------------------------------------------------
(***************************************************************************)
(* The devices.                                                            *)
(***************************************************************************)
\* VirtioInterruptMsix::trigger, on a worker's thread.
trigger(i) ==
    /\ op[i[1]].at = "idle"
    /\ IF i[1] \in fmasked \/ i \in vmasked
       THEN /\ pba' = pba \cup {i}
            /\ owed' = IF i[1] \in enabled THEN owed \cup {i} ELSE owed
            /\ UNCHANGED irqfd
       ELSE Trigger({i}) /\ UNCHANGED pba
    /\ UNCHANGED <<table, gsi, registered, routes, kvm, lock, op>>

\* A device is removed, which frees its GSIs and closes its irqfds but leaves
\* its entries in gsi_msi_routes, and another is plugged in its place.
Replug(d) ==
    /\ op[d].at = "idle"
    /\ enabled' = enabled \ {d} /\ fmasked' = fmasked \cup {d}
    /\ vmasked' = vmasked \cup Of(d) /\ UNCHANGED msg
    /\ pba' = pba \ Of(d) /\ irqfd' = irqfd \ Of(d) /\ owed' = owed \ Of(d)
    /\ gsi' = [i \in Irqs |-> IF i[1] = d THEN 0 ELSE gsi[i]]
    /\ registered' = registered \ Of(d)
    /\ UNCHANGED <<routes, kvm, lock, op>>

\* MsixConfig::new of every device from a snapshot, in a new VMM: the vectors
\* that can be delivered get a GSI, a route and a registered irqfd.
Restore ==
    /\ \A d \in Devices : op[d].at = "idle"
    /\ LET live == {i \in Irqs : On(i[1]) /\ i \notin vmasked}
           rank(i) == Cardinality({j \in live : j[1] < i[1] \/ (j[1] = i[1] /\ j[2] <= i[2])})
       IN /\ gsi' = [i \in Irqs |-> IF i \in live THEN rank(i) ELSE 0]
          /\ registered' = live
          /\ routes' = [g \in Gsis |->
                IF \E i \in live : rank(i) = g
                THEN [m |-> msg[CHOOSE i \in live : rank(i) = g], masked |-> FALSE]
                ELSE NoRoute]
    /\ kvm' = [g \in Gsis |-> IF routes'[g].masked THEN NoMsg ELSE routes'[g].m]
    /\ irqfd' = {}
    /\ UNCHANGED <<table, pba, lock, op, owed>>
-----------------------------------------------------------------------------
WriteStep(d) ==
    update_masked(d) \/ update_unmasked(d) \/ set_gsi_routes(d) \/ enable(d) \/ inject(d)

Next ==
    \/ \E d \in Devices :
          WriteStep(d) \/ Replug(d) \/ \E en, fm \in BOOLEAN : set_msg_ctl(d, en, fm)
    \/ \E i \in Irqs : trigger(i) \/ \E m \in Msgs, mk \in BOOLEAN : write_table(i, m, mk)
    \/ Restore

Spec == Init /\ [][Next]_vars
-----------------------------------------------------------------------------
(***************************************************************************)
(* Properties.                                                             *)
(***************************************************************************)
TypeOK ==
    /\ enabled \subseteq Devices /\ fmasked \subseteq Devices
    /\ vmasked \subseteq Irqs /\ msg \in [Irqs -> Msgs] /\ pba \subseteq Irqs
    /\ gsi \in [Irqs -> {0} \cup Gsis] /\ registered \subseteq Irqs /\ irqfd \subseteq Irqs
    /\ routes \in [Gsis -> [m : Msgs \cup {NoMsg}, masked : BOOLEAN]]
    /\ kvm \in [Gsis -> Msgs \cup {NoMsg}] /\ lock \in {0} \cup Devices
    /\ op \in [Devices -> [at : {"idle", "next", "route", "enable"},
                           todo : SUBSET Irqs, inject : SUBSET Irqs]]
    /\ owed \subseteq Irqs

\* A vector that the guest can get interrupts from, with a GSI to send them.
Deliverable(i) ==
    op[i[1]].at = "idle" /\ On(i[1]) /\ i \notin vmasked /\ gsi[i] # 0

\* KVM has the irqfd of such a vector and routes it to the message that the
\* guest wrote last, whatever was written while the vector was masked, while
\* the device was, or to the table of another device.
DeliversWhereProgrammed ==
    \A i \in Irqs : Deliverable(i) => i \in registered /\ kvm[gsi[i]] = msg[i]

\* An irqfd is never registered for a GSI that KVM has no route for, not even
\* between two steps of an update: a signal on it would panic the kernel.
\* No two vectors share a GSI.
RegisteredIsRouted ==
    /\ \A i \in registered : gsi[i] # 0 /\ kvm[gsi[i]] # NoMsg
    /\ \A i, j \in Irqs : gsi[i] # 0 /\ gsi[i] = gsi[j] => i = j

\* An interrupt of an enabled device is not forgotten: it was injected, or it is
\* pending and the guest cannot get it yet.
NoInterruptIsLost ==
    \A i \in Irqs : Deliverable(i) => i \notin owed
=============================================================================
