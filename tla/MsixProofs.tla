----------------------------- MODULE MsixProofs -----------------------------
(***************************************************************************)
(* Proofs about Msix for every number of devices, vectors and GSIs: no two *)
(* vectors share a GSI, a registered irqfd always has a route, KVM routes  *)
(* a deliverable vector to the message that the guest wrote last, and no   *)
(* interrupt of an enabled device is forgotten.                            *)
(***************************************************************************)
EXTENDS Msix, FiniteSetTheorems, WellFoundedInduction, TLAPS

\* A write works on vectors of its own device, and only injects vectors that
\* are not masked.
OpShape ==
    \A d \in Devices :
        /\ op[d].todo \subseteq Of(d)
        /\ op[d].inject \subseteq Of(d) \ vmasked
        /\ op[d].inject # {} => d \notin fmasked
        /\ op[d].at = "idle" => op[d].todo = {} /\ op[d].inject = {}
        /\ op[d].at \in {"route", "enable"} => op[d].todo # {}

\* The mutex of gsi_msi_routes is held between the update of the table and the
\* registration of the irqfd.
LockIsHeld == \A d \in Devices : lock = d <=> op[d].at = "enable"

\* KVM has the entries of gsi_msi_routes that are not masked.
KvmIsTable == \A g \in Gsis : kvm[g] = IF routes[g].masked THEN NoMsg ELSE routes[g].m

\* No two vectors share a GSI.
GsisDistinct == \A i, j \in Irqs : gsi[i] # 0 /\ gsi[i] = gsi[j] => i = j

\* A registered irqfd has a GSI whose entry in gsi_msi_routes is live.
RegisteredHasEntry ==
    \A i \in registered :
        /\ gsi[i] # 0
        /\ ~routes[gsi[i]].masked /\ routes[gsi[i]].m \in Msgs

\* The vector that an update is at: a masked one was unregistered before the
\* table changes, and under the mutex its entry is the one just written.
UpdateIsOrdered ==
    \A d \in Devices :
        /\ op[d].at \in {"route", "enable"} =>
             /\ gsi[Current(d)] # 0
             /\ Current(d) \in vmasked => Current(d) \notin registered
        /\ op[d].at = "enable" =>
             /\ routes[gsi[Current(d)]].m = msg[Current(d)]
             /\ routes[gsi[Current(d)]].masked <=> Current(d) \in vmasked

\* A vector that can be delivered and that no write has still to update is
\* registered and routed to its message.
SettledIsRouted ==
    \A i \in Irqs :
        (On(i[1]) /\ i \notin vmasked /\ gsi[i] # 0 /\ i \notin op[i[1]].todo)
            => i \in registered /\ kvm[gsi[i]] = msg[i]

\* An owed interrupt is in the pending bit array, and once its vector can be
\* delivered the write that made it so is about to inject it.
OwedIsPending ==
    /\ owed \subseteq pba
    /\ \A i \in owed : On(i[1]) /\ i \notin vmasked => i \in op[i[1]].inject

(***************************************************************************)
(* The inductive invariant.                                                *)
(***************************************************************************)
IndInv ==
    /\ TypeOK /\ OpShape /\ LockIsHeld /\ KvmIsTable /\ GsisDistinct
    /\ RegisteredHasEntry /\ UpdateIsOrdered /\ SettledIsRouted /\ OwedIsPending
-----------------------------------------------------------------------------
(***************************************************************************)
(* Every non-empty set of naturals has a least element.                    *)
(***************************************************************************)
LEMMA LeastExists ==
    ASSUME NEW S \in SUBSET Nat, S # {}
    PROVE  \E x \in S : \A y \in S : x <= y
<1>1. PICK x \in S : \A y \in S : ~(<<y, x>> \in OpToRel(<, Nat))
  BY NatLessThanWellFounded, WFMin, Zenon
<1>2. \A y \in S : ~(y < x)
  BY <1>1 DEF OpToRel
<1> QED
  BY <1>2

(***************************************************************************)
(* The vectors: pairs of a device and an index.                            *)
(***************************************************************************)
LEMMA IrqFacts ==
    /\ \A i \in Irqs : i[1] \in Devices /\ i[2] \in Vectors /\ i[1] \in Nat /\ i[2] \in Nat
    /\ \A i, j \in Irqs : i[1] = j[1] /\ i[2] = j[2] => i = j
    /\ 0 \notin Devices /\ 0 \notin Gsis /\ Gsis \subseteq Nat
  BY MsixAssumption DEF Irqs, Devices, Vectors, Gsis

(***************************************************************************)
(* An update with something to do is at one of its vectors.                *)
(***************************************************************************)
LEMMA CurrentIsTodo ==
    ASSUME TypeOK, NEW d \in Devices, op[d].todo # {}
    PROVE  Current(d) \in op[d].todo
<1> DEFINE S == {j[2] : j \in op[d].todo}
<1>1. op[d].todo \subseteq Irqs
  BY DEF TypeOK
<1>2. S \in SUBSET Nat /\ S # {}
  BY <1>1, IrqFacts
<1>3. PICK x \in S : \A y \in S : x <= y
  BY <1>2, LeastExists
<1>4. \E i \in op[d].todo : \A j \in op[d].todo : i[2] <= j[2]
  BY <1>3
<1> QED
  BY <1>4 DEF Current

(***************************************************************************)
(* There are as many vectors as devices times vectors.                     *)
(***************************************************************************)
LEMMA IrqsFinite ==
    /\ IsFiniteSet(Irqs) /\ Cardinality(Irqs) \in Nat /\ Cardinality(Irqs) <= NGsis
    /\ IsFiniteSet(Gsis) /\ Cardinality(Gsis) = NGsis /\ NGsis \in Nat
<1>0. ASSUME NEW n \in Nat PROVE IsFiniteSet(1..n) /\ Cardinality(1..n) = n
  <2>1. IsFiniteSet(1..n) /\ Cardinality(1..n) = IF 1 > n THEN 0 ELSE n - 1 + 1
    BY FS_Interval
  <2> QED
    BY <2>1
<1>1. IsFiniteSet(Devices) /\ Cardinality(Devices) = NDevices
  BY <1>0, MsixAssumption DEF Devices
<1>2. IsFiniteSet(Vectors) /\ Cardinality(Vectors) = NVectors
  BY <1>0, MsixAssumption DEF Vectors
<1>3. IsFiniteSet(Gsis) /\ Cardinality(Gsis) = NGsis
  BY <1>0, MsixAssumption DEF Gsis
<1>4. IsFiniteSet(Irqs) /\ Cardinality(Irqs) = NDevices * NVectors
  BY <1>1, <1>2, FS_Product DEF Irqs
<1>5. Cardinality(Irqs) \in Nat
  BY <1>4, FS_CardinalityType
<1> QED
  BY <1>3, <1>4, <1>5, MsixAssumption

(***************************************************************************)
(* A vector without a GSI finds a free one: the others cannot hold all.    *)
(***************************************************************************)
LEMMA FreeGsiExists ==
    ASSUME TypeOK, NEW c \in Irqs, gsi[c] = 0
    PROVE  /\ Min(FreeGsis) \in Gsis
           /\ \A i \in Irqs : gsi[i] # Min(FreeGsis)
<1> DEFINE S == {i \in Irqs : gsi[i] # 0}
           f == [i \in S |-> gsi[i]]
<1>1. ASSUME FreeGsis = {} PROVE FALSE
  <2>1. f \in Surjection(S, Gsis)
    BY <1>1, IrqFacts DEF TypeOK, FreeGsis, Surjection
  <2>2. S \in SUBSET (Irqs \ {c})
    OBVIOUS
  <2>3. /\ IsFiniteSet(Irqs \ {c})
        /\ Cardinality(Irqs \ {c}) = Cardinality(Irqs) - 1
    BY IrqsFinite, FS_RemoveElement
  <2>4. IsFiniteSet(S) /\ Cardinality(S) <= Cardinality(Irqs) - 1
    BY <2>2, <2>3, FS_Subset
  <2>5. Cardinality(Gsis) <= Cardinality(S) /\ Cardinality(S) \in Nat
    BY <2>1, <2>4, FS_Surjection, FS_CardinalityType
  <2> QED
    BY <2>4, <2>5, IrqsFinite
<1>2. FreeGsis \in SUBSET Nat
  BY IrqFacts DEF FreeGsis
<1>3. Min(FreeGsis) \in FreeGsis
  BY <1>1, <1>2, LeastExists DEF Min
<1> QED
  BY <1>3 DEF FreeGsis

\* The vectors up to i in the order in which a restored VMM takes them up.
UpTo(i, live) == {j \in live : j[1] < i[1] \/ (j[1] = i[1] /\ j[2] <= i[2])}

(***************************************************************************)
(* The GSIs that a restored VMM hands out are GSIs, and each vector gets   *)
(* its own.                                                                *)
(***************************************************************************)
LEMMA RanksAreGsis ==
    ASSUME NEW live \in SUBSET Irqs
    PROVE  /\ \A i \in live : Cardinality(UpTo(i, live)) \in Gsis
           /\ \A i, j \in live :
                Cardinality(UpTo(i, live)) = Cardinality(UpTo(j, live)) => i = j
<1>1. IsFiniteSet(live) /\ Cardinality(live) <= NGsis /\ Cardinality(live) \in Nat
  <2>1. IsFiniteSet(live) /\ Cardinality(live) <= Cardinality(Irqs)
    BY IrqsFinite, FS_Subset
  <2>2. Cardinality(live) \in Nat
    BY <2>1, FS_CardinalityType
  <2> QED
    BY <2>1, <2>2, IrqsFinite
<1>2. ASSUME NEW i \in live PROVE /\ UpTo(i, live) \in SUBSET live /\ i \in UpTo(i, live)
                                  /\ IsFiniteSet(UpTo(i, live))
                                  /\ Cardinality(UpTo(i, live)) \in Gsis
  <2>1. UpTo(i, live) \in SUBSET live /\ i \in UpTo(i, live)
    BY IrqFacts DEF UpTo
  <2>2. /\ IsFiniteSet(UpTo(i, live))
        /\ Cardinality(UpTo(i, live)) <= Cardinality(live)
    BY <1>1, <2>1, FS_Subset
  <2>3. Cardinality(UpTo(i, live)) \in Nat /\ Cardinality(UpTo(i, live)) # 0
    BY <2>1, <2>2, FS_CardinalityType, FS_EmptySet
  <2> QED
    BY <1>1, <2>1, <2>2, <2>3, IrqsFinite DEF Gsis
<1>3. ASSUME NEW i \in live, NEW j \in live,
             Cardinality(UpTo(i, live)) = Cardinality(UpTo(j, live)),
             UpTo(i, live) \subseteq UpTo(j, live)
      PROVE  i = j
  <2>1. UpTo(i, live) = UpTo(j, live)
    BY <1>2, <1>3, FS_Subset
  <2>2. i \in UpTo(j, live) /\ j \in UpTo(i, live)
    BY <1>2, <2>1
  <2> QED
    BY <2>2, IrqFacts DEF UpTo
<1>4. ASSUME NEW i \in live, NEW j \in live
      PROVE  UpTo(i, live) \subseteq UpTo(j, live) \/ UpTo(j, live) \subseteq UpTo(i, live)
  BY IrqFacts DEF UpTo
<1> QED
  BY <1>2, <1>3, <1>4

\* The first of a set of vectors.
FirstOf(S) == CHOOSE i \in S : \A j \in S : i[2] <= j[2]

(***************************************************************************)
(* Which vector an update is at depends only on what it has still to do.   *)
(***************************************************************************)
LEMMA CurrentFacts ==
    ASSUME TypeOK, NEW d \in Devices
    PROVE  /\ Current(d) = FirstOf(op[d].todo) /\ Current(d)' = FirstOf(op'[d].todo)
           /\ op[d].todo # {} => Current(d) \in op[d].todo
<1>1. Current(d) = FirstOf(op[d].todo) /\ Current(d)' = FirstOf(op'[d].todo)
  BY DEF Current, FirstOf
<1> QED
  BY <1>1, CurrentIsTodo

\* What the writes under way are.
OpsOK == op \in [Devices -> [at : {"idle", "next", "route", "enable"},
                              todo : SUBSET Irqs, inject : SUBSET Irqs]]

\* The write of d goes on with todo left, the other writes stand still.
Goes(d, todo) ==
    /\ OpsOK' /\ \A e \in Devices \ {d} : op'[e] = op[e]
    /\ op'[d].todo = todo /\ op'[d].inject = op[d].inject

\* It goes on at a with the same vector, or with the next one or its end.
GoesTo(d, a) == Goes(d, op[d].todo) /\ op'[d].at = a
GoesOn(d) ==
    /\ Goes(d, op[d].todo \ {Current(d)}) /\ op'[d].at \in {"idle", "next"}
    /\ op'[d].at = "idle" => op'[d].todo = {} /\ op'[d].inject = {}

(***************************************************************************)
(* A step of an update touches only the write of its device.               *)
(***************************************************************************)
LEMMA OpSteps ==
    ASSUME TypeOK, NEW d \in Devices
    PROVE  /\ Advance(d) => GoesOn(d)
           /\ \A a \in {"route", "enable"} :
                op' = [op EXCEPT ![d].at = a] => GoesTo(d, a)
<1> USE DEF TypeOK, OpsOK, Goes
<1>1. ASSUME Advance(d) PROVE GoesOn(d)
  BY <1>1 DEF Advance, Doing, GoesOn
<1>2. ASSUME NEW a \in {"route", "enable"}, op' = [op EXCEPT ![d].at = a]
      PROVE  GoesTo(d, a)
  <2>1. op' = [op EXCEPT ![d] = [op[d] EXCEPT !.at = a]]
    BY <1>2
  <2>2. /\ [op[d] EXCEPT !.at = a] \in [at : {"idle", "next", "route", "enable"},
                                        todo : SUBSET Irqs, inject : SUBSET Irqs]
        /\ [op[d] EXCEPT !.at = a].at = a
        /\ [op[d] EXCEPT !.at = a].todo = op[d].todo
        /\ [op[d] EXCEPT !.at = a].inject = op[d].inject
    OBVIOUS
  <2> QED
    BY <2>1, <2>2 DEF GoesTo
<1> QED
  BY <1>1, <1>2

(***************************************************************************)
(* A write of the Message Control register leaves the updates of other     *)
(* devices alone, and what its own vectors owe is injected or given up.    *)
(***************************************************************************)
LEMMA set_msg_ctlStep ==
    ASSUME IndInv, NEW d \in Devices, NEW en \in BOOLEAN, NEW fm \in BOOLEAN,
           set_msg_ctl(d, en, fm)
    PROVE  IndInv'
<1>f. /\ \A e \in Devices : /\ Current(e) = FirstOf(op[e].todo)
                            /\ Current(e)' = FirstOf(op'[e].todo)
                            /\ op[e].todo # {} => Current(e) \in op[e].todo
      /\ \A e \in Devices : op[e].todo \subseteq Irqs /\ op[e].inject \subseteq Irqs
  BY CurrentFacts DEF IndInv, TypeOK
<1> USE <1>f, IrqFacts DEF IndInv, TypeOK, Of, On, UnmaskedPending, Doing, table
<1>0. /\ \A e \in Devices : op'[e].at \in {"route", "enable"} => op'[e] = op[e] /\ e # d
      /\ registered' \subseteq registered /\ UNCHANGED <<gsi, msg, vmasked, routes>>
  BY DEF set_msg_ctl
<1>1. TypeOK'
  BY DEF set_msg_ctl, TypeOK
<1>2. OpShape'
  BY DEF set_msg_ctl, OpShape
<1>3. LockIsHeld'
  BY DEF set_msg_ctl, LockIsHeld
<1>4. KvmIsTable' /\ GsisDistinct'
  BY DEF set_msg_ctl, KvmIsTable, GsisDistinct
<1>5. RegisteredHasEntry'
  BY DEF set_msg_ctl, RegisteredHasEntry, GsisDistinct, UpdateIsOrdered, OpShape
<1>6. UpdateIsOrdered'
  BY <1>0 DEF UpdateIsOrdered
<1>7. SettledIsRouted'
  BY DEF set_msg_ctl, SettledIsRouted, OpShape, KvmIsTable, GsisDistinct, UpdateIsOrdered
<1>8. OwedIsPending'
  BY DEF set_msg_ctl, OwedIsPending, OpShape, SettledIsRouted
<1> QED
  BY <1>1, <1>2, <1>3, <1>4, <1>5, <1>6, <1>7, <1>8 DEF IndInv

(***************************************************************************)
(* A write to the table changes an entry that no update is at.             *)
(***************************************************************************)
LEMMA write_tableStep ==
    ASSUME IndInv, NEW i \in Irqs, NEW m \in Msgs, NEW mk \in BOOLEAN,
           write_table(i, m, mk)
    PROVE  IndInv'
<1>f. /\ \A e \in Devices : /\ Current(e) = FirstOf(op[e].todo)
                            /\ Current(e)' = FirstOf(op'[e].todo)
                            /\ op[e].todo # {} => Current(e) \in op[e].todo
      /\ \A e \in Devices : op[e].todo \subseteq Irqs /\ op[e].inject \subseteq Irqs
  BY CurrentFacts DEF IndInv, TypeOK
<1> USE <1>f, IrqFacts DEF IndInv, TypeOK, Of, On, UpdatesRoute, Doing, table
<1>1. TypeOK'
  BY DEF write_table, TypeOK
<1>2. OpShape'
  BY DEF write_table, OpShape
<1>3. LockIsHeld'
  BY DEF write_table, LockIsHeld
<1>4. KvmIsTable' /\ GsisDistinct'
  BY DEF write_table, KvmIsTable, GsisDistinct
<1>5. RegisteredHasEntry'
  BY DEF write_table, RegisteredHasEntry, GsisDistinct, UpdateIsOrdered, OpShape
<1>6. UpdateIsOrdered'
  BY DEF write_table, UpdateIsOrdered, OpShape, LockIsHeld
<1>7. SettledIsRouted'
  BY DEF write_table, SettledIsRouted, OpShape, KvmIsTable, GsisDistinct, UpdateIsOrdered
<1>8. OwedIsPending'
  BY DEF write_table, OwedIsPending, OpShape, SettledIsRouted
<1> QED
  BY <1>1, <1>2, <1>3, <1>4, <1>5, <1>6, <1>7, <1>8 DEF IndInv

(***************************************************************************)
(* An update of a masked entry unregisters the irqfd before the route goes. *)
(***************************************************************************)
LEMMA update_maskedStep ==
    ASSUME IndInv, NEW d \in Devices, update_masked(d)
    PROVE  IndInv'
<1>f. /\ \A e \in Devices : /\ Current(e) = FirstOf(op[e].todo)
                            /\ Current(e)' = FirstOf(op'[e].todo)
                            /\ op[e].todo # {} => Current(e) \in op[e].todo
      /\ \A e \in Devices : op[e].todo \subseteq Irqs /\ op[e].inject \subseteq Irqs
  BY CurrentFacts DEF IndInv, TypeOK
<1> USE <1>f, IrqFacts DEF IndInv, TypeOK, Of, On
<1> DEFINE c == Current(d)
<1>s. /\ op[d].at = "next" /\ c \in vmasked /\ c \in op[d].todo
      /\ \/ gsi[c] = 0 /\ registered' = registered /\ GoesOn(d)
         \/ /\ gsi[c] # 0 /\ registered' = registered \ {c}
            /\ GoesTo(d, "route")
      /\ UNCHANGED <<enabled, fmasked, vmasked, msg, pba, gsi, irqfd, routes, kvm, lock,
                     owed>>
  BY OpSteps DEF update_masked, table
<1> USE DEF GoesTo, GoesOn, Goes, OpsOK
<1>1. TypeOK'
  BY <1>s DEF TypeOK
<1>2. OpShape'
  BY <1>s DEF OpShape
<1>3. LockIsHeld'
  BY <1>s DEF LockIsHeld
<1>4. KvmIsTable' /\ GsisDistinct'
  BY <1>s DEF KvmIsTable, GsisDistinct
<1>5. RegisteredHasEntry'
  BY <1>s DEF RegisteredHasEntry, GsisDistinct, UpdateIsOrdered, OpShape
<1>6. UpdateIsOrdered'
  BY <1>s DEF UpdateIsOrdered, OpShape, LockIsHeld
<1>7. SettledIsRouted'
  BY <1>s DEF SettledIsRouted, OpShape, KvmIsTable, GsisDistinct, UpdateIsOrdered
<1>8. OwedIsPending'
  BY <1>s DEF OwedIsPending, OpShape, SettledIsRouted
<1> QED
  BY <1>1, <1>2, <1>3, <1>4, <1>5, <1>6, <1>7, <1>8 DEF IndInv

(***************************************************************************)
(* An update of an entry that is not masked takes a GSI nobody has.        *)
(***************************************************************************)
LEMMA update_unmaskedStep ==
    ASSUME IndInv, NEW d \in Devices, update_unmasked(d)
    PROVE  IndInv'
<1>f. /\ \A e \in Devices : /\ Current(e) = FirstOf(op[e].todo)
                            /\ Current(e)' = FirstOf(op'[e].todo)
                            /\ op[e].todo # {} => Current(e) \in op[e].todo
      /\ \A e \in Devices : op[e].todo \subseteq Irqs /\ op[e].inject \subseteq Irqs
  BY CurrentFacts DEF IndInv, TypeOK
<1> USE <1>f, IrqFacts DEF IndInv, TypeOK, Of, On
<1> DEFINE c == Current(d)
<1>s. /\ op[d].at = "next" /\ c \notin vmasked /\ c \in op[d].todo
      /\ \/ /\ GoesTo(d, "route")
            /\ \/ gsi[c] # 0 /\ gsi' = gsi
               \/ \E g \in Gsis : /\ \A i \in Irqs : gsi[i] # g
                                  /\ gsi[c] = 0 /\ gsi' = [gsi EXCEPT ![c] = g]
         \/ gsi[c] = 0 /\ gsi' = gsi /\ GoesOn(d)
      /\ UNCHANGED <<enabled, fmasked, vmasked, msg, pba, registered, irqfd, routes, kvm,
                     lock, owed>>
  BY OpSteps, FreeGsiExists DEF update_unmasked, table
<1> USE DEF GoesTo, GoesOn, Goes, OpsOK
<1>1. TypeOK'
  BY <1>s DEF TypeOK
<1>2. OpShape'
  BY <1>s DEF OpShape
<1>3. LockIsHeld'
  BY <1>s DEF LockIsHeld
<1>4. KvmIsTable' /\ GsisDistinct'
  BY <1>s DEF KvmIsTable, GsisDistinct
<1>5. RegisteredHasEntry'
  BY <1>s DEF RegisteredHasEntry, GsisDistinct, UpdateIsOrdered, OpShape
<1>6. UpdateIsOrdered'
  <2>1. ASSUME NEW e \in Devices, op'[e].at \in {"route", "enable"}
        PROVE  /\ Current(e) \in Irqs /\ Current(e)' = Current(e) /\ gsi'[Current(e)] # 0
               /\ e # d => op'[e] = op[e] /\ gsi'[Current(e)] = gsi[Current(e)]
               /\ e = d => op'[e].at = "route"
    <3>1. CASE e = d
      BY <1>s, <2>1, <3>1
    <3>2. CASE e # d
      <4>1. op'[e] = op[e] /\ Current(e)' = Current(e)
        BY <1>s, <3>2
      <4>2. Current(e) \in Of(e) /\ c \in Of(d) /\ gsi[Current(e)] # 0
        BY <1>s, <2>1, <4>1 DEF OpShape, UpdateIsOrdered
      <4> QED
        BY <1>s, <3>2, <4>1, <4>2
    <3> QED
      BY <3>1, <3>2
  <2> QED
    BY <1>s, <2>1 DEF UpdateIsOrdered
<1>7. SettledIsRouted'
  <2>1. ASSUME NEW i \in Irqs, i \notin vmasked, gsi'[i] # 0, i \notin op'[i[1]].todo
        PROVE  gsi'[i] = gsi[i] /\ i \notin op[i[1]].todo
    <3>1. c[1] = d
      BY <1>s DEF OpShape
    <3>2. i # c
      BY <1>s, <2>1, <3>1
    <3> QED
      BY <1>s, <2>1, <3>1, <3>2
  <2> QED
    BY <1>s, <2>1 DEF SettledIsRouted
<1>8. OwedIsPending'
  BY <1>s DEF OwedIsPending, OpShape, SettledIsRouted
<1> QED
  BY <1>1, <1>2, <1>3, <1>4, <1>5, <1>6, <1>7, <1>8 DEF IndInv

(***************************************************************************)
(* The routing table and KVM get the entry of the vector that the update   *)
(* is at; no other vector has its GSI.                                     *)
(***************************************************************************)
LEMMA set_gsi_routesStep ==
    ASSUME IndInv, NEW d \in Devices, set_gsi_routes(d)
    PROVE  IndInv'
<1>f. /\ \A e \in Devices : /\ Current(e) = FirstOf(op[e].todo)
                            /\ Current(e)' = FirstOf(op'[e].todo)
                            /\ op[e].todo # {} => Current(e) \in op[e].todo
      /\ \A e \in Devices : op[e].todo \subseteq Irqs /\ op[e].inject \subseteq Irqs
  BY CurrentFacts DEF IndInv, TypeOK
<1> USE <1>f, IrqFacts DEF IndInv, TypeOK, Of, On
<1> DEFINE c == Current(d)
<1>s. /\ op[d].at = "route" /\ c \in op[d].todo /\ gsi[c] \in Gsis /\ msg[c] \in Msgs
      /\ GoesTo(d, "enable") /\ lock = 0 /\ lock' = d
      /\ routes' = [routes EXCEPT ![gsi[c]] = [m |-> msg[c], masked |-> c \in vmasked]]
      /\ kvm' = [g \in Gsis |-> IF routes'[g].masked THEN NoMsg ELSE routes'[g].m]
      /\ UNCHANGED <<enabled, fmasked, vmasked, msg, pba, gsi, registered, irqfd, owed>>
  BY OpSteps DEF set_gsi_routes, table, OpShape, UpdateIsOrdered
<1> USE DEF GoesTo, GoesOn, Goes, OpsOK
<1>1. TypeOK'
  BY <1>s DEF TypeOK
<1>2. OpShape'
  BY <1>s DEF OpShape
<1>3. LockIsHeld'
  BY <1>s DEF LockIsHeld
<1>4. KvmIsTable' /\ GsisDistinct'
  BY <1>s DEF KvmIsTable, GsisDistinct
<1>e. /\ routes'[gsi[c]].masked <=> c \in vmasked
      /\ routes'[gsi[c]].m = msg[c]
      /\ \A i \in Irqs \ {c} : gsi[i] # 0 =>
           routes'[gsi[i]] = routes[gsi[i]] /\ kvm'[gsi[i]] = kvm[gsi[i]]
  BY <1>s DEF GsisDistinct, KvmIsTable
<1>5. RegisteredHasEntry'
  <2>1. ASSUME NEW i \in registered
        PROVE  gsi[i] # 0 /\ ~routes'[gsi[i]].masked /\ routes'[gsi[i]].m \in Msgs
    <3>1. CASE i = c
      BY <1>s, <1>e, <3>1 DEF RegisteredHasEntry, UpdateIsOrdered
    <3>2. CASE i # c
      BY <1>s, <1>e, <3>2 DEF RegisteredHasEntry
    <3> QED
      BY <3>1, <3>2
  <2> QED
    BY <1>s, <2>1 DEF RegisteredHasEntry
<1>6. UpdateIsOrdered'
  <2>1. \A e \in Devices : op'[e].at = "enable" => e = d
    BY <1>s DEF LockIsHeld
  <2> QED
    BY <1>s, <1>e, <2>1 DEF UpdateIsOrdered
<1>7. SettledIsRouted'
  <2>1. \A e \in Devices : op'[e].todo = op[e].todo
    BY <1>s
  <2>2. c \in op[c[1]].todo
    BY <1>s DEF OpShape
  <2>3. ASSUME NEW i \in Irqs, On(i[1]), i \notin vmasked, gsi[i] # 0,
               i \notin op[i[1]].todo
        PROVE  i \in registered /\ kvm'[gsi[i]] = msg[i]
    BY <1>e, <2>2, <2>3 DEF SettledIsRouted
  <2> QED
    BY <1>s, <2>1, <2>3 DEF SettledIsRouted
<1>8. OwedIsPending'
  BY <1>s DEF OwedIsPending, OpShape, SettledIsRouted
<1> QED
  BY <1>1, <1>2, <1>3, <1>4, <1>5, <1>6, <1>7, <1>8 DEF IndInv

(***************************************************************************)
(* The irqfd is registered under the mutex, when its route is in place.    *)
(***************************************************************************)
LEMMA enableStep ==
    ASSUME IndInv, NEW d \in Devices, enable(d)
    PROVE  IndInv'
<1>f. /\ \A e \in Devices : /\ Current(e) = FirstOf(op[e].todo)
                            /\ Current(e)' = FirstOf(op'[e].todo)
                            /\ op[e].todo # {} => Current(e) \in op[e].todo
      /\ \A e \in Devices : op[e].todo \subseteq Irqs /\ op[e].inject \subseteq Irqs
  BY CurrentFacts DEF IndInv, TypeOK
<1> USE <1>f, IrqFacts DEF IndInv, TypeOK, Of, On
<1> DEFINE c == Current(d)
<1>s. /\ op[d].at = "enable" /\ c \in op[d].todo /\ GoesOn(d)
      /\ registered' = registered \cup ({c} \ vmasked) /\ lock' = 0
      /\ irqfd' \subseteq irqfd /\ owed' \subseteq owed
      /\ UNCHANGED <<enabled, fmasked, vmasked, msg, pba, gsi, routes, kvm>>
  BY OpSteps DEF enable, table, OpShape
<1> USE DEF GoesTo, GoesOn, Goes, OpsOK
<1>1. TypeOK'
  BY <1>s DEF TypeOK
<1>2. OpShape'
  BY <1>s DEF OpShape
<1>3. LockIsHeld'
  BY <1>s DEF LockIsHeld
<1>4. KvmIsTable' /\ GsisDistinct'
  BY <1>s DEF KvmIsTable, GsisDistinct
<1>e. c \notin vmasked => /\ gsi[c] \in Gsis /\ gsi[c] # 0
                         /\ ~routes[gsi[c]].masked /\ routes[gsi[c]].m = msg[c]
                         /\ kvm[gsi[c]] = msg[c] /\ msg[c] \in Msgs
  BY <1>s DEF UpdateIsOrdered, KvmIsTable
<1>5. RegisteredHasEntry'
  BY <1>s, <1>e DEF RegisteredHasEntry
<1>6. UpdateIsOrdered'
  BY <1>s DEF UpdateIsOrdered, OpShape, LockIsHeld
<1>7. SettledIsRouted'
  BY <1>s, <1>e DEF SettledIsRouted, OpShape
<1>8. OwedIsPending'
  BY <1>s DEF OwedIsPending, OpShape, SettledIsRouted
<1> QED
  BY <1>1, <1>2, <1>3, <1>4, <1>5, <1>6, <1>7, <1>8 DEF IndInv

(***************************************************************************)
(* Injecting at the end of a write pays what is owed: the vectors have been *)
(* registered by then.                                                     *)
(***************************************************************************)
LEMMA injectStep ==
    ASSUME IndInv, NEW d \in Devices, inject(d)
    PROVE  IndInv'
<1>f. /\ \A e \in Devices : /\ Current(e) = FirstOf(op[e].todo)
                            /\ Current(e)' = FirstOf(op'[e].todo)
                            /\ op[e].todo # {} => Current(e) \in op[e].todo
      /\ \A e \in Devices : op[e].todo \subseteq Irqs /\ op[e].inject \subseteq Irqs
  BY CurrentFacts DEF IndInv, TypeOK
<1> USE <1>f, IrqFacts DEF IndInv, TypeOK, Of, On, Trigger, NoOp, table
<1>1. TypeOK'
  BY DEF inject, TypeOK
<1>2. OpShape'
  BY DEF inject, OpShape
<1>3. LockIsHeld'
  BY DEF inject, LockIsHeld
<1>4. KvmIsTable' /\ GsisDistinct'
  BY DEF inject, KvmIsTable, GsisDistinct
<1>5. RegisteredHasEntry'
  BY DEF inject, RegisteredHasEntry, GsisDistinct, UpdateIsOrdered, OpShape
<1>6. UpdateIsOrdered'
  BY DEF inject, UpdateIsOrdered, OpShape, LockIsHeld
<1>7. SettledIsRouted'
  BY DEF inject, SettledIsRouted, OpShape, KvmIsTable, GsisDistinct, UpdateIsOrdered
<1>8. OwedIsPending'
  BY DEF inject, OwedIsPending, OpShape, SettledIsRouted
<1> QED
  BY <1>1, <1>2, <1>3, <1>4, <1>5, <1>6, <1>7, <1>8 DEF IndInv

(***************************************************************************)
(* A removed device leaves routes behind, and no irqfd that uses them.     *)
(***************************************************************************)
LEMMA ReplugStep ==
    ASSUME IndInv, NEW d \in Devices, Replug(d)
    PROVE  IndInv'
<1>f. /\ \A e \in Devices : /\ Current(e) = FirstOf(op[e].todo)
                            /\ Current(e)' = FirstOf(op'[e].todo)
                            /\ op[e].todo # {} => Current(e) \in op[e].todo
      /\ \A e \in Devices : op[e].todo \subseteq Irqs /\ op[e].inject \subseteq Irqs
  BY CurrentFacts DEF IndInv, TypeOK
<1> USE <1>f, IrqFacts DEF IndInv, TypeOK, Of, On, table
<1>1. TypeOK'
  BY DEF Replug, TypeOK
<1>2. OpShape'
  BY DEF Replug, OpShape
<1>3. LockIsHeld'
  BY DEF Replug, LockIsHeld
<1>4. KvmIsTable' /\ GsisDistinct'
  BY DEF Replug, KvmIsTable, GsisDistinct
<1>5. RegisteredHasEntry'
  BY DEF Replug, RegisteredHasEntry, GsisDistinct, UpdateIsOrdered, OpShape
<1>6. UpdateIsOrdered'
  BY DEF Replug, UpdateIsOrdered, OpShape, LockIsHeld
<1>7. SettledIsRouted'
  BY DEF Replug, SettledIsRouted, OpShape, KvmIsTable, GsisDistinct, UpdateIsOrdered
<1>8. OwedIsPending'
  BY DEF Replug, OwedIsPending, OpShape, SettledIsRouted
<1> QED
  BY <1>1, <1>2, <1>3, <1>4, <1>5, <1>6, <1>7, <1>8 DEF IndInv

(***************************************************************************)
(* A device's trigger: a vector that can be delivered is registered.       *)
(***************************************************************************)
LEMMA triggerStep ==
    ASSUME IndInv, NEW i \in Irqs, trigger(i)
    PROVE  IndInv'
<1>f. /\ \A e \in Devices : /\ Current(e) = FirstOf(op[e].todo)
                            /\ Current(e)' = FirstOf(op'[e].todo)
                            /\ op[e].todo # {} => Current(e) \in op[e].todo
      /\ \A e \in Devices : op[e].todo \subseteq Irqs /\ op[e].inject \subseteq Irqs
  BY CurrentFacts DEF IndInv, TypeOK
<1> USE <1>f, IrqFacts DEF IndInv, TypeOK, Of, On, Trigger, table
<1>1. TypeOK'
  BY DEF trigger, TypeOK
<1>2. OpShape'
  BY DEF trigger, OpShape
<1>3. LockIsHeld'
  BY DEF trigger, LockIsHeld
<1>4. KvmIsTable' /\ GsisDistinct'
  BY DEF trigger, KvmIsTable, GsisDistinct
<1>5. RegisteredHasEntry'
  BY DEF trigger, RegisteredHasEntry, GsisDistinct, UpdateIsOrdered, OpShape
<1>6. UpdateIsOrdered'
  BY DEF trigger, UpdateIsOrdered, OpShape, LockIsHeld
<1>7. SettledIsRouted'
  BY DEF trigger, SettledIsRouted, OpShape, KvmIsTable, GsisDistinct, UpdateIsOrdered
<1>8. OwedIsPending'
  BY DEF trigger, OwedIsPending, OpShape, SettledIsRouted
<1> QED
  BY <1>1, <1>2, <1>3, <1>4, <1>5, <1>6, <1>7, <1>8 DEF IndInv

(***************************************************************************)
(* A restored VMM routes every vector that can be delivered, each through  *)
(* a GSI of its own.                                                       *)
(***************************************************************************)
LEMMA RestoreStep ==
    ASSUME IndInv, Restore
    PROVE  IndInv'
<1>f. /\ \A e \in Devices : /\ Current(e) = FirstOf(op[e].todo)
                            /\ Current(e)' = FirstOf(op'[e].todo)
                            /\ op[e].todo # {} => Current(e) \in op[e].todo
      /\ \A e \in Devices : op[e].todo \subseteq Irqs /\ op[e].inject \subseteq Irqs
  BY CurrentFacts DEF IndInv, TypeOK
<1> USE <1>f, IrqFacts DEF IndInv, TypeOK, Of, On
<1> DEFINE live == {i \in Irqs : On(i[1]) /\ i \notin vmasked}
           rank(i) == Cardinality(UpTo(i, live))
<1>r. /\ \A i \in live : rank(i) \in Gsis
      /\ \A i, j \in live : rank(i) = rank(j) => i = j
  BY RanksAreGsis
<1>s. /\ \A e \in Devices : op[e].at = "idle"
      /\ gsi' = [i \in Irqs |-> IF i \in live THEN rank(i) ELSE 0]
      /\ registered' = live
      /\ routes' = [g \in Gsis |->
           IF \E i \in live : rank(i) = g
           THEN [m |-> msg[CHOOSE i \in live : rank(i) = g], masked |-> FALSE]
           ELSE [m |-> NoMsg, masked |-> TRUE]]
      /\ kvm' = [g \in Gsis |-> IF routes'[g].masked THEN NoMsg ELSE routes'[g].m]
      /\ irqfd' = {}
      /\ UNCHANGED <<enabled, fmasked, vmasked, msg, pba, lock, op, owed>>
  BY DEF Restore, UpTo, NoRoute, table
<1>v. live \subseteq Irqs /\ \A i \in Irqs : i \in live <=> On(i[1]) /\ i \notin vmasked
  OBVIOUS
<1> HIDE DEF rank, live
<1>l. ASSUME NEW i \in live
      PROVE  /\ gsi'[i] = rank(i) /\ gsi'[i] \in Gsis /\ gsi'[i] # 0 /\ msg[i] \in Msgs
             /\ routes'[gsi'[i]] = [m |-> msg[i], masked |-> FALSE]
             /\ ~routes'[gsi'[i]].masked /\ routes'[gsi'[i]].m = msg[i]
             /\ kvm'[gsi'[i]] = msg[i]
  <2>1. gsi'[i] = rank(i) /\ rank(i) \in Gsis
    BY <1>r, <1>s, <1>v
  <2>2. PICK g \in Gsis : g = rank(i)
    BY <2>1
  <2>3. routes'[gsi'[i]] = [m |-> msg[i], masked |-> FALSE]
    <3>1. \E j \in live : rank(j) = g
      BY <2>2
    <3>2. (CHOOSE j \in live : rank(j) = g) = i
      BY <1>r, <2>2
    <3>3. routes'[g] = [m |-> msg[CHOOSE j \in live : rank(j) = g], masked |-> FALSE]
      BY <1>s, <3>1
    <3> QED
      BY <2>1, <2>2, <3>2, <3>3
  <2>4. ~routes'[gsi'[i]].masked /\ routes'[gsi'[i]].m = msg[i]
    BY <2>3
  <2>5. kvm'[gsi'[i]] = msg[i]
    BY <1>s, <2>1, <2>4
  <2>6. msg[i] \in Msgs
    BY <1>v
  <2> QED
    BY <2>1, <2>3, <2>4, <2>5, <2>6
<1>o. ASSUME NEW i \in Irqs, i \notin live PROVE gsi'[i] = 0
  BY <1>s, <1>o
<1>t. ASSUME NEW g \in Gsis PROVE routes'[g] \in [m : Msgs \cup {NoMsg}, masked : BOOLEAN]
  <2>1. CASE \E i \in live : rank(i) = g
    <3>1. PICK i \in live : rank(i) = g
      BY <2>1
    <3>2. gsi'[i] = g /\ routes'[gsi'[i]] = [m |-> msg[i], masked |-> FALSE]
      BY <1>l, <3>1
    <3>3. msg[i] \in Msgs
      BY <1>l
    <3> QED
      BY <3>2, <3>3
  <2>2. CASE ~\E i \in live : rank(i) = g
    BY <1>s, <2>2
  <2> QED
    BY <2>1, <2>2
<1>1. TypeOK'
  <2>1. gsi' \in [Irqs -> {0} \cup Gsis]
    BY <1>s, <1>l, <1>o
  <2>2. routes' \in [Gsis -> [m : Msgs \cup {NoMsg}, masked : BOOLEAN]]
    BY <1>s, <1>t
  <2>3. kvm' \in [Gsis -> Msgs \cup {NoMsg}]
    BY <1>s, <1>t
  <2>4. registered' \subseteq Irqs
    BY <1>s, <1>v
  <2> QED
    BY <1>s, <2>1, <2>2, <2>3, <2>4 DEF TypeOK
<1>2. OpShape'
  BY <1>s DEF OpShape
<1>3. LockIsHeld'
  BY <1>s DEF LockIsHeld
<1>4. KvmIsTable' /\ GsisDistinct'
  <2>1. KvmIsTable'
    BY <1>s DEF KvmIsTable
  <2>2. GsisDistinct'
    <3>1. ASSUME NEW i \in Irqs, NEW j \in Irqs, gsi'[i] # 0, gsi'[i] = gsi'[j]
          PROVE  i = j
      <4>1. i \in live /\ j \in live
        BY <1>o, <3>1
      <4> QED
        <5>1. gsi'[i] = rank(i) /\ gsi'[j] = rank(j)
          BY <1>l, <4>1
        <5>2. rank(i) = rank(j)
          BY <3>1, <5>1
        <5> QED
          BY <1>r, <4>1, <5>2
    <3> QED
      BY <3>1 DEF GsisDistinct
  <2> QED
    BY <2>1, <2>2
<1>5. RegisteredHasEntry'
  BY <1>s, <1>l DEF RegisteredHasEntry
<1>6. UpdateIsOrdered'
  BY <1>s DEF UpdateIsOrdered
<1>7. SettledIsRouted'
  <2>1. ASSUME NEW i \in Irqs, gsi'[i] # 0
        PROVE  i \in registered' /\ kvm'[gsi'[i]] = msg[i]
    BY <1>s, <1>l, <1>o, <2>1
  <2> QED
    BY <1>s, <2>1 DEF SettledIsRouted
<1>8. OwedIsPending'
  BY <1>s DEF OwedIsPending
<1> QED
  BY <1>1, <1>2, <1>3, <1>4, <1>5, <1>6, <1>7, <1>8 DEF IndInv

-----------------------------------------------------------------------------
(***************************************************************************)
(* The invariant holds in every state, for any number of devices, vectors, *)
(* messages and GSIs, as long as there are GSIs enough.                    *)
(***************************************************************************)
THEOREM IndInvHolds == Spec => []IndInv
<1>1. Init => IndInv
  <2> SUFFICES ASSUME Init PROVE IndInv
    OBVIOUS
  <2> USE IrqFacts DEF Init
  <2>1. /\ \A d \in Devices : op[d].at = "idle" /\ op[d].todo = {} /\ op[d].inject = {}
        /\ \A i \in Irqs : gsi[i] = 0 /\ i \in vmasked
    BY DEF NoOp
  <2>2. TypeOK
    <3>1. msg \in [Irqs -> Msgs]
      BY MsixAssumption
    <3>2. op \in [Devices -> [at : {"idle", "next", "route", "enable"},
                              todo : SUBSET Irqs, inject : SUBSET Irqs]]
      BY DEF NoOp
    <3>3. /\ routes \in [Gsis -> [m : Msgs \cup {NoMsg}, masked : BOOLEAN]]
          /\ kvm \in [Gsis -> Msgs \cup {NoMsg}]
      BY DEF NoRoute
    <3> QED
      BY <3>1, <3>2, <3>3 DEF TypeOK
  <2>3. KvmIsTable
    BY DEF KvmIsTable, NoRoute
  <2>4. OpShape /\ LockIsHeld /\ GsisDistinct /\ RegisteredHasEntry /\ UpdateIsOrdered
    BY <2>1 DEF OpShape, LockIsHeld, GsisDistinct, RegisteredHasEntry, UpdateIsOrdered
  <2>5. SettledIsRouted /\ OwedIsPending
    BY <2>1 DEF SettledIsRouted, OwedIsPending
  <2> QED
    BY <2>2, <2>3, <2>4, <2>5 DEF IndInv
<1>2. IndInv /\ [Next]_vars => IndInv'
  <2> SUFFICES ASSUME IndInv, [Next]_vars PROVE IndInv'
    OBVIOUS
  <2>1. ASSUME NEW d \in Devices, WriteStep(d) PROVE IndInv'
    BY <2>1, update_maskedStep, update_unmaskedStep, set_gsi_routesStep, enableStep,
       injectStep DEF WriteStep
  <2>2. CASE UNCHANGED vars
    <3>1. \A d \in Devices : Current(d)' = Current(d)
      BY <2>2 DEF vars, Current
    <3> QED
      BY <2>2, <3>1
         DEF vars, table, IndInv, TypeOK, OpShape, LockIsHeld, KvmIsTable, GsisDistinct,
             RegisteredHasEntry, UpdateIsOrdered, SettledIsRouted, OwedIsPending, On
  <2> QED
    BY <2>1, <2>2, set_msg_ctlStep, write_tableStep, ReplugStep, triggerStep, RestoreStep
       DEF Next
<1> QED
  BY <1>1, <1>2, PTL DEF Spec

(***************************************************************************)
(* An irqfd is never registered for a GSI without a route, not even        *)
(* between two steps of an update, and no two vectors share a GSI.         *)
(***************************************************************************)
THEOREM RegisteredVectorsAreRouted == Spec => []RegisteredIsRouted
<1>1. ASSUME IndInv PROVE RegisteredIsRouted
  <2>1. ASSUME NEW i \in registered PROVE gsi[i] # 0 /\ kvm[gsi[i]] # NoMsg
    <3>1. /\ gsi[i] # 0 /\ gsi[i] \in Gsis
          /\ ~routes[gsi[i]].masked /\ routes[gsi[i]].m \in Msgs
      BY <1>1 DEF IndInv, TypeOK, RegisteredHasEntry
    <3> QED
      BY <1>1, <3>1, MsixAssumption DEF IndInv, KvmIsTable
  <2> QED
    BY <1>1, <2>1 DEF IndInv, GsisDistinct, RegisteredIsRouted
<1> QED
  BY <1>1, IndInvHolds, PTL

(***************************************************************************)
(* KVM delivers an interrupt of a vector to the address and data that the  *)
(* guest wrote last.                                                       *)
(***************************************************************************)
THEOREM VectorsDeliverWhereProgrammed == Spec => []DeliversWhereProgrammed
<1>1. IndInv => DeliversWhereProgrammed
  BY IrqFacts DEF IndInv, OpShape, SettledIsRouted, DeliversWhereProgrammed, Deliverable
<1> QED
  BY <1>1, IndInvHolds, PTL

(***************************************************************************)
(* An interrupt that an enabled device raised while it was masked has been *)
(* injected by the time the vector can be delivered.                       *)
(***************************************************************************)
THEOREM PendingInterruptsAreInjected == Spec => []NoInterruptIsLost
<1>1. IndInv => NoInterruptIsLost
  BY IrqFacts DEF IndInv, OpShape, OwedIsPending, NoInterruptIsLost, Deliverable
<1> QED
  BY <1>1, IndInvHolds, PTL
=============================================================================
