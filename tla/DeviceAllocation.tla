-------------------------- MODULE DeviceAllocation --------------------------
(***************************************************************************)
(* Device allocation leases, core/device_allocation_lease.zig: the         *)
(* coordinator that charges the ResourceBank for device memory, has an     *)
(* adapter allocate it object by object and gives the charge back only     *)
(* after every object was freed.  bench/device_allocation_lease.py is its  *)
(* one-slot mirror.                                                        *)
(*                                                                         *)
(* A coordinator method holds the coordinator's mutex for its whole body,  *)
(* but takes the Bank's and the adapter's mutex once for each call it      *)
(* makes.  So between two steps of a method nothing of its coordinator     *)
(* moves, while the Bank and the adapter serve every other thread and      *)
(* every other coordinator.  The variable call holds the method that a     *)
(* coordinator is in the middle of; each Bank or adapter call is a step.   *)
(*                                                                         *)
(* Callers hold tickets by value: the admission, the lease, the recovery.  *)
(* The variable tickets keeps every ticket ever returned, and any of them  *)
(* may be presented.  A rejected call changes nothing and is no step.      *)
(* Requirement, inventory, quotes, evidence digests and the outcome that a *)
(* terminal receipt will name are left out: they are compared and carried, *)
(* and dropping them only makes two tickets easier to confuse.  A          *)
(* coordinator and an adapter are named by their epochs, which are not     *)
(* zero in the code.                                                       *)
(***************************************************************************)
EXTENDS ResourceBank, Sequences

CONSTANTS
    Coordinators,            \* the coordinators, by epoch
    NoCoordinator,           \* the epoch that none has, zero in the code
    Adapters,                \* the adapters they share, by authority epoch
    LeaseSlotCount,          \* slots.len of a coordinator
    ObjectCount,             \* objects.len of a coordinator
    DeviceClass,             \* the class device_bytes
    Manifests,               \* the charged sizes of the objects of a request
    MaximumLiveObjects,      \* maximum_live_objects of an adapter's authority
    MaximumDeviceBytes,      \* max_total_device_bytes of the authority
    MaxAllocationGeneration, \* maxInt(u64) for CoordinatorV1.next_generation
    MaxObjectGeneration,     \* maxInt(u64) for FakeBackendV1.next_generation
    MaxRecoveryGeneration    \* maxInt(u64) for recovery_generation

\* The charge of a manifest: its charged bytes, all of them device bytes.
DeviceClaim(sizes) ==
    [ZeroClaim EXCEPT ![DeviceClass] = SumFunctionOnSet(sizes, DOMAIN sizes)]

ASSUME DeviceAssumption ==
    /\ NoCoordinator \notin Coordinators
    /\ Adapters \subseteq Nat \ {0} /\ IsFiniteSet(Adapters)
    /\ LeaseSlotCount \in Nat \ {0} /\ ObjectCount \in Nat \ {0}
    /\ DeviceClass \in Classes
    /\ \A m \in Manifests : /\ m \in Seq(Nat \ {0}) /\ m # << >>
                            /\ DeviceClaim(m) \in RequestClaims
    /\ MaximumLiveObjects \in Nat /\ MaximumDeviceBytes \in Nat
    /\ MaxAllocationGeneration \in Nat
    /\ MaxObjectGeneration \in Nat
    /\ MaxRecoveryGeneration \in Nat

VARIABLES
    leases,              \* CoordinatorV1.slots
    objects,             \* CoordinatorV1.objects: slot, generation, ordinal
    nextAllocation,      \* CoordinatorV1.next_generation
    call,                \* the method a coordinator is in the middle of
    backend,             \* the adapters' own registries
    tickets,             \* history: every ticket ever returned to a caller
    exchanged            \* history: those that a call took and did not return

deviceVars == <<leases, objects, nextAllocation, call, backend, tickets,
                exchanged>>
everyVar == <<vars, deviceVars>>

LeaseSlots == 0 .. LeaseSlotCount - 1

Admission == [coordinator : Coordinators \union {NoCoordinator},
              slot : LeaseSlots, generation : Nat, adapter : Nat,
              child : ChildLease, sizes : Seq(Nat)]

\* What the fields of an empty slot are initialised to.
NoAdmission ==
    [coordinator |-> NoCoordinator, slot |-> 0, generation |-> 0,
     adapter |-> 0,
     child |-> ChildLeaseAt(ReceiptAt(0, 0, ZeroClaim), 0, ZeroClaim,
                            ZeroClaim),
     sizes |-> << >>]

FreeLease == [state |-> "free", admission |-> NoAdmission,
              recoveryGeneration |-> 0]

LeaseSlot == [state : {"free", "admitted", "live", "recovery_required"},
              admission : Admission, recoveryGeneration : Nat]

\* An adapter's object is bound to the sealed call it answers, that is to the
\* admission and the ordinal, and to a generation of the adapter.
Object == [admission : Admission, ordinal : Nat, generation : Nat]

\* The object of an object slot that is reserved and not live.
NoObject == [admission |-> NoAdmission, ordinal |-> 0, generation |-> 0]

Bytes(o) == o.admission.sizes[o.ordinal]

Key(a, k) == <<a.slot, a.generation, k>>
Keys(a) == {Key(a, k) : k \in DOMAIN a.sizes}

-----------------------------------------------------------------------------
(* Tickets.                                                                *)

AdmissionTicket(a) == [kind |-> "admission", admission |-> a]

LeaseTicket(a) == [kind |-> "lease", admission |-> a]

RecoveryTicket(a, g, outstanding) ==
    [kind |-> "recovery", admission |-> a, recoveryGeneration |-> g,
     outstanding |-> outstanding]

Ticket == [kind : {"admission"}, admission : Admission]
          \union [kind : {"lease"}, admission : Admission]
          \union [kind : {"recovery"}, admission : Admission,
                  recoveryGeneration : Nat, outstanding : SUBSET Object]

IdleCall == [op |-> "idle", ordinal |-> 0, failed |-> FALSE,
             ticket |-> AdmissionTicket(NoAdmission)]

Call == [op : {"idle", "allocating", "freeing"}, ordinal : Nat,
         failed : BOOLEAN, ticket : Ticket]

EmptyBackend == [live |-> {}, active |-> NoAdmission, used |-> 0,
                 nextGeneration |-> 1]

Backend == [live : SUBSET Object, active : Admission, used : Nat,
            nextGeneration : Nat]

\* The objects of a lease that its coordinator knows to be live.
Outstanding(c, a) ==
    {objects[c][key] : key \in Keys(a) \intersect DOMAIN objects[c]}
        \ {NoObject}

\* The slot that a ticket names is occupied by the very admission it carries.
Current(c, t) == /\ t.admission.coordinator = c
                 /\ leases[c][t.admission.slot].admission = t.admission

validateAdmissionLive(c, t) ==
    /\ t.kind = "admission" /\ Current(c, t)
    /\ leases[c][t.admission.slot].state = "admitted"

validateLeaseLive(c, t) ==
    /\ t.kind = "lease" /\ Current(c, t)
    /\ leases[c][t.admission.slot].state = "live"

\* Mutant: the set of outstanding objects is not compared.
validateRecoveryAnyObjects(c, t) ==
    /\ t.kind = "recovery" /\ Current(c, t)
    /\ leases[c][t.admission.slot].state = "recovery_required"
    /\ leases[c][t.admission.slot].recoveryGeneration = t.recoveryGeneration

validateRecoveryLive(c, t) ==
    /\ t.kind = "recovery" /\ Current(c, t)
    /\ leases[c][t.admission.slot].state = "recovery_required"
    /\ leases[c][t.admission.slot].recoveryGeneration = t.recoveryGeneration
    /\ Outstanding(c, t.admission) = t.outstanding

\* The coordinator would act on ticket t if it were presented now.
Accepts(c, t) == \/ validateAdmissionLive(c, t)
                 \/ validateLeaseLive(c, t)
                 \/ validateRecoveryLive(c, t)

\* A call that was given ticket t returns, with the tickets in new.
Answer(t, new) == /\ tickets' = tickets \union new
                  /\ exchanged' = exchanged \union ({t} \ new)

-----------------------------------------------------------------------------
(* Admission: the charge comes before the first allocation.                *)

Idle(c) == call[c].op = "idle"

FirstFreeLease(c, i) == /\ leases[c][i].state = "free"
                        /\ \A j \in LeaseSlots :
                              j < i => leases[c][j].state # "free"

\* V1 admits one lease of an adapter's authority at a time (activeAuthority-
\* Leases, maximum_leases), so no object of it is counted beforehand.
AuthorityFree(c, a) ==
    \A i \in LeaseSlots : leases[c][i].state # "free" =>
                            leases[c][i].admission.adapter # a

WithinAuthority(sizes) ==
    /\ Len(sizes) <= MaximumLiveObjects
    /\ SumFunctionOnSet(sizes, DOMAIN sizes) <= MaximumDeviceBytes

\* The parent must leave the whole device charge to its child.  The Bank's
\* validateCommitted is repeated by openChild.
admit(c, a, parent, sizes) ==
    /\ Idle(c)
    /\ WithinAuthority(sizes)
    /\ parent.claim[DeviceClass] = 0
    /\ AuthorityFree(c, a)
    /\ Cardinality(DOMAIN objects[c]) + Len(sizes) <= ObjectCount
    /\ nextAllocation[c] < MaxAllocationGeneration
    /\ openChild(parent, DeviceClaim(sizes), DeviceClaim(sizes))
    /\ \E i \in LeaseSlots :
        LET new == [coordinator |-> c, slot |-> i,
                    generation |-> nextAllocation[c], adapter |-> a,
                    child |-> ChildLeaseAt(parent, nextChildGeneration,
                                  DeviceClaim(sizes), DeviceClaim(sizes)),
                    sizes |-> sizes]
        IN  /\ FirstFreeLease(c, i)
            /\ leases' = [leases EXCEPT ![c][i] =
                  [FreeLease EXCEPT !.state = "admitted", !.admission = new]]
            /\ objects' = [objects EXCEPT ![c] =
                  [key \in DOMAIN objects[c] \union Keys(new) |->
                     IF key \in Keys(new) THEN NoObject ELSE objects[c][key]]]
            /\ tickets' = tickets \union {AdmissionTicket(new)}
    /\ nextAllocation' = [nextAllocation EXCEPT ![c] = @ + 1]
    /\ UNCHANGED <<call, backend, exchanged>>

clearCoordinatorSlot(c, a) ==
    /\ leases' = [leases EXCEPT ![c][a.slot] = FreeLease]
    /\ objects' = [objects EXCEPT ![c] =
                      [key \in DOMAIN objects[c] \ Keys(a) |->
                          objects[c][key]]]

\* Nothing was allocated, so there is nothing to free.  If the Bank refuses
\* to close the child the call fails and the admission stands.
cancelAdmission(c, t) ==
    /\ Idle(c)
    /\ validateAdmissionLive(c, t)
    /\ closeChild(t.admission.child)
    /\ clearCoordinatorSlot(c, t.admission)
    /\ Answer(t, {})
    /\ UNCHANGED <<nextAllocation, call, backend>>

-----------------------------------------------------------------------------
(* Materialization, one allocation at a time.                              *)

materialize(c, t) ==
    /\ Idle(c)
    /\ validateAdmissionLive(c, t)
    /\ validateChildLease(t.admission.child)
    /\ call' = [call EXCEPT ![c] = [IdleCall EXCEPT !.op = "allocating",
                                                    !.ordinal = 1,
                                                    !.ticket = t]]
    /\ UNCHANGED <<vars, leases, objects, nextAllocation, backend, tickets,
                   exchanged>>

\* cleanupForTerminal starts at the last ordinal of the lease.
StartCleanup(c, t) ==
    call' = [call EXCEPT ![c] = [op |-> "freeing",
                                 ordinal |-> Len(t.admission.sizes),
                                 failed |-> FALSE, ticket |-> t]]

Allocating(c) == call[c].op = "allocating"

\* The object slot of the ordinal that the method is at.
Here(c) == Key(call[c].ticket.admission, call[c].ordinal)

\* The cancellation probe is asked before each allocation and after the last.
cancelled(c) ==
    /\ Allocating(c)
    /\ StartCleanup(c, call[c].ticket)
    /\ UNCHANGED <<vars, leases, objects, nextAllocation, backend, tickets,
                   exchanged>>

\* The adapter's registry with one object more.
Registered(b, o) == [live |-> b.live \union {o}, active |-> o.admission,
                     used |-> b.used + Bytes(o),
                     nextGeneration |-> b.nextGeneration + 1]

\* The adapter refuses a second materialized lease, an ordinal that is live
\* already, and what exceeds its capacity.
CanAllocate(b, a, k) ==
    /\ b.active \in {NoAdmission, a}
    /\ \A o \in b.live : ~(o.admission = a /\ o.ordinal = k)
    /\ b.used + a.sizes[k] <= MaximumDeviceBytes
    /\ Cardinality(b.live) < MaximumLiveObjects
    /\ b.nextGeneration < MaxObjectGeneration

\* Mutant: an object whose evidence is rejected is not remembered.
allocateForgetful(c) ==
    LET t == call[c].ticket
        a == t.admission
        b == backend[a.adapter]
        o == [admission |-> a, ordinal |-> call[c].ordinal,
              generation |-> b.nextGeneration]
    IN  /\ Allocating(c) /\ call[c].ordinal <= Len(a.sizes)
        /\ Here(c) \in DOMAIN objects[c] /\ objects[c][Here(c)] = NoObject
        /\ CanAllocate(b, a, call[c].ordinal)
        /\ backend' = [backend EXCEPT ![a.adapter] = Registered(b, o)]
        /\ \/ /\ call' = [call EXCEPT ![c].ordinal = @ + 1]
              /\ objects' = [objects EXCEPT ![c][Here(c)] = o]
           \/ /\ StartCleanup(c, t)
              /\ UNCHANGED objects
        /\ UNCHANGED <<vars, leases, nextAllocation, tickets, exchanged>>

\* The object is remembered before its evidence is validated, so that an
\* object with drifted evidence is freed too.
allocate(c) ==
    LET t == call[c].ticket
        a == t.admission
        b == backend[a.adapter]
        o == [admission |-> a, ordinal |-> call[c].ordinal,
              generation |-> b.nextGeneration]
    IN  /\ Allocating(c) /\ call[c].ordinal <= Len(a.sizes)
        /\ Here(c) \in DOMAIN objects[c] /\ objects[c][Here(c)] = NoObject
        /\ CanAllocate(b, a, call[c].ordinal)
        /\ backend' = [backend EXCEPT ![a.adapter] = Registered(b, o)]
        /\ objects' = [objects EXCEPT ![c][Here(c)] = o]
        /\ \/ call' = [call EXCEPT ![c].ordinal = @ + 1]
           \/ StartCleanup(c, t)
        /\ UNCHANGED <<vars, leases, nextAllocation, tickets, exchanged>>

\* The adapter may fail at any ordinal; a failed allocation made no object.
allocationFails(c) ==
    /\ Allocating(c) /\ call[c].ordinal <= Len(call[c].ticket.admission.sizes)
    /\ Here(c) \in DOMAIN objects[c] /\ objects[c][Here(c)] = NoObject
    /\ StartCleanup(c, call[c].ticket)
    /\ UNCHANGED <<vars, leases, objects, nextAllocation, backend, tickets,
                   exchanged>>

\* copyMaterializationInOrder finds every object live.
materialized(c) ==
    LET t == call[c].ticket
        a == t.admission
    IN  /\ Allocating(c) /\ call[c].ordinal = Len(a.sizes) + 1
        /\ \A key \in Keys(a) : /\ key \in DOMAIN objects[c]
                                /\ objects[c][key] # NoObject
        /\ leases' = [leases EXCEPT ![c][a.slot].state = "live"]
        /\ call' = [call EXCEPT ![c] = IdleCall]
        /\ Answer(t, {LeaseTicket(a)})
        /\ UNCHANGED <<vars, objects, nextAllocation, backend>>

-----------------------------------------------------------------------------
(* Cleanup: free in reverse order, then close the child.                   *)

releaseLease(c, t) ==
    /\ Idle(c)
    /\ validateLeaseLive(c, t)
    /\ validateChildLease(t.admission.child)
    /\ StartCleanup(c, t)
    /\ UNCHANGED <<vars, leases, objects, nextAllocation, backend, tickets,
                   exchanged>>

retryRecovery(c, t) ==
    /\ Idle(c)
    /\ validateRecoveryLive(c, t)
    /\ validateChildLease(t.admission.child)
    /\ StartCleanup(c, t)
    /\ UNCHANGED <<vars, leases, objects, nextAllocation, backend, tickets,
                   exchanged>>

Freeing(c) == call[c].op = "freeing"

Live(c, key) == key \in DOMAIN objects[c] /\ objects[c][key] # NoObject

\* Mutant: the whole charge of the lease is taken off for each object.
UnregisteredWhole(b, o) ==
    [b EXCEPT !.live = @ \ {o},
              !.active = IF b.live = {o} THEN NoAdmission ELSE @,
              !.used = @ - o.admission.child.claim[DeviceClass]]

\* The adapter's registry without an object.
Unregistered(b, o) ==
    [b EXCEPT !.live = @ \ {o},
              !.active = IF b.live = {o} THEN NoAdmission ELSE @,
              !.used = @ - Bytes(o)]

\* The ordinals still to be freed; object slots that are not live are passed.
ToFree(c) == {k \in 1 .. call[c].ordinal :
                Live(c, Key(call[c].ticket.admission, k))}

\* The next of them, from the last ordinal down.
NextToFree(c, k) == /\ Freeing(c)
                    /\ k \in ToFree(c) /\ \A m \in ToFree(c) : m <= k

free(c) ==
    LET a == call[c].ticket.admission
        b == backend[a.adapter]
    IN  \E k \in ToFree(c) :
          LET o == objects[c][Key(a, k)] IN
          /\ NextToFree(c, k)
          /\ o \in b.live
          /\ backend' = [backend EXCEPT ![a.adapter] = Unregistered(b, o)]
          /\ objects' = [objects EXCEPT ![c][Key(a, k)] = NoObject]
          /\ call' = [call EXCEPT ![c].ordinal = k - 1]
          /\ UNCHANGED <<vars, leases, nextAllocation, tickets, exchanged>>

\* The adapter may fail to free; the object stays and is kept.
freeFails(c) ==
    \E k \in ToFree(c) :
      /\ NextToFree(c, k)
      /\ call' = [call EXCEPT ![c].ordinal = k - 1, ![c].failed = TRUE]
      /\ UNCHANGED <<vars, leases, objects, nextAllocation, backend, tickets,
                     exchanged>>

\* Every ordinal has been tried.
Tried(c) == Freeing(c) /\ ToFree(c) = {}

\* A free failed, or an object slot of the lease was not found.
FreeFailed(c) ==
    \/ call[c].failed
    \/ ~(Keys(call[c].ticket.admission) \subseteq DOMAIN objects[c])

\* Mutant: a failed free does not keep the charge.
closeAlways(c) ==
    LET t == call[c].ticket IN
    /\ Tried(c)
    /\ closeChild(t.admission.child)
    /\ clearCoordinatorSlot(c, t.admission)
    /\ call' = [call EXCEPT ![c] = IdleCall]
    /\ Answer(t, {})
    /\ UNCHANGED <<nextAllocation, backend>>

\* Everything was freed: the charge goes back and the slot is cleared.
close(c) ==
    LET t == call[c].ticket IN
    /\ Tried(c) /\ ~FreeFailed(c)
    /\ closeChild(t.admission.child)
    /\ clearCoordinatorSlot(c, t.admission)
    /\ call' = [call EXCEPT ![c] = IdleCall]
    /\ Answer(t, {})
    /\ UNCHANGED <<nextAllocation, backend>>

nextRecoveryGeneration(g) == IF g = MaxRecoveryGeneration THEN g ELSE g + 1

\* The Bank closes a child only when no session is bound to its parent.
CanClose(t) == /\ validateChildLease(t)
               /\ slots[t.parent.slot].sessionId = 0
               /\ slots[t.parent.slot].publication = "idle"
               /\ claimWithin(t.claim, used)

\* An object is left or the Bank keeps the child: the charge stays.
recover(c) ==
    LET t == call[c].ticket
        a == t.admission
        s == leases[c][a.slot]
        g == nextRecoveryGeneration(s.recoveryGeneration)
    IN  /\ Tried(c)
        /\ FreeFailed(c) \/ ~CanClose(a.child)
        /\ leases' = [leases EXCEPT ![c][a.slot].state = "recovery_required",
                                    ![c][a.slot].recoveryGeneration = g]
        /\ call' = [call EXCEPT ![c] = IdleCall]
        /\ Answer(t, {RecoveryTicket(a, g, Outstanding(c, a))})
        /\ UNCHANGED <<vars, objects, nextAllocation, backend>>

-----------------------------------------------------------------------------
Occupied(c) == {i \in LeaseSlots : leases[c][i].state # "free"}

\* The other clients of the Bank.  A coordinator gives nobody the handle of
\* its child, so they cannot resize or close it.
BankStep ==
    /\ Next
    /\ \A c \in Coordinators : \A i \in Occupied(c) :
          LET j == leases[c][i].admission.child.parent.slot
          IN  children'[j] = children[j]
    /\ UNCHANGED deviceVars

DeviceInit ==
    /\ Init
    /\ leases = [c \in Coordinators |-> [i \in LeaseSlots |-> FreeLease]]
    /\ objects = [c \in Coordinators |-> << >>]
    /\ nextAllocation = [c \in Coordinators |-> 1]
    /\ call = [c \in Coordinators |-> IdleCall]
    /\ backend = [a \in Adapters |-> EmptyBackend]
    /\ tickets = {} /\ exchanged = {}

MethodStep(c) ==
    \/ \E a \in Adapters, parent \in Receipts, sizes \in Manifests :
          admit(c, a, parent, sizes)
    \/ \E t \in tickets : \/ cancelAdmission(c, t) \/ materialize(c, t)
                          \/ releaseLease(c, t) \/ retryRecovery(c, t)

CallStep(c) == \/ cancelled(c) \/ allocate(c) \/ allocationFails(c)
               \/ materialized(c)
               \/ free(c) \/ freeFails(c) \/ close(c) \/ recover(c)

DeviceNext == \/ BankStep
              \/ \E c \in Coordinators : MethodStep(c) \/ CallStep(c)

DeviceSpec == DeviceInit /\ [][DeviceNext]_everyVar

-----------------------------------------------------------------------------
(* Properties.                                                             *)

\* Every variable holds a value of its declared shape: what an adapter has
\* in use never falls below zero, and generations are numbers.
DeviceTypeOK ==
    /\ TypeOK
    /\ leases \in [Coordinators -> [LeaseSlots -> LeaseSlot]]
    /\ DOMAIN objects = Coordinators
    /\ \A c \in Coordinators :
          /\ DOMAIN objects[c] \subseteq LeaseSlots \X Nat \X Nat
          /\ \A key \in DOMAIN objects[c] : objects[c][key] \in Object
    /\ nextAllocation \in [Coordinators -> Nat]
    /\ call \in [Coordinators -> Call]
    /\ backend \in [Adapters -> Backend]
    /\ tickets \subseteq Ticket
    /\ exchanged \subseteq tickets

\* The objects that coordinator c remembers on adapter a.
ObjectsOn(c, a) ==
    UNION {Outstanding(c, leases[c][i].admission) :
              i \in {j \in Occupied(c) : leases[c][j].admission.adapter = a}}

\* No device object is lost and none is freed twice.  The objects live in
\* an adapter are exactly those that the coordinators remember for it; a
\* coordinator's object slots are exactly those of its occupied slots, so a
\* lookup by (slot, generation, ordinal) never fails; an admission has no
\* object unless it is being materialized, which is why cancelAdmission frees
\* none, and a lease has them all.  An adapter serves one admission at a time,
\* "including when multiple coordinators share the same adapter".
ObjectsAccounted ==
    /\ \A a \in Adapters :
          backend[a].live = UNION {ObjectsOn(c, a) : c \in Coordinators}
    /\ \A a \in Adapters : \A o \in backend[a].live :
          o.admission = backend[a].active
    /\ \A c \in Coordinators :
          DOMAIN objects[c] =
             UNION {Keys(leases[c][i].admission) : i \in Occupied(c)}
    /\ \A c \in Coordinators : \A i \in Occupied(c) :
          Idle(c) =>
            /\ leases[c][i].state = "admitted" =>
                  Outstanding(c, leases[c][i].admission) = {}
            /\ leases[c][i].state = "live" =>
                  \A key \in Keys(leases[c][i].admission) : Live(c, key)

\* The charge comes before the first object and outlives the last: while a
\* slot is occupied, recovery included, its exact child is open in the Bank
\* with the whole charge, an adapter's bytes in use are those of its live
\* objects, and all of them together are within what the Bank has charged.
BytesCovered ==
    /\ \A c \in Coordinators : \A i \in Occupied(c) :
          LET a == leases[c][i].admission
          IN  /\ validateChildLease(a.child)
              /\ a.child.claim = DeviceClaim(a.sizes)
    /\ \A a \in Adapters :
          backend[a].used =
             SumFunctionOnSet([o \in backend[a].live |-> Bytes(o)],
                              backend[a].live)
    /\ SumFunctionOnSet([a \in Adapters |-> backend[a].used], Adapters)
          <= used[DeviceClass]

\* A coordinator that is not in the middle of a call accepts exactly the
\* tickets that have not been exchanged: "copied recovery tickets and copied
\* live leases fail after the state transition", whatever its slot was reused
\* for, and the charge of an occupied slot can always be given back by the
\* holder of its ticket.
TicketsExact ==
    /\ \A c \in Coordinators : \A t \in tickets :
          Idle(c) /\ t.admission.coordinator = c =>
             (Accepts(c, t) <=> t \notin exchanged)
    /\ \A c \in Coordinators : \A i \in Occupied(c) :
          \E t \in tickets \ exchanged :
             t.admission = leases[c][i].admission
=============================================================================
