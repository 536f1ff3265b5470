----------------------- MODULE DeviceAllocationProofs -----------------------
(***************************************************************************)
(* Proofs about DeviceAllocation, for any number of coordinators, slots,   *)
(* adapters and objects.  The inductive invariant is stated slot by slot   *)
(* and adapter by adapter: a step of a coordinator is at work in one slot  *)
(* of its own and on one adapter, and one frame lemma disposes of all the  *)
(* others.                                                                 *)
(***************************************************************************)
EXTENDS DeviceAllocation, ResourceBankProofs

-----------------------------------------------------------------------------
(* The inductive invariant.                                                *)

\* The admission in a slot of a coordinator, and whether there is one.
Adm(c, i) == leases[c][i].admission
Taken(c, i) == leases[c][i].state # "free"

\* What the coordinator remembers of ordinal k of an admission.
At(c, a, k) == objects[c][Key(a, k)]

\* A method is in the middle of the lease in slot i.
Busy(c, i) == ~Idle(c) /\ call[c].ticket.admission = Adm(c, i)

Names(t, c, i) == t.admission.coordinator = c /\ t.admission.slot = i

\* A slot is empty, or holds an admission of its coordinator.
SlotShaped(c, i) ==
    /\ ~Taken(c, i) => leases[c][i] = FreeLease
    /\ Taken(c, i) =>
          /\ Adm(c, i).coordinator = c /\ Adm(c, i).slot = i
          /\ Adm(c, i).generation < nextAllocation[c]
          /\ Adm(c, i).adapter \in Adapters
          /\ Adm(c, i).child.claim = DeviceClaim(Adm(c, i).sizes)

\* The object slots of a slot are those of its admission, and remember
\* nothing else.
SlotObjects(c, i) ==
    /\ \A g, k : <<i, g, k>> \in DOMAIN objects[c] =>
          Taken(c, i) /\ <<i, g, k>> \in Keys(Adm(c, i))
    /\ Taken(c, i) => \A k \in DOMAIN Adm(c, i).sizes :
          LET o == At(c, Adm(c, i), k)
          IN  /\ Key(Adm(c, i), k) \in DOMAIN objects[c]
              /\ o # NoObject => o.admission = Adm(c, i) /\ o.ordinal = k

\* Between calls an admission has no object and a lease has them all.
SlotResting(c, i) ==
    ~Busy(c, i) => \A k \in DOMAIN Adm(c, i).sizes :
        /\ leases[c][i].state = "admitted" => At(c, Adm(c, i), k) = NoObject
        /\ leases[c][i].state = "live" => At(c, Adm(c, i), k) # NoObject

\* A ticket is older than the next admission.  Before it is live a lease has
\* no ticket but its admission, before its first recovery none of that kind.
TicketPast(t, c, i) ==
    /\ t.admission.generation < nextAllocation[c]
    /\ t.admission = Adm(c, i) =>
          /\ leases[c][i].state = "admitted" => t.kind = "admission"
          /\ leases[c][i].state = "live" => t.kind # "recovery"

KindOf(state) == CASE state = "admitted" -> "admission"
                   [] state = "live" -> "lease"
                   [] state = "recovery_required" -> "recovery"
                   [] OTHER -> "none"

\* A valid ticket is of the kind its slot expects; a recovery ticket is of the
\* last cleanup, and what it lists can only have become less.
TicketValid(t, c, i) ==
    /\ t.admission = Adm(c, i)
    /\ t.kind = KindOf(leases[c][i].state)
    /\ t.kind = "recovery" =>
          /\ t.recoveryGeneration = leases[c][i].recoveryGeneration
          /\ Outstanding(c, Adm(c, i)) \subseteq t.outstanding
          /\ ~Busy(c, i) => Outstanding(c, Adm(c, i)) = t.outstanding

\* A recovery ticket that was exchanged is of an earlier cleanup, or lists
\* more than is left.
TicketStale(t, c, i) ==
    t.kind = "recovery" /\ t.admission = Adm(c, i) =>
       \/ t.recoveryGeneration < leases[c][i].recoveryGeneration
       \/ /\ t.recoveryGeneration = leases[c][i].recoveryGeneration
          /\ Outstanding(c, Adm(c, i)) \subseteq t.outstanding
          /\ Outstanding(c, Adm(c, i)) # t.outstanding

SlotTickets(c, i) ==
    \A t \in tickets : Names(t, c, i) =>
        /\ TicketPast(t, c, i)
        /\ t \notin exchanged => TicketValid(t, c, i)
        /\ t \in exchanged => TicketStale(t, c, i)

\* A lease has one valid ticket.
SlotOwned(c, i) ==
    /\ Taken(c, i) => \E t \in tickets \ exchanged : t.admission = Adm(c, i)
    /\ \A t, u \in tickets \ exchanged : Names(t, c, i) /\ Names(u, c, i)
          => t = u

SlotInv(c, i) == /\ SlotShaped(c, i) /\ SlotObjects(c, i)
                 /\ SlotResting(c, i)
                 /\ SlotTickets(c, i) /\ SlotOwned(c, i)

\* How far the method in progress is.
CallInv(c) ==
    LET t == call[c].ticket
        a == t.admission
        s == leases[c][a.slot]
    IN  ~Idle(c) =>
          /\ a.coordinator = c /\ s.admission = a
          /\ t \in tickets \ exchanged
          /\ Allocating(c) =>
                /\ s.state = "admitted"
                /\ call[c].ordinal # 0
                /\ call[c].ordinal <= Len(a.sizes) + 1
                /\ \A k \in DOMAIN a.sizes :
                      At(c, a, k) # NoObject <=> k < call[c].ordinal
          /\ Freeing(c) =>
                \A k \in DOMAIN a.sizes :
                    k > call[c].ordinal /\ At(c, a, k) # NoObject =>
                        call[c].failed

OwnInv == /\ \A c \in Coordinators, i \in LeaseSlots : SlotInv(c, i)
          /\ \A c \in Coordinators : CallInv(c)
          /\ \A t \in tickets : t.admission.coordinator \in Coordinators

\* Each lease has its child open in the Bank, and no two have the same.
ChildHeld(c, i) == Taken(c, i) => /\ Adm(c, i).child \in issued
                                  /\ validateChildLease(Adm(c, i).child)

ChildSlotOf(c, i) == Adm(c, i).child.parent.slot

ChildrenApart ==
    \A c, d \in Coordinators, i, j \in LeaseSlots :
        Taken(c, i) /\ Taken(d, j) /\ ChildSlotOf(c, i) = ChildSlotOf(d, j)
            => c = d /\ i = j

ChildInv == /\ \A c \in Coordinators, i \in LeaseSlots : ChildHeld(c, i)
            /\ ChildrenApart

\* What the coordinators remember is live in the adapters.
ObjectsLive(c, i) ==
    Taken(c, i) => \A k \in DOMAIN Adm(c, i).sizes :
        At(c, Adm(c, i), k) # NoObject =>
            At(c, Adm(c, i), k) \in backend[Adm(c, i).adapter].live

\* The coordinator of a live object remembers it.
Remembered(o) ==
    LET a == o.admission
    IN  /\ a.coordinator \in Coordinators
        /\ Taken(a.coordinator, a.slot) /\ Adm(a.coordinator, a.slot) = a
        /\ o.ordinal \in DOMAIN a.sizes
        /\ At(a.coordinator, a, o.ordinal) = o

\* The bytes of the objects in S.
BytesOf(S) == Sum([o \in S |-> Bytes(o)], S)

BackendInv(x) ==
    /\ \A o \in backend[x].live : /\ o.admission = backend[x].active
                                  /\ o.admission.adapter = x
                                  /\ Remembered(o)
    /\ IsFiniteSet(backend[x].live)
    /\ backend[x].used = BytesOf(backend[x].live)

AdapterInv == /\ \A c \in Coordinators, i \in LeaseSlots : ObjectsLive(c, i)
              /\ \A x \in Adapters : BackendInv(x)

DInv == IInv /\ DeviceTypeOK /\ OwnInv /\ ChildInv /\ AdapterInv

-----------------------------------------------------------------------------
(* What a step leaves alone.                                               *)

\* The keys of different objects are different.
LEMMA KeysApart ==
    \A a, b, k, m : Key(a, k) = Key(b, m) <=>
        a.slot = b.slot /\ a.generation = b.generation /\ k = m
BY DEF Key

\* The ordinals of an admission are numbers, and its sizes too.
LEMMA AdmissionTypes ==
    ASSUME NEW a \in Admission
    PROVE  /\ DOMAIN a.sizes = 1 .. Len(a.sizes)
           /\ Len(a.sizes) \in Nat
           /\ \A k \in DOMAIN a.sizes : k \in Nat /\ a.sizes[k] \in Nat
           /\ a.slot \in LeaseSlots /\ a.generation \in Nat
           /\ a.adapter \in Nat /\ a.child \in ChildLease
BY DEF Admission

\* The records of the coordinators are well typed.
LEMMA LeaseTypes ==
    ASSUME DeviceTypeOK, NEW c \in Coordinators
    PROVE  /\ \A i \in LeaseSlots : leases[c][i] \in LeaseSlot
           /\ \A i \in LeaseSlots : Adm(c, i) \in Admission
           /\ nextAllocation[c] \in Nat
           /\ call[c] \in Call
           /\ call[c].ticket \in Ticket
           /\ call[c].ticket.admission \in Admission
           /\ call[c].ordinal \in Nat
<1>1. \A i \in LeaseSlots : leases[c][i] \in LeaseSlot
  BY DEF DeviceTypeOK
<1>2. \A i \in LeaseSlots : Adm(c, i) \in Admission
  BY <1>1 DEF LeaseSlot, Adm
<1>3. call[c] \in Call
  BY DEF DeviceTypeOK
<1>4. call[c].ticket \in Ticket /\ call[c].ordinal \in Nat
  BY <1>3 DEF Call
<1>5. call[c].ticket.admission \in Admission
  BY <1>4 DEF Ticket
<1>6. nextAllocation[c] \in Nat
  BY DEF DeviceTypeOK
<1> QED BY <1>1, <1>2, <1>3, <1>4, <1>5, <1>6

\* Tickets name a slot.
LEMMA TicketTypes ==
    ASSUME DeviceTypeOK
    PROVE  \A t \in tickets : /\ t \in Ticket
                              /\ t.admission \in Admission
                              /\ t.admission.slot \in LeaseSlots
<1> SUFFICES ASSUME NEW t \in tickets
             PROVE  /\ t \in Ticket
                    /\ t.admission \in Admission
                    /\ t.admission.slot \in LeaseSlots
  OBVIOUS
<1>1. t \in Ticket
  BY DEF DeviceTypeOK
<1>2. t.admission \in Admission
  BY <1>1 DEF Ticket
<1> QED BY <1>1, <1>2, AdmissionTypes

\* The admission of an empty slot is well typed.
LEMMA NoAdmissionTyped == NoAdmission \in Admission
<1>1. ZeroClaim \in Claim
  BY ZeroClaimType
<1>2. 0 \in Slots /\ 0 \in LeaseSlots
  BY BankAssumption, DeviceAssumption DEF Slots, LeaseSlots
<1> QED BY <1>1, <1>2, HandleTypes DEF NoAdmission, Admission

\* The admission of an empty slot is nobody's.
LEMMA NoAdmissionFacts ==
    /\ NoAdmission.coordinator \notin Coordinators
    /\ NoAdmission.sizes = << >> /\ Keys(NoAdmission) = {}
    /\ FreeLease.admission = NoAdmission /\ FreeLease.state = "free"
    /\ NoObject.admission = NoAdmission
<1>1. /\ NoAdmission.coordinator = NoCoordinator
      /\ NoAdmission.sizes = << >>
  BY DEF NoAdmission
<1>2. FreeLease.admission = NoAdmission /\ FreeLease.state = "free"
  BY DEF FreeLease
<1>3. NoObject.admission = NoAdmission
  BY DEF NoObject
<1> QED BY <1>1, <1>2, <1>3, DeviceAssumption DEF Keys

\* Slot i of coordinator c and all that belongs to it stays as it is, but
\* for the ordinals that a method is at.
SlotSame(c, i) ==
    /\ leases'[c][i] = leases[c][i]
    /\ \A g, k : /\ <<i, g, k>> \in DOMAIN objects'[c]
                      <=> <<i, g, k>> \in DOMAIN objects[c]
                 /\ <<i, g, k>> \in DOMAIN objects[c] =>
                      objects'[c][<<i, g, k>>] = objects[c][<<i, g, k>>]
    /\ Busy(c, i) => Busy(c, i)'
    /\ \A t : Names(t, c, i) => /\ t \in tickets' <=> t \in tickets
                                /\ t \in exchanged' <=> t \in exchanged

\* What is remembered of an admission whose slot stays.
LEMMA SameObjects ==
    ASSUME NEW c \in Coordinators, NEW i \in LeaseSlots, SlotSame(c, i),
           NEW a, a.slot = i
    PROVE  /\ \A k : Key(a, k) \in DOMAIN objects'[c]
                       <=> Key(a, k) \in DOMAIN objects[c]
           /\ \A k : Key(a, k) \in DOMAIN objects[c] =>
                       At(c, a, k)' = At(c, a, k)
           /\ Outstanding(c, a)' = Outstanding(c, a)
<1>1. \A k : Key(a, k) \in DOMAIN objects'[c]
               <=> Key(a, k) \in DOMAIN objects[c]
  BY DEF SlotSame, Key
<1>2. \A k : Key(a, k) \in DOMAIN objects[c] =>
               objects'[c][Key(a, k)] = objects[c][Key(a, k)]
  BY DEF SlotSame, Key
<1>3. \A key \in Keys(a) : /\ key \in DOMAIN objects'[c]
                                <=> key \in DOMAIN objects[c]
                           /\ key \in DOMAIN objects[c] =>
                                objects'[c][key] = objects[c][key]
  BY <1>1, <1>2 DEF Keys
<1>4. Outstanding(c, a)' = Outstanding(c, a)
  BY <1>3 DEF Outstanding
<1> QED BY <1>1, <1>2, <1>4 DEF At

\* The invariant of a slot that stays.
LEMMA SlotFrame ==
    ASSUME DeviceTypeOK, DeviceTypeOK',
           NEW c \in Coordinators, NEW i \in LeaseSlots, SlotInv(c, i),
           SlotSame(c, i), nextAllocation[c] <= nextAllocation'[c]
    PROVE  SlotInv(c, i)'
<1>a. /\ nextAllocation[c] \in Nat /\ nextAllocation'[c] \in Nat
      /\ Adm(c, i) \in Admission
  BY LeaseTypes DEF DeviceTypeOK
<1>b. /\ leases'[c][i] = leases[c][i]
      /\ Adm(c, i)' = Adm(c, i) /\ Taken(c, i)' = Taken(c, i)
  BY DEF SlotSame, Adm, Taken
<1>c. Taken(c, i) => Adm(c, i).slot = i
  BY DEF SlotInv, SlotShaped
<1>d. ~Taken(c, i) => /\ Adm(c, i).sizes = << >>
                      /\ leases[c][i].state = "free"
                      /\ Keys(Adm(c, i)) = {}
  BY NoAdmissionFacts DEF SlotInv, SlotShaped, Taken, Adm
<1>z. PICK a : a = Adm(c, i)
  OBVIOUS
<1>e. \A k \in DOMAIN a.sizes :
         Taken(c, i) => /\ At(c, a, k)' = At(c, a, k)
                        /\ Key(a, k) \in DOMAIN objects'[c]
  BY <1>c, <1>z, SameObjects DEF SlotInv, SlotObjects
<1>f. Outstanding(c, a)' = Outstanding(c, a)
  <2>1. CASE Taken(c, i)
    BY <2>1, <1>c, <1>z, SameObjects
  <2>2. CASE ~Taken(c, i)
    BY <2>2, <1>d, <1>z DEF Outstanding
  <2> QED BY <2>1, <2>2
<1>g. Adm(c, i)' = a
  BY <1>b, <1>z
<1>1. SlotShaped(c, i)'
  BY <1>a, <1>b, AdmissionTypes DEF SlotInv, SlotShaped
<1>2. SlotObjects(c, i)'
  <2>1. \A g, k : <<i, g, k>> \in DOMAIN objects'[c] =>
          Taken(c, i) /\ <<i, g, k>> \in Keys(Adm(c, i))
    BY DEF SlotSame, SlotInv, SlotObjects
  <2> QED BY <2>1, <1>b, <1>e, <1>g, <1>z DEF SlotInv, SlotObjects, At
<1>3. SlotResting(c, i)'
  <2>1. ~Busy(c, i)' => ~Busy(c, i)
    BY DEF SlotSame
  <2> QED
    BY <2>1, <1>b, <1>d, <1>e, <1>g, <1>z DEF SlotInv, SlotResting, Taken, At
<1>4. SlotTickets(c, i)'
  <2> SUFFICES ASSUME NEW t \in tickets', Names(t, c, i)
               PROVE  /\ TicketPast(t, c, i)'
                      /\ t \notin exchanged' => TicketValid(t, c, i)'
                      /\ t \in exchanged' => TicketStale(t, c, i)'
    BY DEF SlotTickets, Names
  <2>1. t \in tickets /\ (t \in exchanged' <=> t \in exchanged)
    BY DEF SlotSame
  <2>2. t.admission.generation \in Nat
    BY <2>1, TicketTypes, AdmissionTypes
  <2>3. TicketPast(t, c, i)'
    BY <2>1, <2>2, <1>a, <1>b DEF SlotInv, SlotTickets, TicketPast
  <2>4. t \notin exchanged => TicketValid(t, c, i)'
    <3>1. ~Busy(c, i)' => ~Busy(c, i)
      BY DEF SlotSame
    <3> QED
      BY <2>1, <3>1, <1>b, <1>f, <1>g, <1>z DEF SlotInv, SlotTickets, TicketValid
  <2>5. t \in exchanged => TicketStale(t, c, i)'
    BY <2>1, <1>b, <1>f, <1>g, <1>z DEF SlotInv, SlotTickets, TicketStale
  <2> QED BY <2>1, <2>3, <2>4, <2>5
<1>5. SlotOwned(c, i)'
  <2>2. \A t : t.admission = Adm(c, i) /\ Taken(c, i) => Names(t, c, i)
    BY DEF SlotInv, SlotShaped, Names
  <2>3. \A t : Names(t, c, i) => (t \in tickets' \ exchanged'
                                   <=> t \in tickets \ exchanged)
    BY DEF SlotSame
  <2> QED BY <2>2, <2>3, <1>b DEF SlotInv, SlotOwned, Names
<1> QED BY <1>1, <1>2, <1>3, <1>4, <1>5 DEF SlotInv

\* The invariant of a method that is not at work.
LEMMA CallFrame ==
    ASSUME DeviceTypeOK, NEW c \in Coordinators, CallInv(c),
           call'[c] = call[c],
           \A i \in LeaseSlots : SlotInv(c, i) /\ SlotSame(c, i)
    PROVE  CallInv(c)'
<1> SUFFICES ASSUME ~Idle(c) PROVE CallInv(c)'
  BY DEF CallInv, Idle
<1> DEFINE t == call[c].ticket
           a == t.admission
           i == a.slot
<1>1. a \in Admission /\ i \in LeaseSlots
  BY LeaseTypes, AdmissionTypes
<1>2. a.coordinator = c /\ Adm(c, i) = a /\ t \in tickets \ exchanged
  BY DEF CallInv, Adm
<1>3. Taken(c, i)
  BY <1>1, <1>2, NoAdmissionFacts DEF SlotInv, SlotShaped, Adm
<1>4. \A k \in DOMAIN a.sizes : At(c, a, k)' = At(c, a, k)
  <2>1. \A k \in DOMAIN a.sizes : Key(a, k) \in DOMAIN objects[c]
    BY <1>1, <1>2, <1>3 DEF SlotInv, SlotObjects
  <2>2. PICK b : b = a
    OBVIOUS
  <2>3. \A k \in DOMAIN b.sizes : At(c, b, k)' = At(c, b, k)
    BY <1>1, <2>1, <2>2, SameObjects
  <2> QED BY <2>2, <2>3 DEF At
<1>5. t \in tickets' \ exchanged'
  BY <1>1, <1>2 DEF SlotSame, Names
<1>6. leases'[c][i] = leases[c][i]
  BY <1>1 DEF SlotSame
<1> QED
  BY <1>2, <1>4, <1>5, <1>6 DEF CallInv, Idle, Allocating, Freeing, At

\* A step of coordinator c at its slot i.
StepAt(c, i) ==
    /\ \A d \in Coordinators, j \in LeaseSlots :
          d # c \/ j # i => SlotSame(d, j)
    /\ \A d \in Coordinators : nextAllocation[d] <= nextAllocation'[d]
    /\ \A d \in Coordinators : d # c => call'[d] = call[d]

\* Only the slot at work and its method need to be looked at.
LEMMA OwnStep ==
    ASSUME DeviceTypeOK, DeviceTypeOK', OwnInv,
           NEW c \in Coordinators, NEW i \in LeaseSlots, StepAt(c, i),
           SlotInv(c, i)', CallInv(c)',
           \A t \in tickets' : t \in tickets
                               \/ t.admission.coordinator \in Coordinators
    PROVE  OwnInv'
<1>1. ASSUME NEW d \in Coordinators, NEW j \in LeaseSlots
      PROVE  SlotInv(d, j)'
  <2>1. CASE d = c /\ j = i
    BY <2>1
  <2>2. CASE d # c \/ j # i
    BY <2>2, SlotFrame DEF OwnInv, StepAt
  <2> QED BY <2>1, <2>2
<1>2. ASSUME NEW d \in Coordinators PROVE CallInv(d)'
  <2>1. CASE d = c
    BY <2>1
  <2>2. CASE d # c
    BY <2>2, CallFrame DEF OwnInv, StepAt
  <2> QED BY <2>1, <2>2
<1> QED BY <1>1, <1>2 DEF OwnInv

\* A method is at work in one slot.
LEMMA InCall ==
    ASSUME DeviceTypeOK, OwnInv, NEW c \in Coordinators, ~Idle(c),
           NEW a, a = call[c].ticket.admission
    PROVE  /\ a \in Admission /\ a.slot \in LeaseSlots
           /\ Adm(c, a.slot) = a /\ Taken(c, a.slot)
           /\ a.coordinator = c /\ a.adapter \in Adapters
           /\ call[c].ticket \in tickets \ exchanged
           /\ Busy(c, a.slot)
           /\ \A j \in LeaseSlots \ {a.slot} : ~Busy(c, j)
           /\ \A k \in DOMAIN a.sizes : Key(a, k) \in DOMAIN objects[c]
           /\ SlotInv(c, a.slot) /\ CallInv(c)
<1>1. a \in Admission /\ a.slot \in LeaseSlots
  BY LeaseTypes, AdmissionTypes
<1>2. SlotInv(c, a.slot) /\ CallInv(c)
  BY <1>1 DEF OwnInv
<1>3. /\ a.coordinator = c /\ Adm(c, a.slot) = a
      /\ call[c].ticket \in tickets \ exchanged
  BY <1>2 DEF CallInv, Adm
<1>4. Taken(c, a.slot)
  BY <1>2, <1>3, NoAdmissionFacts DEF SlotInv, SlotShaped, Adm
<1>5. /\ a.adapter \in Adapters
      /\ \A k \in DOMAIN a.sizes : Key(a, k) \in DOMAIN objects[c]
  BY <1>2, <1>3, <1>4 DEF SlotInv, SlotShaped, SlotObjects
<1>6. Busy(c, a.slot)
  BY <1>3 DEF Busy
<1>7. ASSUME NEW j \in LeaseSlots, Busy(c, j) PROVE j = a.slot
  <2>1. Adm(c, j) = a
    BY <1>7 DEF Busy
  <2>2. SlotShaped(c, j)
    BY DEF OwnInv, SlotInv
  <2>3. Taken(c, j)
    BY <2>1, <2>2, <1>3, NoAdmissionFacts DEF SlotShaped, Adm
  <2> QED BY <2>1, <2>2, <2>3 DEF SlotShaped
<1> QED BY <1>1, <1>2, <1>3, <1>4, <1>5, <1>6, <1>7

\* The slot that an accepted ticket names.
LEMMA Presented ==
    ASSUME DeviceTypeOK, OwnInv, NEW c \in Coordinators, NEW t \in tickets,
           Accepts(c, t), NEW a, a = t.admission
    PROVE  /\ t \in Ticket /\ a \in Admission /\ a.slot \in LeaseSlots
           /\ Adm(c, a.slot) = a /\ Taken(c, a.slot)
           /\ a.coordinator = c /\ a.adapter \in Adapters
           /\ \A k \in DOMAIN a.sizes : Key(a, k) \in DOMAIN objects[c]
           /\ SlotInv(c, a.slot) /\ Names(t, c, a.slot)
<1>1. t \in Ticket /\ a \in Admission /\ a.slot \in LeaseSlots
  BY TicketTypes
<1>2. a.coordinator = c /\ Adm(c, a.slot) = a
  BY DEF Accepts, validateAdmissionLive, validateLeaseLive,
         validateRecoveryLive, Current, Adm
<1>3. SlotInv(c, a.slot)
  BY <1>1 DEF OwnInv
<1>4. Taken(c, a.slot)
  BY <1>2, <1>3, NoAdmissionFacts DEF SlotInv, SlotShaped, Adm
<1>5. /\ a.adapter \in Adapters
      /\ \A k \in DOMAIN a.sizes : Key(a, k) \in DOMAIN objects[c]
  BY <1>2, <1>3, <1>4 DEF SlotInv, SlotShaped, SlotObjects
<1> QED BY <1>1, <1>2, <1>3, <1>4, <1>5 DEF Names

\* Accepted tickets are valid ones when no method is in progress.
LEMMA AcceptedValid ==
    ASSUME DeviceTypeOK, OwnInv, NEW c \in Coordinators, NEW t \in tickets,
           Accepts(c, t)
    PROVE  t \notin exchanged
<1> SUFFICES ASSUME t \in exchanged PROVE FALSE
  OBVIOUS
<1>a. PICK a : a = t.admission
  OBVIOUS
<1>1. /\ t \in Ticket /\ a \in Admission /\ a.slot \in LeaseSlots
      /\ Adm(c, a.slot) = a /\ Taken(c, a.slot)
      /\ SlotInv(c, a.slot) /\ Names(t, c, a.slot)
  BY <1>a, Presented
<1>2. PICK u \in tickets \ exchanged : u.admission = a
  BY <1>1 DEF SlotInv, SlotOwned
<1>3. u \in Ticket /\ TicketValid(u, c, a.slot)
  BY <1>1, <1>2, <1>a, TicketTypes DEF SlotInv, SlotTickets, Names
<1>4. TicketPast(t, c, a.slot) /\ TicketStale(t, c, a.slot)
  BY <1>1 DEF SlotInv, SlotTickets
<1>5. CASE validateAdmissionLive(c, t)
  <2>1. u.kind = "admission" /\ t.kind = "admission"
    BY <1>a, <1>3, <1>5 DEF TicketValid, KindOf, validateAdmissionLive
  <2>2. u = t
    BY <1>1, <1>2, <1>3, <1>a, <2>1 DEF Ticket
  <2> QED BY <1>2, <2>2
<1>6. CASE validateLeaseLive(c, t)
  <2>1. u.kind = "lease" /\ t.kind = "lease"
    BY <1>a, <1>3, <1>6 DEF TicketValid, KindOf, validateLeaseLive
  <2>2. u = t
    BY <1>1, <1>2, <1>3, <1>a, <2>1 DEF Ticket
  <2> QED BY <1>2, <2>2
<1>7. CASE validateRecoveryLive(c, t)
  <2>1. /\ leases[c][a.slot].recoveryGeneration = t.recoveryGeneration
        /\ Outstanding(c, a) = t.outstanding /\ t.kind = "recovery"
    BY <1>a, <1>7 DEF validateRecoveryLive
  <2>2. leases[c][a.slot].recoveryGeneration \in Nat
    BY <1>1, LeaseTypes DEF LeaseSlot
  <2> QED BY <1>1, <1>4, <1>a, <2>1, <2>2 DEF TicketStale
<1> QED BY <1>5, <1>6, <1>7 DEF Accepts

\* How a step of coordinator c at slot i is recognized.
LEMMA AtOneSlot ==
    ASSUME NEW c \in Coordinators, NEW i \in LeaseSlots,
           \A d \in Coordinators, j \in LeaseSlots :
              d # c \/ j # i => leases'[d][j] = leases[d][j],
           \A d \in Coordinators : d # c => /\ objects'[d] = objects[d]
                                            /\ call'[d] = call[d],
           \A j, g, k : j # i =>
              /\ <<j, g, k>> \in DOMAIN objects'[c]
                    <=> <<j, g, k>> \in DOMAIN objects[c]
              /\ <<j, g, k>> \in DOMAIN objects[c] =>
                    objects'[c][<<j, g, k>>] = objects[c][<<j, g, k>>],
           \A j \in LeaseSlots \ {i} : ~Busy(c, j),
           \A t : ~Names(t, c, i) => /\ t \in tickets' <=> t \in tickets
                                     /\ t \in exchanged' <=> t \in exchanged,
           \A d \in Coordinators : nextAllocation[d] <= nextAllocation'[d]
    PROVE  StepAt(c, i)
<1> SUFFICES ASSUME NEW d \in Coordinators, NEW j \in LeaseSlots,
                    d # c \/ j # i
             PROVE  SlotSame(d, j)
  BY DEF StepAt
<1>1. \A t : Names(t, d, j) => ~Names(t, c, i)
  BY DEF Names
<1>2. Busy(d, j) => Busy(d, j)'
  <2>1. CASE d = c
    BY <2>1
  <2>2. CASE d # c
    BY <2>2 DEF Busy, Idle, Adm
  <2> QED BY <2>1, <2>2
<1>3. \A g, k : /\ <<j, g, k>> \in DOMAIN objects'[d]
                      <=> <<j, g, k>> \in DOMAIN objects[d]
                /\ <<j, g, k>> \in DOMAIN objects[d] =>
                      objects'[d][<<j, g, k>>] = objects[d][<<j, g, k>>]
  <2>1. CASE d = c
    BY <2>1
  <2>2. CASE d # c
    BY <2>2
  <2> QED BY <2>1, <2>2
<1> QED BY <1>1, <1>2, <1>3 DEF SlotSame

\* As long as the admissions stay in their slots, so do their children.
LEMMA ChildrenStay ==
    ASSUME ChildInv, UNCHANGED vars,
           \A d \in Coordinators, j \in LeaseSlots :
              Taken(d, j)' = Taken(d, j) /\ Adm(d, j)' = Adm(d, j)
    PROVE  ChildInv'
<1>1. \A t : validateChildLease(t)' = validateChildLease(t)
  BY DEF validateChildLease, validateReceipt, vars
<1>2. \A d \in Coordinators, j \in LeaseSlots : ChildHeld(d, j)'
  BY <1>1 DEF ChildInv, ChildHeld, vars
<1>3. ChildrenApart'
  BY DEF ChildInv, ChildrenApart, ChildSlotOf
<1> QED BY <1>2, <1>3 DEF ChildInv

\* Nothing happens to the objects.
LEMMA ObjectsStay ==
    ASSUME DeviceTypeOK, AdapterInv, UNCHANGED <<objects, backend>>,
           \A d \in Coordinators, j \in LeaseSlots :
              Taken(d, j)' = Taken(d, j) /\ Adm(d, j)' = Adm(d, j)
    PROVE  AdapterInv'
<1>1. ASSUME NEW d \in Coordinators, NEW j \in LeaseSlots
      PROVE  ObjectsLive(d, j)'
  BY DEF AdapterInv, ObjectsLive, At
<1>2. ASSUME NEW x \in Adapters PROVE BackendInv(x)'
  <2>1. ASSUME NEW o \in backend[x].live
        PROVE  Remembered(o)'
    <3>1. Remembered(o) /\ o \in Object
      BY DEF AdapterInv, BackendInv, DeviceTypeOK, Backend
    <3>2. o.admission.slot \in LeaseSlots
      BY <3>1 DEF Object, Admission
    <3> QED BY <3>1, <3>2 DEF Remembered, At
  <2> QED BY <2>1 DEF AdapterInv, BackendInv, BytesOf
<1> QED BY <1>1, <1>2 DEF AdapterInv

\* A step in which a method starts, or goes on without any effect outside.
LEMMA OnlyCall ==
    ASSUME DInv, NEW c \in Coordinators, NEW q \in Call,
           UNCHANGED <<vars, leases, objects, nextAllocation, backend,
                       tickets, exchanged>>,
           call' = [call EXCEPT ![c] = q], q.op # "idle",
           Idle(c) \/ q.ticket.admission = call[c].ticket.admission,
           CallInv(c)'
    PROVE  DInv'
<1>1. /\ call'[c] = q
      /\ \A d \in Coordinators : d # c => call'[d] = call[d]
      /\ DeviceTypeOK'
  BY DEF DInv, DeviceTypeOK, TypeOK, vars
<1>2. ~Idle(c)'
  BY <1>1 DEF Idle
<1>3. \A d \in Coordinators, j \in LeaseSlots : SlotSame(d, j)
  <2>1. \A d \in Coordinators, j \in LeaseSlots : Busy(d, j) => Busy(d, j)'
    BY <1>1, <1>2 DEF Busy, Idle, Adm
  <2> QED BY <2>1 DEF SlotSame
<1>4. \A d \in Coordinators : nextAllocation[d] <= nextAllocation'[d]
  BY LeaseTypes DEF DInv
<1>5. ASSUME NEW d \in Coordinators, NEW j \in LeaseSlots
      PROVE  SlotInv(d, j)'
  BY <1>1, <1>3, <1>4, SlotFrame DEF DInv, OwnInv
<1>6. ASSUME NEW d \in Coordinators PROVE CallInv(d)'
  <2>1. CASE d = c
    BY <2>1
  <2>2. CASE d # c
    BY <2>2, <1>1, <1>3, CallFrame DEF DInv, OwnInv
  <2> QED BY <2>1, <2>2
<1>7. OwnInv'
  BY <1>5, <1>6 DEF OwnInv, DInv
<1>8. ChildInv' /\ AdapterInv'
  BY ChildrenStay, ObjectsStay DEF DInv, Taken, Adm
<1>9. IInv'
  BY StutterInv DEF DInv
<1> QED BY <1>1, <1>7, <1>8, <1>9 DEF DInv

-----------------------------------------------------------------------------
(* Steps in which only the method in progress changes.                     *)

\* A cleanup starts at the last ordinal.
LEMMA CleanupStarts ==
    ASSUME DInv, NEW c \in Coordinators, NEW t \in tickets \ exchanged,
           t.admission.coordinator = c,
           leases[c][t.admission.slot].admission = t.admission,
           Idle(c) \/ t = call[c].ticket, StartCleanup(c, t),
           UNCHANGED <<vars, leases, objects, nextAllocation, backend,
                       tickets, exchanged>>
    PROVE  DInv'
<1>1. t \in Ticket /\ t.admission \in Admission
  BY TicketTypes DEF DInv
<1>2. PICK q : q = [op |-> "freeing", ordinal |-> Len(t.admission.sizes),
                    failed |-> FALSE, ticket |-> t]
  OBVIOUS
<1>3. q \in Call /\ q.op # "idle" /\ q.ticket = t
  BY <1>1, <1>2, AdmissionTypes DEF Call
<1>4. call' = [call EXCEPT ![c] = q] /\ call'[c] = q
  BY <1>2 DEF StartCleanup, DInv, DeviceTypeOK
<1>5. CallInv(c)'
  <2>1. \A k \in DOMAIN t.admission.sizes : ~(k > Len(t.admission.sizes))
    BY <1>1, AdmissionTypes
  <2> QED
    BY <1>2, <1>4, <2>1 DEF CallInv, Idle, Allocating, Freeing
<1> QED BY <1>3, <1>4, <1>5, OnlyCall

\* The first allocation is about to be made.
LEMMA MaterializeInv ==
    ASSUME DInv, NEW c \in Coordinators, NEW t \in tickets, materialize(c, t)
    PROVE  DInv'
<1>1. Idle(c) /\ validateAdmissionLive(c, t) /\ Accepts(c, t)
  BY DEF materialize, Accepts
<1>a. PICK a : a = t.admission
  OBVIOUS
<1>2. /\ t \in Ticket /\ a \in Admission /\ a.slot \in LeaseSlots
      /\ Adm(c, a.slot) = a /\ Taken(c, a.slot) /\ a.coordinator = c
      /\ SlotInv(c, a.slot) /\ t \notin exchanged
  BY <1>1, <1>a, Presented, AcceptedValid DEF DInv
<1>3. PICK q : q = [IdleCall EXCEPT !.op = "allocating", !.ordinal = 1,
                                    !.ticket = t]
  OBVIOUS
<1>4. /\ q \in Call /\ q.op = "allocating" /\ q.ordinal = 1
      /\ q.ticket = t
  BY <1>2, <1>3 DEF Call, IdleCall
<1>5. /\ call' = [call EXCEPT ![c] = q] /\ call'[c] = q
      /\ UNCHANGED <<vars, leases, objects, nextAllocation, backend, tickets,
                     exchanged>>
  BY <1>3 DEF materialize, DInv, DeviceTypeOK
<1>6. leases[c][a.slot].state = "admitted"
  BY <1>1, <1>a DEF validateAdmissionLive
<1>7. \A k \in DOMAIN a.sizes : At(c, a, k) = NoObject /\ ~(k < 1)
  <2>1. ~Busy(c, a.slot)
    BY <1>1 DEF Busy
  <2>2. \A k \in DOMAIN a.sizes : ~(k < 1)
    BY <1>2, AdmissionTypes
  <2> QED BY <1>2, <1>6, <2>1, <2>2 DEF SlotInv, SlotResting
<1>8. CallInv(c)'
  <2>1. 1 <= Len(a.sizes) + 1
    BY <1>2, AdmissionTypes
  <2>2. \A k \in DOMAIN a.sizes : At(c, a, k)' = NoObject
    BY <1>5, <1>7 DEF At
  <2> QED
    BY <1>2, <1>4, <1>5, <1>6, <1>7, <1>a, <2>1, <2>2
       DEF CallInv, Idle, Allocating, Freeing, Adm
<1> QED BY <1>1, <1>4, <1>5, <1>8, OnlyCall

\* Both releases start a cleanup of what they were given.
LEMMA ReleaseInv ==
    ASSUME DInv, NEW c \in Coordinators, NEW t \in tickets,
           releaseLease(c, t) \/ retryRecovery(c, t)
    PROVE  DInv'
<1>1. /\ Idle(c) /\ Accepts(c, t) /\ StartCleanup(c, t) /\ Current(c, t)
      /\ UNCHANGED <<vars, leases, objects, nextAllocation, backend, tickets,
                     exchanged>>
  BY DEF releaseLease, retryRecovery, Accepts, validateLeaseLive,
         validateRecoveryLive
<1>2. t \notin exchanged
  BY <1>1, AcceptedValid DEF DInv
<1> QED BY <1>1, <1>2, CleanupStarts DEF Current

\* A materialization that is cancelled or fails starts a cleanup of what it
\* has.
LEMMA AbandonInv ==
    ASSUME DInv, NEW c \in Coordinators, cancelled(c) \/ allocationFails(c)
    PROVE  DInv'
<1>1. /\ ~Idle(c) /\ StartCleanup(c, call[c].ticket)
      /\ UNCHANGED <<vars, leases, objects, nextAllocation, backend, tickets,
                     exchanged>>
  BY DEF cancelled, allocationFails, Allocating, Idle
<1>2. /\ call[c].ticket \in tickets \ exchanged
      /\ call[c].ticket.admission.coordinator = c
      /\ leases[c][call[c].ticket.admission.slot].admission
            = call[c].ticket.admission
  BY <1>1 DEF DInv, OwnInv, CallInv
<1> QED BY <1>1, <1>2, CleanupStarts

\* An object that could not be freed is passed, and the failure remembered.
LEMMA FreeFailsInv ==
    ASSUME DInv, NEW c \in Coordinators, freeFails(c)
    PROVE  DInv'
<1>1. PICK k \in ToFree(c) :
          /\ NextToFree(c, k)
          /\ call' = [call EXCEPT ![c].ordinal = k - 1, ![c].failed = TRUE]
          /\ UNCHANGED <<vars, leases, objects, nextAllocation, backend,
                         tickets, exchanged>>
  BY DEF freeFails
<1>2. /\ call[c] \in Call /\ call[c].ordinal \in Nat
      /\ k \in 1 .. call[c].ordinal /\ k \in Nat /\ k - 1 \in Nat
  BY LeaseTypes DEF ToFree, DInv
<1>3. PICK q : q = [call[c] EXCEPT !.ordinal = k - 1, !.failed = TRUE]
  OBVIOUS
<1>4. /\ q \in Call /\ q.op = call[c].op /\ q.ordinal = k - 1
      /\ q.failed = TRUE /\ q.ticket = call[c].ticket
  BY <1>2, <1>3 DEF Call
<1>5. call' = [call EXCEPT ![c] = q] /\ call'[c] = q
  BY <1>1, <1>3 DEF DInv, DeviceTypeOK
<1>6. Freeing(c) /\ ~Idle(c) /\ q.op = "freeing"
  BY <1>1, <1>4 DEF NextToFree, Freeing, Idle
<1>7. CallInv(c)'
  <2>1. CallInv(c)
    BY DEF DInv, OwnInv
  <2> QED
    BY <1>1, <1>4, <1>5, <1>6, <2>1 DEF CallInv, Idle, Allocating, Freeing
<1> QED BY <1>1, <1>4, <1>5, <1>6, <1>7, OnlyCall

-----------------------------------------------------------------------------
(* Methods that return a ticket.                                           *)

\* A method that returns leaves its slot in state s and hands out the ticket
\* new for its ticket t.
Returns(c, t, a, s, new) ==
    /\ leases' = [leases EXCEPT ![c][a.slot] = s]
    /\ call' = [call EXCEPT ![c] = IdleCall]
    /\ Answer(t, {new})
    /\ UNCHANGED <<vars, objects, nextAllocation, backend>>

\* What the ticket new has to be for the slot in state s.
Fresh(c, t, a, s, new) ==
    /\ s \in LeaseSlot /\ s.admission = a
    /\ s.state \in {"live", "recovery_required"}
    /\ new \in Ticket /\ new.admission = a /\ new \notin exchanged
    /\ new.kind = KindOf(s.state)
    /\ s.state = "live" =>
          /\ \A u \in tickets : u.admission = a => u.kind # "recovery"
          /\ \A k \in DOMAIN a.sizes : At(c, a, k) # NoObject
    /\ new.kind = "recovery" =>
          /\ new.recoveryGeneration = s.recoveryGeneration
          /\ new.outstanding = Outstanding(c, a)
    /\ \A u \in exchanged \union ({t} \ {new}) :
          u.kind = "recovery" /\ u.admission = a =>
             \/ u.recoveryGeneration < s.recoveryGeneration
             \/ /\ u.recoveryGeneration = s.recoveryGeneration
                /\ Outstanding(c, a) \subseteq u.outstanding
                /\ Outstanding(c, a) # u.outstanding

\* The ticket that a method returns is the valid one from then on.
LEMMA ReturnInv ==
    ASSUME DInv, NEW c \in Coordinators, ~Idle(c),
           NEW t, t = call[c].ticket, NEW a, a = t.admission,
           NEW s, NEW new, Returns(c, t, a, s, new), Fresh(c, t, a, s, new)
    PROVE  DInv'
<1> USE DEF Returns, Fresh
<1>a. PICK i \in LeaseSlots : i = a.slot
  BY InCall DEF DInv
<1>1. /\ a \in Admission /\ Adm(c, i) = a /\ Taken(c, i)
      /\ a.coordinator = c /\ a.slot = i /\ a.adapter \in Adapters
      /\ t \in tickets \ exchanged
      /\ \A j \in LeaseSlots \ {i} : ~Busy(c, j)
      /\ SlotInv(c, i)
  BY <1>a, InCall DEF DInv
<1>2. /\ leases'[c][i] = s
      /\ \A d \in Coordinators, j \in LeaseSlots :
            d # c \/ j # i => leases'[d][j] = leases[d][j]
      /\ call'[c] = IdleCall
      /\ \A d \in Coordinators : d # c => call'[d] = call[d]
      /\ tickets' = tickets \union {new}
      /\ exchanged' = exchanged \union ({t} \ {new})
  BY <1>a DEF DInv, DeviceTypeOK, Answer
<1>3. DeviceTypeOK'
  <2>1. IdleCall \in Call
    BY NoAdmissionTyped DEF IdleCall, Call, AdmissionTicket, Ticket
  <2>2. leases' \in [Coordinators -> [LeaseSlots -> LeaseSlot]]
    BY <1>a DEF DInv, DeviceTypeOK
  <2>3. call' \in [Coordinators -> Call]
    BY <2>1 DEF DInv, DeviceTypeOK
  <2>4. tickets' \subseteq Ticket /\ exchanged' \subseteq tickets'
    BY <1>1, <1>2 DEF DInv, DeviceTypeOK
  <2> QED BY <2>2, <2>3, <2>4 DEF DInv, DeviceTypeOK, TypeOK, vars
<1>4. Adm(c, i)' = a /\ Taken(c, i)' /\ ~Busy(c, i)'
  BY <1>2 DEF Adm, Taken, Busy, Idle, IdleCall
<1>n. Names(new, c, i) /\ Names(t, c, i)
  BY <1>1 DEF Names
<1>5. StepAt(c, i)
  <2>1. \A u : ~Names(u, c, i) => /\ u \in tickets' <=> u \in tickets
                                  /\ u \in exchanged' <=> u \in exchanged
    BY <1>2, <1>n
  <2>2. \A d \in Coordinators : nextAllocation[d] <= nextAllocation'[d]
    BY LeaseTypes DEF DInv
  <2>3. \A d \in Coordinators : d # c => /\ objects'[d] = objects[d]
                                         /\ call'[d] = call[d]
    BY <1>2
  <2> QED BY <1>1, <1>2, <2>1, <2>2, <2>3, AtOneSlot
<1>o. Outstanding(c, a)' = Outstanding(c, a)
  BY DEF Outstanding
<1>v. ASSUME NEW u \in tickets' \ exchanged', Names(u, c, i)
      PROVE  u = new
  <2>1. CASE u \in tickets
    <3>1. u \in tickets \ exchanged
      BY <1>2, <1>v, <2>1
    <3>2. u = t
      BY <1>1, <1>n, <1>v, <3>1 DEF SlotInv, SlotOwned
    <3> QED BY <1>2, <1>v, <3>2
  <2>2. CASE u \notin tickets
    BY <1>2, <2>2
  <2> QED BY <2>1, <2>2
<1>w. new \in tickets' \ exchanged'
  BY <1>2
<1>6. SlotInv(c, i)'
  <2>1. SlotShaped(c, i)'
    <3>1. /\ a.generation < nextAllocation[c]
          /\ a.child.claim = DeviceClaim(a.sizes)
      BY <1>1 DEF SlotInv, SlotShaped
    <3> QED BY <1>1, <1>4, <3>1 DEF SlotShaped
  <2>2. SlotObjects(c, i)'
    BY <1>1, <1>4 DEF SlotInv, SlotObjects, At
  <2>3. SlotResting(c, i)'
    BY <1>2, <1>4 DEF SlotResting, At
  <2>4. SlotTickets(c, i)'
    <3> SUFFICES ASSUME NEW u \in tickets', Names(u, c, i)
                 PROVE  /\ TicketPast(u, c, i)'
                        /\ u \notin exchanged' => TicketValid(u, c, i)'
                        /\ u \in exchanged' => TicketStale(u, c, i)'
      BY DEF SlotTickets, Names
    <3>1. TicketPast(u, c, i)'
      <4>1. u.admission.generation < nextAllocation[c]
        BY <1>1, <1>2, <1>n DEF SlotInv, SlotShaped, SlotTickets, TicketPast
      <4>2. s.state = "live" /\ u.admission = a => u.kind # "recovery"
        BY <1>2 DEF KindOf
      <4> QED BY <1>2, <1>4, <4>1, <4>2 DEF TicketPast
    <3>2. u \notin exchanged' => TicketValid(u, c, i)'
      BY <1>2, <1>4, <1>o, <1>v DEF TicketValid
    <3>3. u \in exchanged' => TicketStale(u, c, i)'
      BY <1>2, <1>4, <1>o DEF TicketStale
    <3> QED BY <3>1, <3>2, <3>3
  <2>5. SlotOwned(c, i)'
    BY <1>4, <1>v, <1>w DEF SlotOwned, Names
  <2> QED BY <2>1, <2>2, <2>3, <2>4, <2>5 DEF SlotInv
<1>7. CallInv(c)'
  BY <1>2 DEF CallInv, Idle, IdleCall
<1>8. OwnInv'
  BY <1>1, <1>2, <1>3, <1>5, <1>6, <1>7, OwnStep DEF DInv
<1>9. \A d \in Coordinators, j \in LeaseSlots :
          Taken(d, j)' = Taken(d, j) /\ Adm(d, j)' = Adm(d, j)
  BY <1>1, <1>2, <1>4 DEF Taken, Adm
<1>10. ChildInv' /\ AdapterInv'
  BY <1>9, ChildrenStay, ObjectsStay DEF DInv
<1>11. IInv'
  BY StutterInv DEF DInv
<1> QED BY <1>3, <1>8, <1>10, <1>11 DEF DInv

\* A materialization with all its objects returns the lease.
LEMMA MaterializedInv ==
    ASSUME DInv, NEW c \in Coordinators, materialized(c)
    PROVE  DInv'
<1>a. PICK t, a : t = call[c].ticket /\ a = t.admission
  OBVIOUS
<1>1. /\ Allocating(c) /\ ~Idle(c)
      /\ \A key \in Keys(a) : objects[c][key] # NoObject
      /\ leases' = [leases EXCEPT ![c][a.slot].state = "live"]
      /\ call' = [call EXCEPT ![c] = IdleCall]
      /\ Answer(t, {LeaseTicket(a)})
      /\ UNCHANGED <<vars, objects, nextAllocation, backend>>
  BY <1>a DEF materialized, Allocating, Idle
<1>2. /\ a \in Admission /\ a.slot \in LeaseSlots /\ Adm(c, a.slot) = a
      /\ t \in tickets \ exchanged /\ a.coordinator = c
      /\ SlotInv(c, a.slot) /\ CallInv(c)
  BY <1>1, <1>a, InCall DEF DInv
<1>3. leases[c][a.slot].state = "admitted" /\ leases[c][a.slot] \in LeaseSlot
  BY <1>1, <1>2, <1>a, LeaseTypes DEF CallInv, DInv
<1>4. PICK s : s = [leases[c][a.slot] EXCEPT !.state = "live"]
  OBVIOUS
<1>5. /\ s \in LeaseSlot /\ s.state = "live" /\ s.admission = a
      /\ s.recoveryGeneration = leases[c][a.slot].recoveryGeneration
  BY <1>2, <1>3, <1>4 DEF LeaseSlot, Adm
<1>6. leases' = [leases EXCEPT ![c][a.slot] = s]
  BY <1>1, <1>4
<1>7. PICK new : new = LeaseTicket(a)
  OBVIOUS
<1>8. /\ new \in Ticket /\ new.admission = a /\ new.kind = "lease"
  BY <1>2, <1>7 DEF LeaseTicket, Ticket
<1>9. \A u \in tickets : u.admission = a => u.kind = "admission"
  BY <1>2, <1>3 DEF SlotInv, SlotTickets, TicketPast, Names
<1>10. \A u \in exchanged \union {t} : u \in tickets
  BY <1>2 DEF DInv, DeviceTypeOK
<1>11. new \notin exchanged
  BY <1>8, <1>9, <1>10
<1>12. \A k \in DOMAIN a.sizes : At(c, a, k) # NoObject
  BY <1>1 DEF Keys, At
<1>13. \A u \in exchanged \union ({t} \ {new}) :
          u.kind = "recovery" /\ u.admission = a =>
             \/ u.recoveryGeneration < s.recoveryGeneration
             \/ /\ u.recoveryGeneration = s.recoveryGeneration
                /\ Outstanding(c, a) \subseteq u.outstanding
                /\ Outstanding(c, a) # u.outstanding
  BY <1>9, <1>10
<1>14. new.kind = KindOf(s.state)
  BY <1>5, <1>8 DEF KindOf
<1>15. s.state = "live" =>
          /\ \A u \in tickets : u.admission = a => u.kind # "recovery"
          /\ \A k \in DOMAIN a.sizes : At(c, a, k) # NoObject
  BY <1>9, <1>12
<1>16. /\ s.state \in {"live", "recovery_required"}
       /\ Answer(t, {new})
       /\ new.kind = "recovery" =>
             /\ new.recoveryGeneration = s.recoveryGeneration
             /\ new.outstanding = Outstanding(c, a)
  BY <1>1, <1>5, <1>7, <1>8
<1>17. Returns(c, t, a, s, new)
  BY <1>1, <1>6, <1>16 DEF Returns
<1>18. Fresh(c, t, a, s, new)
  BY <1>5, <1>8, <1>11, <1>13, <1>14, <1>15, <1>16 DEF Fresh
<1> QED BY <1>1, <1>17, <1>18, <1>a, ReturnInv

\* A cleanup that could not finish returns a recovery ticket for what is left.
\* It is not an old one: those list more, or an earlier cleanup.
LEMMA RecoverInv ==
    ASSUME DInv, NEW c \in Coordinators, recover(c)
    PROVE  DInv'
<1>a. PICK t, a : t = call[c].ticket /\ a = t.admission
  OBVIOUS
<1>b. PICK old : old = leases[c][a.slot]
  OBVIOUS
<1>c. PICK g : g = nextRecoveryGeneration(old.recoveryGeneration)
  OBVIOUS
<1>d. PICK left : left = Outstanding(c, a)
  OBVIOUS
<1>e. PICK new : new = RecoveryTicket(a, g, left)
  OBVIOUS
<1>1. /\ ~Idle(c)
      /\ leases' = [leases EXCEPT ![c][a.slot].state = "recovery_required",
                                  ![c][a.slot].recoveryGeneration = g]
      /\ call' = [call EXCEPT ![c] = IdleCall]
      /\ Answer(t, {new})
      /\ UNCHANGED <<vars, objects, nextAllocation, backend>>
  BY <1>a, <1>b, <1>c, <1>d, <1>e DEF recover, Tried, Freeing, Idle
<1>2. /\ a \in Admission /\ a.slot \in LeaseSlots /\ Adm(c, a.slot) = a
      /\ t \in tickets \ exchanged /\ a.coordinator = c
      /\ SlotInv(c, a.slot) /\ old \in LeaseSlot /\ old.admission = a
  <2>1. /\ a \in Admission /\ a.slot \in LeaseSlots /\ Adm(c, a.slot) = a
        /\ t \in tickets \ exchanged /\ a.coordinator = c
        /\ SlotInv(c, a.slot)
    BY <1>1, <1>a, InCall DEF DInv
  <2>2. old \in LeaseSlot
    BY <2>1, <1>b, LeaseTypes DEF DInv
  <2> QED BY <2>1, <2>2, <1>b DEF Adm
<1>3. /\ old.recoveryGeneration \in Nat /\ g \in Nat
      /\ old.recoveryGeneration <= g
  BY <1>2, <1>c DEF LeaseSlot, nextRecoveryGeneration
<1>4. PICK s : s = [old EXCEPT !.state = "recovery_required",
                               !.recoveryGeneration = g]
  OBVIOUS
<1>5. /\ s \in LeaseSlot /\ s.state = "recovery_required"
      /\ s.admission = a /\ s.recoveryGeneration = g
  BY <1>2, <1>3, <1>4 DEF LeaseSlot
<1>6. leases' = [leases EXCEPT ![c][a.slot] = s]
  BY <1>1, <1>2, <1>4, <1>b DEF DInv, DeviceTypeOK
<1>7. left \subseteq Object
  <2>1. \A key \in DOMAIN objects[c] : objects[c][key] \in Object
    BY DEF DInv, DeviceTypeOK
  <2> QED BY <2>1, <1>d DEF Outstanding
<1>8. /\ new \in Ticket /\ new.admission = a /\ new.kind = "recovery"
      /\ new.recoveryGeneration = g /\ new.outstanding = left
  BY <1>2, <1>3, <1>7, <1>e DEF RecoveryTicket, Ticket
<1>9. \A u \in tickets : u.admission = a => Names(u, c, a.slot)
  BY <1>2 DEF Names
<1>10. \A u \in exchanged : u \in tickets
  BY DEF DInv, DeviceTypeOK
<1>11. \A u \in tickets : u.kind = "recovery" => u.recoveryGeneration \in Nat
  BY TicketTypes DEF Ticket, DInv
<1>12. ASSUME NEW u \in exchanged, u.kind = "recovery", u.admission = a
       PROVE  \/ u.recoveryGeneration < g
              \/ /\ u.recoveryGeneration = g
                 /\ left \subseteq u.outstanding /\ left # u.outstanding
  <2>1. TicketStale(u, c, a.slot)
    BY <1>2, <1>9, <1>10, <1>12 DEF SlotInv, SlotTickets
  <2>2. \/ u.recoveryGeneration < old.recoveryGeneration
        \/ /\ u.recoveryGeneration = old.recoveryGeneration
           /\ left \subseteq u.outstanding /\ left # u.outstanding
    BY <2>1, <1>2, <1>12, <1>b, <1>d DEF TicketStale
  <2> QED BY <2>2, <1>3, <1>10, <1>11, <1>12
<1>13. new \notin exchanged
  BY <1>3, <1>8, <1>12
<1>14. ASSUME t # new, t.kind = "recovery"
       PROVE  \/ t.recoveryGeneration < g
              \/ /\ t.recoveryGeneration = g
                 /\ left \subseteq t.outstanding /\ left # t.outstanding
  <2>1. TicketValid(t, c, a.slot)
    BY <1>2, <1>9, <1>a DEF SlotInv, SlotTickets
  <2>2. t.recoveryGeneration = old.recoveryGeneration
        /\ left \subseteq t.outstanding
    BY <2>1, <1>2, <1>14, <1>b, <1>d DEF TicketValid
  <2>3. t \in Ticket
    BY <1>2, TicketTypes DEF DInv
  <2>4. t.recoveryGeneration = g => left # t.outstanding
    BY <2>3, <1>8, <1>14, <1>a DEF Ticket
  <2> QED BY <2>2, <2>4, <1>3
<1>15. \A u \in exchanged \union ({t} \ {new}) :
          u.kind = "recovery" /\ u.admission = a =>
             \/ u.recoveryGeneration < s.recoveryGeneration
             \/ /\ u.recoveryGeneration = s.recoveryGeneration
                /\ Outstanding(c, a) \subseteq u.outstanding
                /\ Outstanding(c, a) # u.outstanding
  BY <1>5, <1>12, <1>14, <1>d
<1>16. /\ new.kind = KindOf(s.state)
       /\ s.state \in {"live", "recovery_required"}
       /\ s.state # "live"
       /\ new.kind = "recovery" =>
             /\ new.recoveryGeneration = s.recoveryGeneration
             /\ new.outstanding = Outstanding(c, a)
  BY <1>5, <1>8, <1>d DEF KindOf
<1>17. Returns(c, t, a, s, new)
  BY <1>1, <1>6 DEF Returns
<1>18. Fresh(c, t, a, s, new)
  BY <1>5, <1>8, <1>13, <1>15, <1>16 DEF Fresh
<1> QED BY <1>1, <1>17, <1>18, <1>a, ReturnInv

-----------------------------------------------------------------------------
(* One object slot changes.                                                *)

\* The object slot of ordinal k of admission a is set to v.
ObjectSet(c, a, k, v) ==
    /\ objects' = [objects EXCEPT ![c][Key(a, k)] = v]
    /\ UNCHANGED <<vars, leases, nextAllocation, tickets, exchanged>>
    /\ call'[c].op # "idle" /\ call'[c].ticket = call[c].ticket
    /\ \A d \in Coordinators : d # c => call'[d] = call[d]

\* An object slot is the only one that changes.
OnlyAt(c, a, k, v) ==
    /\ \A d \in Coordinators : d # c => objects'[d] = objects[d]
    /\ DOMAIN objects'[c] = DOMAIN objects[c]
    /\ \A key \in DOMAIN objects[c] : key # Key(a, k) =>
          objects'[c][key] = objects[c][key]
    /\ objects'[c][Key(a, k)] = v

\* Setting an object slot changes only that.
LEMMA SetFacts ==
    ASSUME DInv, NEW c \in Coordinators, ~Idle(c),
           NEW a, a = call[c].ticket.admission, NEW k \in DOMAIN a.sizes,
           NEW v, ObjectSet(c, a, k, v)
    PROVE  OnlyAt(c, a, k, v)
<1>1. Key(a, k) \in DOMAIN objects[c] /\ DOMAIN objects = Coordinators
  <2>1. \A m \in DOMAIN a.sizes : Key(a, m) \in DOMAIN objects[c]
    BY InCall DEF DInv
  <2> QED BY <2>1 DEF DInv, DeviceTypeOK
<1>2. objects'[c] = [objects[c] EXCEPT ![Key(a, k)] = v]
  BY <1>1 DEF ObjectSet
<1>3. DOMAIN objects'[c] = DOMAIN objects[c]
  BY <1>2
<1>4. objects'[c][Key(a, k)] = v
  BY <1>1, <1>2
<1>5. \A d \in Coordinators : d # c => objects'[d] = objects[d]
  BY <1>1 DEF ObjectSet
<1>6. \A key \in DOMAIN objects[c] : key # Key(a, k) =>
          objects'[c][key] = objects[c][key]
  BY <1>2
<1> QED BY <1>3, <1>4, <1>5, <1>6 DEF OnlyAt

\* The invariant of the coordinator at work.
LEMMA SetOwn ==
    ASSUME DInv, DeviceTypeOK', NEW c \in Coordinators, ~Idle(c),
           NEW a, a = call[c].ticket.admission, NEW k \in DOMAIN a.sizes,
           NEW v, ObjectSet(c, a, k, v),
           \/ v = NoObject
           \/ /\ v.admission = a /\ v.ordinal = k
              /\ leases[c][a.slot].state = "admitted",
           CallInv(c)'
    PROVE  OwnInv'
<1>a. PICK i \in LeaseSlots : i = a.slot
  BY InCall DEF DInv
<1>1. /\ a \in Admission /\ Adm(c, i) = a /\ Taken(c, i)
      /\ a.coordinator = c /\ a.slot = i
      /\ \A j \in LeaseSlots \ {i} : ~Busy(c, j)
      /\ \A m \in DOMAIN a.sizes : Key(a, m) \in DOMAIN objects[c]
      /\ SlotInv(c, i)
  BY <1>a, InCall DEF DInv
<1>2. /\ \A d \in Coordinators : d # c => objects'[d] = objects[d]
      /\ DOMAIN objects'[c] = DOMAIN objects[c]
      /\ \A key \in DOMAIN objects[c] : key # Key(a, k) =>
            objects'[c][key] = objects[c][key]
      /\ objects'[c][Key(a, k)] = v
  <2>1. OnlyAt(c, a, k, v)
    BY SetFacts
  <2> QED BY <2>1 DEF OnlyAt
<1>3. StepAt(c, i)
  <2>1. \A j, g, m : j # i =>
              /\ <<j, g, m>> \in DOMAIN objects'[c]
                    <=> <<j, g, m>> \in DOMAIN objects[c]
              /\ <<j, g, m>> \in DOMAIN objects[c] =>
                    objects'[c][<<j, g, m>>] = objects[c][<<j, g, m>>]
    BY <1>1, <1>2 DEF Key
  <2>2. \A d \in Coordinators : nextAllocation[d] <= nextAllocation'[d]
    BY LeaseTypes DEF DInv, ObjectSet
  <2>3. \A d \in Coordinators : d # c => /\ objects'[d] = objects[d]
                                         /\ call'[d] = call[d]
    BY <1>2 DEF ObjectSet
  <2>4. \A u : ~Names(u, c, i) => /\ u \in tickets' <=> u \in tickets
                                  /\ u \in exchanged' <=> u \in exchanged
    BY DEF ObjectSet
  <2>5. \A d \in Coordinators, j \in LeaseSlots :
              d # c \/ j # i => leases'[d][j] = leases[d][j]
    BY DEF ObjectSet
  <2> QED BY <1>1, <2>1, <2>2, <2>3, <2>4, <2>5, AtOneSlot
<1>4. Adm(c, i)' = a /\ Taken(c, i)' /\ Busy(c, i)'
  BY <1>1 DEF Adm, Taken, Busy, Idle, ObjectSet
<1>5. \A m \in DOMAIN a.sizes : m # k => At(c, a, m)' = At(c, a, m)
  BY <1>1, <1>2, KeysApart DEF At
<1>6. At(c, a, k)' = v
  BY <1>2 DEF At
<1>7. v = NoObject => Outstanding(c, a)' \subseteq Outstanding(c, a)
  <2> SUFFICES ASSUME v = NoObject, NEW o \in Outstanding(c, a)'
               PROVE  o \in Outstanding(c, a)
    OBVIOUS
  <2>1. PICK key \in Keys(a) \intersect DOMAIN objects'[c] :
            o = objects'[c][key] /\ o # NoObject
    BY DEF Outstanding
  <2>2. key # Key(a, k)
    BY <1>2, <2>1
  <2> QED BY <1>2, <2>1, <2>2 DEF Outstanding
<1>8. SlotInv(c, i)'
  <2>1. SlotShaped(c, i)'
    BY <1>1, <1>4 DEF SlotInv, SlotShaped, ObjectSet
  <2>2. SlotObjects(c, i)'
    <3>1. \A m \in DOMAIN a.sizes :
              At(c, a, m)' # NoObject =>
                  At(c, a, m)'.admission = a /\ At(c, a, m)'.ordinal = m
      BY <1>1, <1>5, <1>6 DEF SlotInv, SlotObjects
    <3> QED BY <1>1, <1>2, <1>4, <3>1 DEF SlotInv, SlotObjects, At
  <2>3. SlotResting(c, i)'
    BY <1>4 DEF SlotResting
  <2>4. SlotTickets(c, i)'
    <3> SUFFICES ASSUME NEW u \in tickets, Names(u, c, i)
                 PROVE  /\ TicketPast(u, c, i)'
                        /\ u \notin exchanged => TicketValid(u, c, i)'
                        /\ u \in exchanged => TicketStale(u, c, i)'
      BY DEF SlotTickets, Names, ObjectSet
    <3>1. TicketPast(u, c, i) /\ leases' = leases
      BY <1>1 DEF SlotInv, SlotTickets, ObjectSet
    <3>2. TicketPast(u, c, i)'
      BY <3>1, <1>1, <1>4 DEF TicketPast, ObjectSet
    <3>3. u.kind = "recovery" /\ u.admission = a => v = NoObject
      BY <1>1, <1>a, <3>1, NoAdmissionFacts DEF TicketPast
    <3>4. u \notin exchanged => TicketValid(u, c, i)'
      BY <1>1, <1>4, <1>7, <3>1, <3>3
         DEF SlotInv, SlotTickets, TicketValid
    <3>5. u \in exchanged => TicketStale(u, c, i)'
      BY <1>1, <1>4, <1>7, <3>1, <3>3
         DEF SlotInv, SlotTickets, TicketStale
    <3> QED BY <3>2, <3>4, <3>5
  <2>5. SlotOwned(c, i)'
    BY <1>1, <1>4 DEF SlotInv, SlotOwned, ObjectSet, Names
  <2> QED BY <2>1, <2>2, <2>3, <2>4, <2>5 DEF SlotInv
<1>9. \A u \in tickets' : u \in tickets
  BY DEF ObjectSet
<1> QED BY <1>3, <1>8, <1>9, OwnStep DEF DInv

\* Another object stays remembered.
LEMMA SetRemembers ==
    ASSUME DInv, NEW c \in Coordinators, ~Idle(c),
           NEW a, a = call[c].ticket.admission, NEW k \in DOMAIN a.sizes,
           NEW v, ObjectSet(c, a, k, v),
           NEW o \in Object, Remembered(o),
           ~(o.admission = a /\ o.ordinal = k)
    PROVE  Remembered(o)'
<1>1. /\ Adm(c, a.slot) = a /\ leases' = leases
      /\ \A d \in Coordinators : d # c => objects'[d] = objects[d]
      /\ \A key \in DOMAIN objects[c] : key # Key(a, k) =>
            objects'[c][key] = objects[c][key]
  <2>1. OnlyAt(c, a, k, v)
    BY SetFacts
  <2>2. Adm(c, a.slot) = a
    BY InCall DEF DInv
  <2> QED BY <2>1, <2>2 DEF OnlyAt, ObjectSet
<1>2. /\ o.admission.coordinator \in Coordinators
      /\ Adm(o.admission.coordinator, o.admission.slot) = o.admission
  BY DEF Remembered
<1>3. \/ o.admission.coordinator # c
      \/ Key(o.admission, o.ordinal) # Key(a, k)
  BY <1>1, <1>2, KeysApart
<1>4. At(o.admission.coordinator, o.admission, o.ordinal)'
         = At(o.admission.coordinator, o.admission, o.ordinal)
  <2>1. Key(o.admission, o.ordinal)
           \in DOMAIN objects[o.admission.coordinator]
    <3>1. o.admission.slot \in LeaseSlots
      BY DEF Object, Admission
    <3> QED BY <1>2, <3>1 DEF Remembered, DInv, OwnInv, SlotInv, SlotObjects
  <2> QED BY <1>1, <1>2, <1>3, <2>1 DEF At
<1> QED BY <1>1, <1>4 DEF Remembered, Taken, Adm

-----------------------------------------------------------------------------
(* Allocating and freeing an object.                                       *)

\* One object more.
LEMMA BytesAdded ==
    ASSUME NEW S, IsFiniteSet(S), NEW o, o \notin S,
           \A p \in S \union {o} : Bytes(p) \in Nat
    PROVE  /\ IsFiniteSet(S \union {o})
           /\ BytesOf(S \union {o}) = BytesOf(S) + Bytes(o)
           /\ BytesOf(S) \in Nat
<1> DEFINE f == [p \in S |-> Bytes(p)]
           g == [p \in S \union {o} |-> Bytes(p)]
<1>1. IsFiniteSet(S \union {o})
  BY FS_AddElement
<1>2. \A p \in S : f[p] = g[p] /\ f[p] \in Nat
  OBVIOUS
<1>3. \A p \in S \union {o} : g[p] \in Nat
  OBVIOUS
<1>4. (S \union {o}) \ {o} = S /\ g[o] = Bytes(o)
  OBVIOUS
<1> HIDE DEF f, g
<1>5. Sum(g, S \union {o}) = g[o] + Sum(g, S)
  BY <1>1, <1>3, <1>4, SumRemove
<1>6. Sum(g, S) = Sum(f, S)
  BY <1>2, SumAgree
<1>7. Sum(f, S) \in Nat
  BY <1>2, SumType
<1>8. Bytes(o) \in Nat
  OBVIOUS
<1>9. BytesOf(S) = Sum(f, S) /\ BytesOf(S \union {o}) = Sum(g, S \union {o})
  BY DEF BytesOf, f, g
<1> QED BY <1>1, <1>4, <1>5, <1>6, <1>7, <1>8, <1>9

\* The objects of an adapter are well typed.
LEMMA LiveTypes ==
    ASSUME DeviceTypeOK, NEW x \in Adapters, BackendInv(x)
    PROVE  /\ backend[x] \in Backend
           /\ \A o \in backend[x].live :
                 /\ o \in Object /\ Bytes(o) \in Nat
                 /\ o.admission \in Admission
                 /\ o.admission.coordinator \in Coordinators
                 /\ o.admission # NoAdmission
<1>1. backend[x] \in Backend
  BY DEF DeviceTypeOK
<1> SUFFICES ASSUME NEW o \in backend[x].live
             PROVE  /\ o \in Object /\ Bytes(o) \in Nat
                    /\ o.admission \in Admission
                    /\ o.admission.coordinator \in Coordinators
                    /\ o.admission # NoAdmission
  BY <1>1
<1>2. o \in Object /\ o.admission \in Admission
  BY <1>1 DEF Backend, Object
<1>3. o.admission.coordinator \in Coordinators
      /\ o.ordinal \in DOMAIN o.admission.sizes
  BY DEF BackendInv, Remembered
<1>4. Bytes(o) \in Nat
  BY <1>2, <1>3, AdmissionTypes DEF Bytes
<1> QED BY <1>2, <1>3, <1>4, NoAdmissionFacts

\* What the other adapters have live, and the other slots remember, is not
\* affected by an object slot of a.
LEMMA OtherAdapters ==
    ASSUME DInv, NEW c \in Coordinators, ~Idle(c),
           NEW a, a = call[c].ticket.admission, NEW k \in DOMAIN a.sizes,
           NEW v, ObjectSet(c, a, k, v),
           NEW x \in Adapters, x # a.adapter, backend'[x] = backend[x]
    PROVE  BackendInv(x)'
<1>1. BackendInv(x)
  BY DEF DInv, AdapterInv
<1>2. ASSUME NEW o \in backend[x].live PROVE Remembered(o)'
  <2>1. o \in Object /\ Remembered(o) /\ o.admission.adapter = x
    BY <1>1, LiveTypes DEF BackendInv, DInv
  <2> QED BY <2>1, SetRemembers
<1> QED BY <1>1, <1>2 DEF BackendInv, BytesOf

\* The adapter allocates the next object and the coordinator remembers it.
LEMMA AllocateInv ==
    ASSUME DInv, NEW c \in Coordinators, allocate(c)
    PROVE  DInv'
<1>a. PICK t, a, k : t = call[c].ticket /\ a = t.admission
                     /\ k = call[c].ordinal
  OBVIOUS
<1>b. PICK b : b = backend[a.adapter]
  OBVIOUS
<1>o. PICK o : o = [admission |-> a, ordinal |-> k,
                    generation |-> b.nextGeneration]
  OBVIOUS
<1>1. /\ Allocating(c) /\ ~Idle(c) /\ k <= Len(a.sizes)
      /\ CanAllocate(b, a, k)
      /\ backend' = [backend EXCEPT ![a.adapter] = Registered(b, o)]
      /\ objects' = [objects EXCEPT ![c][Key(a, k)] = o]
      /\ call' = [call EXCEPT ![c].ordinal = @ + 1] \/ StartCleanup(c, t)
      /\ UNCHANGED <<vars, leases, nextAllocation, tickets, exchanged>>
  BY <1>a, <1>b, <1>o DEF allocate, Allocating, Idle, Here
<1>2. /\ a \in Admission /\ a.slot \in LeaseSlots /\ Adm(c, a.slot) = a
      /\ Taken(c, a.slot)
      /\ a.coordinator = c /\ a.adapter \in Adapters
      /\ t \in tickets \ exchanged /\ CallInv(c)
  BY <1>1, <1>a, InCall DEF DInv
<1>3. /\ leases[c][a.slot].state = "admitted" /\ k # 0
      /\ \A m \in DOMAIN a.sizes : At(c, a, m) # NoObject <=> m < k
  BY <1>1, <1>2, <1>a DEF CallInv
<1>4. k \in DOMAIN a.sizes /\ k \in Nat /\ Len(a.sizes) \in Nat
      /\ \A m \in DOMAIN a.sizes : m \in Nat /\ m <= Len(a.sizes)
  <2>1. k \in Nat
    BY <1>a, LeaseTypes DEF DInv
  <2> QED BY <1>1, <1>2, <1>3, <2>1, AdmissionTypes
<1>5. /\ b \in Backend /\ BackendInv(a.adapter)
      /\ \A p \in b.live : p \in Object /\ Bytes(p) \in Nat
                           /\ p.admission # NoAdmission
  BY <1>2, <1>b, LiveTypes DEF DInv, AdapterInv
<1>6. o \in Object /\ o.admission = a /\ o.ordinal = k
  BY <1>2, <1>4, <1>5, <1>o DEF Object, Backend
<1>7. o \notin b.live /\ o # NoObject /\ Bytes(o) \in Nat
  BY <1>1, <1>2, <1>4, <1>6, NoAdmissionFacts, AdmissionTypes
     DEF CanAllocate, Bytes
<1>8. /\ backend'[a.adapter] = Registered(b, o)
      /\ \A x \in Adapters : x # a.adapter => backend'[x] = backend[x]
  BY <1>1, <1>2 DEF DInv, DeviceTypeOK
<1>9. PICK q \in Call : /\ call' = [call EXCEPT ![c] = q]
                        /\ q.ticket = t
                        /\ \/ q.op = "allocating" /\ q.ordinal = k + 1
                           \/ q.op = "freeing" /\ q.ordinal = Len(a.sizes)
  <2>1. CASE call' = [call EXCEPT ![c].ordinal = @ + 1]
    <3>1. PICK q : q = [call[c] EXCEPT !.ordinal = @ + 1]
      OBVIOUS
    <3>2. call' = [call EXCEPT ![c] = q]
      BY <2>1, <3>1
    <3>3. call[c] \in Call
      BY LeaseTypes DEF DInv
    <3>4. /\ q \in Call /\ q.ticket = t /\ q.op = "allocating"
          /\ q.ordinal = k + 1
      BY <1>1, <1>4, <1>a, <3>1, <3>3 DEF Call, Allocating
    <3> QED BY <3>2, <3>4
  <2>2. CASE StartCleanup(c, t)
    <3>1. PICK q : q = [op |-> "freeing", ordinal |-> Len(t.admission.sizes),
                        failed |-> FALSE, ticket |-> t]
      OBVIOUS
    <3>2. t \in Ticket
      BY <1>2, TicketTypes DEF DInv
    <3>3. /\ q \in Call /\ q.ticket = t /\ q.op = "freeing"
          /\ q.ordinal = Len(a.sizes)
      BY <1>4, <1>a, <3>1, <3>2 DEF Call
    <3>4. call' = [call EXCEPT ![c] = q]
      BY <2>2, <3>1 DEF StartCleanup
    <3> QED BY <3>3, <3>4
  <2> QED BY <1>1, <2>1, <2>2
<1>10. /\ call'[c] = q
       /\ \A d \in Coordinators : d # c => call'[d] = call[d]
  BY <1>9 DEF DInv, DeviceTypeOK
<1>11. ObjectSet(c, a, k, o)
  BY <1>1, <1>9, <1>10, <1>a DEF ObjectSet
<1>12. OnlyAt(c, a, k, o)
  BY <1>1, <1>4, <1>11, <1>a, SetFacts
<1>13. DeviceTypeOK'
  <2>1. Registered(b, o) \in Backend
    BY <1>2, <1>5, <1>6, <1>7 DEF Registered, Backend
  <2>2. backend' \in [Adapters -> Backend]
    BY <1>1, <1>2, <2>1 DEF DInv, DeviceTypeOK
  <2>3. call' \in [Coordinators -> Call]
    BY <1>9 DEF DInv, DeviceTypeOK
  <2>4. /\ DOMAIN objects' = Coordinators
        /\ \A d \in Coordinators :
              /\ DOMAIN objects'[d] \subseteq LeaseSlots \X Nat \X Nat
              /\ \A key \in DOMAIN objects'[d] : objects'[d][key] \in Object
    BY <1>1, <1>6, <1>12 DEF DInv, DeviceTypeOK, OnlyAt
  <2> QED
    BY <1>1, <2>2, <2>3, <2>4 DEF DInv, DeviceTypeOK, TypeOK, vars
<1>14. /\ At(c, a, k)' = o
       /\ \A m \in DOMAIN a.sizes : m # k => At(c, a, m)' = At(c, a, m)
  <2>1. \A m \in DOMAIN a.sizes : Key(a, m) \in DOMAIN objects[c]
    BY <1>1, <1>a, InCall DEF DInv
  <2> QED BY <2>1, <1>12, KeysApart DEF At, OnlyAt
<1>15. CallInv(c)'
  <2>1. \A m \in DOMAIN a.sizes : At(c, a, m)' # NoObject <=> m < k + 1
    BY <1>3, <1>4, <1>7, <1>14
  <2>2. k + 1 # 0 /\ k + 1 <= Len(a.sizes) + 1
    BY <1>1, <1>4
  <2>3. \A m \in DOMAIN a.sizes : ~(m > Len(a.sizes))
    BY <1>4
  <2>4. leases'[c][a.slot] = leases[c][a.slot] /\ t \in tickets' \ exchanged'
    BY <1>1, <1>2
  <2> QED
    BY <1>2, <1>3, <1>9, <1>10, <1>a, <2>1, <2>2, <2>3, <2>4
       DEF CallInv, Idle, Allocating, Freeing, Adm
<1>16. OwnInv'
  BY <1>1, <1>3, <1>4, <1>6, <1>11, <1>13, <1>15, <1>a, SetOwn
<1>17. \A p \in b.live : p.admission = a
  BY <1>1, <1>5, <1>b DEF CanAllocate, BackendInv
<1>18. BackendInv(a.adapter)'
  <2>1. ASSUME NEW p \in b.live PROVE Remembered(p)'
    <3>1. Remembered(p) /\ p.ordinal # k
      BY <1>1, <1>5, <1>17, <1>b DEF BackendInv, CanAllocate
    <3> QED BY <1>1, <1>4, <1>5, <1>11, <1>a, <3>1, SetRemembers
  <2>2. Remembered(o)'
    BY <1>1, <1>2, <1>4, <1>6, <1>14 DEF Remembered, Taken, Adm
  <2>3. backend'[a.adapter].live = b.live \union {o}
        /\ backend'[a.adapter].active = a
        /\ backend'[a.adapter].used = b.used + Bytes(o)
    BY <1>6, <1>8 DEF Registered
  <2>4. IsFiniteSet(b.live) /\ b.used = BytesOf(b.live)
    BY <1>5, <1>b DEF BackendInv
  <2>5. /\ IsFiniteSet(b.live \union {o})
        /\ BytesOf(b.live \union {o}) = BytesOf(b.live) + Bytes(o)
    BY <1>5, <1>7, <2>4, BytesAdded
  <2>6. \A p \in b.live : p.admission.adapter = a.adapter
    BY <1>17
  <2>7. BytesOf(b.live \union {o})' = BytesOf(b.live \union {o})
    OBVIOUS
  <2> QED
    BY <1>6, <1>17, <2>1, <2>2, <2>3, <2>4, <2>5, <2>6
       DEF BackendInv, BytesOf
<1>19. \A x \in Adapters : BackendInv(x)'
  BY <1>1, <1>4, <1>8, <1>11, <1>18, <1>a, OtherAdapters
<1>20. ASSUME NEW d \in Coordinators, NEW j \in LeaseSlots
       PROVE  ObjectsLive(d, j)'
  <2> SUFFICES ASSUME Taken(d, j), NEW m \in DOMAIN Adm(d, j).sizes,
                      At(d, Adm(d, j), m)' # NoObject
               PROVE  At(d, Adm(d, j), m)'
                         \in backend'[Adm(d, j).adapter].live
    BY <1>1 DEF ObjectsLive, Taken, Adm, At
  <2>1. CASE d = c /\ Key(Adm(d, j), m) = Key(a, k)
    <3>1. j = a.slot
      BY <2>1, KeysApart DEF DInv, OwnInv, SlotInv, SlotShaped
    <3>2. At(d, Adm(d, j), m)' = o
      BY <1>1, <2>1, <1>12 DEF At, OnlyAt, Adm
    <3> QED BY <1>2, <1>8, <2>1, <3>1, <3>2 DEF Registered
  <2>2. CASE ~(d = c /\ Key(Adm(d, j), m) = Key(a, k))
    <3>1. Key(Adm(d, j), m) \in DOMAIN objects[d]
      BY DEF DInv, OwnInv, SlotInv, SlotObjects
    <3>2. At(d, Adm(d, j), m)' = At(d, Adm(d, j), m)
      BY <1>1, <2>2, <3>1, <1>12 DEF At, OnlyAt, Adm
    <3>3. At(d, Adm(d, j), m) \in backend[Adm(d, j).adapter].live
      BY <3>2 DEF DInv, AdapterInv, ObjectsLive
    <3>4. Adm(d, j).adapter \in Adapters
      BY DEF DInv, OwnInv, SlotInv, SlotShaped
    <3> QED BY <1>8, <1>b, <3>2, <3>3, <3>4 DEF Registered
  <2> QED BY <2>1, <2>2
<1>21. IInv' /\ ChildInv'
  BY <1>1, StutterInv, ChildrenStay DEF DInv, Taken, Adm
<1> QED BY <1>13, <1>16, <1>19, <1>20, <1>21 DEF DInv, AdapterInv

\* The last object is freed first, and forgotten once it is.
LEMMA FreeInv ==
    ASSUME DInv, NEW c \in Coordinators, free(c)
    PROVE  DInv'
<1>a. PICK t, a : t = call[c].ticket /\ a = t.admission
  OBVIOUS
<1>b. PICK b : b = backend[a.adapter]
  OBVIOUS
<1>k. PICK k \in ToFree(c) :
          LET o == objects[c][Key(a, k)] IN
          /\ NextToFree(c, k)
          /\ o \in b.live
          /\ backend' = [backend EXCEPT ![a.adapter] = Unregistered(b, o)]
          /\ objects' = [objects EXCEPT ![c][Key(a, k)] = NoObject]
          /\ call' = [call EXCEPT ![c].ordinal = k - 1]
          /\ UNCHANGED <<vars, leases, nextAllocation, tickets, exchanged>>
  BY <1>a, <1>b DEF free
<1>o. PICK o : o = At(c, a, k)
  OBVIOUS
<1>1. /\ Freeing(c) /\ ~Idle(c) /\ o \in b.live
      /\ backend' = [backend EXCEPT ![a.adapter] = Unregistered(b, o)]
      /\ objects' = [objects EXCEPT ![c][Key(a, k)] = NoObject]
      /\ call' = [call EXCEPT ![c].ordinal = k - 1]
      /\ UNCHANGED <<vars, leases, nextAllocation, tickets, exchanged>>
  BY <1>k, <1>o DEF NextToFree, Freeing, Idle, At
<1>2. /\ a \in Admission /\ a.slot \in LeaseSlots /\ Adm(c, a.slot) = a
      /\ Taken(c, a.slot)
      /\ a.coordinator = c /\ a.adapter \in Adapters
      /\ t \in tickets \ exchanged /\ CallInv(c)
      /\ SlotInv(c, a.slot)
  BY <1>1, <1>a, InCall DEF DInv
<1>3. /\ b \in Backend /\ BackendInv(a.adapter)
      /\ \A p \in b.live : p \in Object /\ Bytes(p) \in Nat
                           /\ p.admission # NoAdmission
  BY <1>2, <1>b, LiveTypes DEF DInv, AdapterInv
<1>4. /\ k \in DOMAIN a.sizes /\ k \in Nat /\ o # NoObject
      /\ o.admission = a /\ o.ordinal = k
  <2>1. Key(a, k) \in DOMAIN objects[c] /\ o # NoObject
    BY <1>a, <1>o DEF ToFree, Live, At
  <2>2. Key(a, k) = <<a.slot, a.generation, k>>
    BY DEF Key
  <2>3. Key(a, k) \in Keys(a)
    BY <1>2, <2>1, <2>2 DEF SlotInv, SlotObjects
  <2>4. k \in DOMAIN a.sizes
    BY <2>3, KeysApart DEF Keys
  <2> QED
    BY <1>2, <1>o, <2>1, <2>4, AdmissionTypes DEF SlotInv, SlotObjects
<1>5. /\ backend'[a.adapter] = Unregistered(b, o)
      /\ \A x \in Adapters : x # a.adapter => backend'[x] = backend[x]
  BY <1>1, <1>2 DEF DInv, DeviceTypeOK
<1>6. PICK q \in Call : /\ call' = [call EXCEPT ![c] = q]
                        /\ q.ticket = t /\ q.op = "freeing"
                        /\ q.ordinal = k - 1 /\ q.failed = call[c].failed
  <2>1. PICK q : q = [call[c] EXCEPT !.ordinal = k - 1]
    OBVIOUS
  <2>2. call' = [call EXCEPT ![c] = q]
    BY <1>1, <2>1
  <2>3. call[c] \in Call /\ k - 1 \in Nat
    <3>1. call[c].ordinal \in Nat /\ call[c] \in Call
      BY LeaseTypes DEF DInv
    <3> QED BY <3>1 DEF ToFree
  <2>4. /\ q \in Call /\ q.ticket = t /\ q.op = "freeing"
        /\ q.ordinal = k - 1 /\ q.failed = call[c].failed
    BY <1>1, <1>a, <2>1, <2>3 DEF Call, Freeing
  <2> QED BY <2>2, <2>4
<1>7. /\ call'[c] = q
      /\ \A d \in Coordinators : d # c => call'[d] = call[d]
  BY <1>6 DEF DInv, DeviceTypeOK
<1>8. ObjectSet(c, a, k, NoObject)
  BY <1>1, <1>6, <1>7, <1>a DEF ObjectSet
<1>9. OnlyAt(c, a, k, NoObject)
  BY <1>1, <1>4, <1>8, <1>a, SetFacts
<1>10. PICK S : S = b.live \ {o}
  OBVIOUS
<1>11. /\ IsFiniteSet(S) /\ BytesOf(b.live) = BytesOf(S) + Bytes(o)
       /\ BytesOf(S) \in Nat /\ b.used = BytesOf(b.live)
       /\ Bytes(o) \in Nat
  <2>1. IsFiniteSet(b.live) /\ b.used = BytesOf(b.live)
    BY <1>3, <1>b DEF BackendInv
  <2>2. IsFiniteSet(S) /\ o \notin S /\ S \union {o} = b.live
    BY <1>1, <1>10, <2>1, FS_Subset
  <2>3. /\ BytesOf(S \union {o}) = BytesOf(S) + Bytes(o)
        /\ BytesOf(S) \in Nat
    BY <1>3, <2>2, BytesAdded
  <2> QED BY <1>1, <1>3, <2>1, <2>2, <2>3
<1>12. /\ backend'[a.adapter].live = S
       /\ backend'[a.adapter].used = BytesOf(S)
       /\ backend'[a.adapter].active \in {b.active, NoAdmission}
       /\ S # {} => backend'[a.adapter].active = b.active
       /\ backend'[a.adapter].nextGeneration = b.nextGeneration
       /\ Unregistered(b, o) \in Backend
  <2>1. b.used - Bytes(o) = BytesOf(S)
    BY <1>11
  <2>2. NoAdmission \in Admission
    BY NoAdmissionTyped
  <2>3. S # {} => b.live # {o}
    BY <1>10
  <2> QED
    BY <1>3, <1>5, <1>10, <1>11, <2>1, <2>2, <2>3 DEF Unregistered, Backend
<1>13. DeviceTypeOK'
  <2>1. backend' \in [Adapters -> Backend]
    BY <1>1, <1>2, <1>12 DEF DInv, DeviceTypeOK
  <2>2. call' \in [Coordinators -> Call]
    BY <1>6 DEF DInv, DeviceTypeOK
  <2>3. NoObject \in Object
    BY NoAdmissionTyped DEF NoObject, Object
  <2>4. /\ DOMAIN objects' = Coordinators
        /\ \A d \in Coordinators :
              /\ DOMAIN objects'[d] \subseteq LeaseSlots \X Nat \X Nat
              /\ \A key \in DOMAIN objects'[d] : objects'[d][key] \in Object
    BY <1>1, <1>9, <2>3 DEF DInv, DeviceTypeOK, OnlyAt
  <2> QED
    BY <1>1, <2>1, <2>2, <2>4 DEF DInv, DeviceTypeOK, TypeOK, vars
<1>14. /\ At(c, a, k)' = NoObject
       /\ \A m \in DOMAIN a.sizes : m # k => At(c, a, m)' = At(c, a, m)
       /\ \A m \in DOMAIN a.sizes : Key(a, m) \in DOMAIN objects[c]
  <2>1. \A m \in DOMAIN a.sizes : Key(a, m) \in DOMAIN objects[c]
    BY <1>1, <1>a, InCall DEF DInv
  <2> QED BY <2>1, <1>9, KeysApart DEF At, OnlyAt
<1>15. CallInv(c)'
  <2>1. ASSUME NEW m \in DOMAIN a.sizes, m > k - 1, At(c, a, m)' # NoObject
        PROVE  call[c].failed
    <3>1. m # k /\ m \in Nat /\ m > k /\ call[c].ordinal \in Nat
      BY <1>2, <1>4, <1>14, <2>1, AdmissionTypes, LeaseTypes DEF DInv
    <3>2. At(c, a, m) # NoObject
      BY <1>14, <2>1, <3>1
    <3>3. m \notin ToFree(c)
      <4>1. \A n \in ToFree(c) : n <= k /\ n \in Nat
        BY <1>k DEF NextToFree, ToFree
      <4> QED BY <1>4, <3>1, <4>1
    <3>4. Live(c, Key(a, m))
      BY <1>14, <3>2 DEF Live, At
    <3>5. m > call[c].ordinal
      BY <1>4, <1>a, <3>1, <3>3, <3>4 DEF ToFree
    <3> QED BY <1>1, <1>2, <1>a, <3>2, <3>5 DEF CallInv
  <2>2. leases'[c][a.slot] = leases[c][a.slot] /\ t \in tickets' \ exchanged'
    BY <1>1, <1>2
  <2> QED
    BY <1>2, <1>6, <1>7, <1>a, <2>1, <2>2
       DEF CallInv, Idle, Allocating, Freeing, Adm
<1>16. OwnInv'
  BY <1>1, <1>4, <1>8, <1>13, <1>15, <1>a, SetOwn
<1>17. \A p \in b.live : Remembered(p)
  BY <1>3, <1>b DEF BackendInv
<1>18. BackendInv(a.adapter)'
  <2>1. ASSUME NEW p \in S PROVE Remembered(p)'
    <3>1. ~(p.admission = a /\ p.ordinal = k)
      BY <1>2, <1>10, <1>17, <1>o, <2>1 DEF Remembered
    <3> QED BY <1>1, <1>3, <1>4, <1>8, <1>10, <1>17, <1>a, <3>1, SetRemembers
  <2>2. \A p \in S : p.admission = b.active /\ p.admission.adapter = a.adapter
    BY <1>3, <1>10, <1>b DEF BackendInv
  <2> QED BY <1>11, <1>12, <2>1, <2>2 DEF BackendInv, BytesOf
<1>19. \A x \in Adapters : BackendInv(x)'
  BY <1>1, <1>4, <1>5, <1>8, <1>18, <1>a, OtherAdapters
<1>20. ASSUME NEW d \in Coordinators, NEW j \in LeaseSlots
       PROVE  ObjectsLive(d, j)'
  <2> SUFFICES ASSUME Taken(d, j), NEW m \in DOMAIN Adm(d, j).sizes,
                      At(d, Adm(d, j), m)' # NoObject
               PROVE  At(d, Adm(d, j), m)'
                         \in backend'[Adm(d, j).adapter].live
    BY <1>1 DEF ObjectsLive, Taken, Adm, At
  <2>1. ~(d = c /\ Key(Adm(d, j), m) = Key(a, k))
    BY <1>1, <1>9 DEF At, OnlyAt, Adm
  <2>2. Key(Adm(d, j), m) \in DOMAIN objects[d]
    BY DEF DInv, OwnInv, SlotInv, SlotObjects
  <2>3. At(d, Adm(d, j), m)' = At(d, Adm(d, j), m)
    BY <1>1, <2>1, <2>2, <1>9 DEF At, OnlyAt, Adm
  <2>4. /\ At(d, Adm(d, j), m) \in backend[Adm(d, j).adapter].live
        /\ At(d, Adm(d, j), m).admission = Adm(d, j)
        /\ At(d, Adm(d, j), m).ordinal = m
    BY <2>3 DEF DInv, AdapterInv, ObjectsLive, OwnInv, SlotInv, SlotObjects
  <2>5. /\ Adm(d, j).adapter \in Adapters
        /\ Adm(d, j).coordinator = d
    BY DEF DInv, OwnInv, SlotInv, SlotShaped
  <2>6. At(d, Adm(d, j), m) # o
    BY <1>2, <1>4, <2>1, <2>4, <2>5
  <2> QED BY <1>5, <1>10, <1>12, <1>b, <2>3, <2>4, <2>5, <2>6
<1>21. IInv' /\ ChildInv'
  BY <1>1, StutterInv, ChildrenStay DEF DInv, Taken, Adm
<1> QED BY <1>13, <1>16, <1>19, <1>20, <1>21 DEF DInv, AdapterInv

-----------------------------------------------------------------------------
(* The slot is cleared.                                                    *)

\* The lease of ticket t, which has no object left, is closed and forgotten.
Clears(c, t, a) ==
    /\ closeChild(a.child) /\ clearCoordinatorSlot(c, a) /\ Answer(t, {})
    /\ UNCHANGED <<nextAllocation, backend>>
    /\ call' \in [Coordinators -> Call] /\ call'[c].op = "idle"
    /\ \A d \in Coordinators : d # c => call'[d] = call[d]

\* The objects of the other slots stay.
LEMMA ClearedObjects ==
    ASSUME DInv, NEW c \in Coordinators, NEW t, NEW a, Clears(c, t, a)
    PROVE  /\ \A d \in Coordinators : d # c => objects'[d] = objects[d]
           /\ DOMAIN objects'[c] = DOMAIN objects[c] \ Keys(a)
           /\ \A key \in DOMAIN objects[c] \ Keys(a) :
                 objects'[c][key] = objects[c][key]
<1>1. DOMAIN objects = Coordinators
  BY DEF DInv, DeviceTypeOK
<1>2. objects' = [objects EXCEPT ![c] =
                     [key \in DOMAIN objects[c] \ Keys(a) |->
                         objects[c][key]]]
  BY DEF Clears, clearCoordinatorSlot
<1>3. objects'[c] = [key \in DOMAIN objects[c] \ Keys(a) |-> objects[c][key]]
  BY <1>1, <1>2
<1>4. \A d \in Coordinators : d # c => objects'[d] = objects[d]
  BY <1>1, <1>2
<1> QED BY <1>3, <1>4

\* The ticket is spent, the child closed and the slot free.
LEMMA ClearInvariant ==
    ASSUME DInv, NEW c \in Coordinators, NEW t \in tickets \ exchanged,
           NEW a, a = t.admission, a \in Admission, a.slot \in LeaseSlots,
           Adm(c, a.slot) = a, Taken(c, a.slot), a.coordinator = c,
           \A j \in LeaseSlots \ {a.slot} : ~Busy(c, j),
           \A k \in DOMAIN a.sizes : At(c, a, k) = NoObject,
           Clears(c, t, a)
    PROVE  DInv'
<1>a. PICK i \in LeaseSlots : i = a.slot
  OBVIOUS
<1>1. SlotInv(c, i) /\ ChildHeld(c, i) /\ Names(t, c, i)
  BY <1>a DEF DInv, OwnInv, ChildInv, Names
<1>2. /\ leases'[c][i] = FreeLease
      /\ \A d \in Coordinators, j \in LeaseSlots :
            d # c \/ j # i => leases'[d][j] = leases[d][j]
      /\ tickets' = tickets
      /\ exchanged' = exchanged \union {t}
      /\ leases' \in [Coordinators -> [LeaseSlots -> LeaseSlot]]
  <2>1. FreeLease \in LeaseSlot
    BY NoAdmissionTyped DEF FreeLease, LeaseSlot
  <2> QED
    BY <1>a, <2>1
       DEF Clears, clearCoordinatorSlot, Answer, DInv, DeviceTypeOK
<1>3. /\ \A d \in Coordinators : d # c => objects'[d] = objects[d]
      /\ DOMAIN objects'[c] = DOMAIN objects[c] \ Keys(a)
      /\ \A key \in DOMAIN objects[c] \ Keys(a) :
            objects'[c][key] = objects[c][key]
  BY ClearedObjects
<1>4. IInv'
  <2>1. a.child \in ChildLeases
    BY <1>1, <1>a DEF ChildHeld, ChildLeases, validateChildLease
  <2> QED BY <2>1, CloseChildInv DEF Clears, DInv
<1>5. DeviceTypeOK'
  <2>1. /\ DOMAIN objects' = Coordinators
        /\ \A d \in Coordinators :
              /\ DOMAIN objects'[d] \subseteq LeaseSlots \X Nat \X Nat
              /\ \A key \in DOMAIN objects'[d] : objects'[d][key] \in Object
    BY <1>3 DEF DInv, DeviceTypeOK, Clears, clearCoordinatorSlot
  <2>2. exchanged' \subseteq tickets'
    BY <1>2 DEF DInv, DeviceTypeOK
  <2>3. TypeOK'
    BY <1>4 DEF IInv
  <2> QED
    BY <1>2, <2>1, <2>2, <2>3 DEF DInv, DeviceTypeOK, Clears
<1>6. ~Taken(c, i)' /\ Adm(c, i)' = NoAdmission
  BY <1>2, NoAdmissionFacts DEF Taken, Adm
<1>7. StepAt(c, i)
  <2>1. \A j, g, k : j # i =>
              /\ <<j, g, k>> \in DOMAIN objects'[c]
                    <=> <<j, g, k>> \in DOMAIN objects[c]
              /\ <<j, g, k>> \in DOMAIN objects[c] =>
                    objects'[c][<<j, g, k>>] = objects[c][<<j, g, k>>]
    <3>1. \A j, g, k : j # i => <<j, g, k>> \notin Keys(a)
      BY <1>a DEF Keys, Key
    <3> QED BY <1>3, <3>1
  <2>2. \A d \in Coordinators : nextAllocation[d] <= nextAllocation'[d]
    BY LeaseTypes DEF DInv, Clears
  <2>3. \A d \in Coordinators : d # c => /\ objects'[d] = objects[d]
                                         /\ call'[d] = call[d]
    BY <1>3 DEF Clears
  <2>4. \A u : ~Names(u, c, i) => /\ u \in tickets' <=> u \in tickets
                                  /\ u \in exchanged' <=> u \in exchanged
    BY <1>1, <1>2
  <2>5. \A j \in LeaseSlots \ {i} : ~Busy(c, j)
    BY <1>a
  <2> QED BY <1>2, <2>1, <2>2, <2>3, <2>4, <2>5, AtOneSlot
<1>8. SlotInv(c, i)'
  <2>1. SlotShaped(c, i)'
    BY <1>2, <1>6 DEF SlotShaped
  <2>2. SlotObjects(c, i)'
    BY <1>1, <1>3, <1>6, <1>a DEF SlotInv, SlotObjects
  <2>3. SlotResting(c, i)'
    BY <1>2, NoAdmissionFacts DEF SlotResting
  <2>4. \A u \in tickets' : Names(u, c, i) =>
            u \in exchanged' /\ u.admission # NoAdmission
    BY <1>1, <1>2, NoAdmissionFacts DEF SlotInv, SlotOwned, Names
  <2>5. SlotTickets(c, i)'
    <3> SUFFICES ASSUME NEW u \in tickets, Names(u, c, i)
                 PROVE  /\ TicketPast(u, c, i)' /\ u \in exchanged'
                        /\ TicketStale(u, c, i)'
      BY <1>2 DEF SlotTickets, Names
    <3>1. TicketPast(u, c, i)
      BY <1>1 DEF SlotInv, SlotTickets
    <3> QED
      BY <1>2, <1>6, <2>4, <3>1 DEF TicketPast, TicketStale, Clears
  <2>6. SlotOwned(c, i)'
    BY <1>6, <2>4 DEF SlotOwned, Names
  <2> QED BY <2>1, <2>2, <2>3, <2>5, <2>6 DEF SlotInv
<1>9. OwnInv'
  <2>1. CallInv(c)'
    BY DEF CallInv, Idle, Clears
  <2> QED BY <1>2, <1>5, <1>7, <1>8, <2>1, OwnStep DEF DInv
<1>10. \A d \in Coordinators, j \in LeaseSlots :
          /\ Taken(d, j)' => Taken(d, j) /\ (d # c \/ j # i)
          /\ d # c \/ j # i => /\ Taken(d, j)' = Taken(d, j)
                               /\ Adm(d, j)' = Adm(d, j)
  BY <1>2, <1>6 DEF Taken, Adm
<1>11. ChildInv'
  <2>1. /\ slots' = slots /\ issued' = issued
        /\ children' = [children EXCEPT ![ChildSlotOf(c, i)] = FreeChild]
    BY <1>a DEF Clears, closeChild, Exchange, ChildSlotOf
  <2>2. ASSUME NEW d \in Coordinators, NEW j \in LeaseSlots, Taken(d, j)'
        PROVE  ChildHeld(d, j)'
    <3>1. /\ Taken(d, j) /\ ChildHeld(d, j) /\ Adm(d, j)' = Adm(d, j)
          /\ ChildSlotOf(d, j) # ChildSlotOf(c, i)
      BY <1>a, <1>10, <2>2 DEF DInv, ChildInv, ChildrenApart
    <3>2. children'[ChildSlotOf(d, j)] = children[ChildSlotOf(d, j)]
      <4>1. ChildSlotOf(d, j) \in Slots /\ DOMAIN children = Slots
        BY LeaseTypes, AdmissionTypes
           DEF DInv, ChildSlotOf, ChildLease, Receipt, IInv, TypeOK
      <4> QED BY <2>1, <3>1, <4>1
    <3> QED
      BY <2>1, <3>1, <3>2
         DEF ChildHeld, validateChildLease, validateReceipt, ChildSlotOf
  <2>3. ChildrenApart'
    BY <1>10 DEF DInv, ChildInv, ChildrenApart, ChildSlotOf
  <2> QED BY <2>2, <2>3 DEF ChildInv, ChildHeld
<1>12. ASSUME NEW d \in Coordinators, NEW j \in LeaseSlots, Taken(d, j),
              d # c \/ j # i, NEW k \in DOMAIN Adm(d, j).sizes
       PROVE  At(d, Adm(d, j), k)' = At(d, Adm(d, j), k)
  <2>1. /\ Key(Adm(d, j), k) \in DOMAIN objects[d]
        /\ Adm(d, j).slot = j
    BY <1>12 DEF DInv, OwnInv, SlotInv, SlotObjects, SlotShaped
  <2>2. d = c => Key(Adm(d, j), k) \notin Keys(a)
    BY <1>12, <1>a, <2>1, KeysApart DEF Keys
  <2>3. objects'[d][Key(Adm(d, j), k)] = objects[d][Key(Adm(d, j), k)]
    BY <1>3, <2>1, <2>2
  <2> QED BY <2>3, <1>10, <1>12 DEF At
<1>13. AdapterInv'
  <2>1. ASSUME NEW d \in Coordinators, NEW j \in LeaseSlots
        PROVE  ObjectsLive(d, j)'
    BY <1>10, <1>12 DEF DInv, AdapterInv, ObjectsLive, Clears
  <2>2. ASSUME NEW x \in Adapters PROVE BackendInv(x)'
    <3>1. BackendInv(x)
      BY DEF DInv, AdapterInv
    <3>2. ASSUME NEW o \in backend[x].live PROVE Remembered(o)'
      <4>1. PICK b : b = o.admission
        OBVIOUS
      <4>2. /\ Remembered(o) /\ b \in Admission /\ b.coordinator \in Coordinators
            /\ b.slot \in LeaseSlots /\ b # NoAdmission
        BY <3>1, <4>1, LiveTypes, AdmissionTypes DEF BackendInv, DInv
      <4>3. /\ Taken(b.coordinator, b.slot) /\ Adm(b.coordinator, b.slot) = b
            /\ o.ordinal \in DOMAIN b.sizes /\ At(b.coordinator, b, o.ordinal) = o
        BY <4>1, <4>2 DEF Remembered
      <4>4. b # a
        <5>1. o # NoObject
          BY <4>1, <4>2, NoAdmissionFacts
        <5> QED BY <4>2, <4>3, <5>1
      <4>5. b.coordinator # c \/ b.slot # i
        BY <1>a, <4>3, <4>4
      <4>6. At(b.coordinator, Adm(b.coordinator, b.slot), o.ordinal)'
               = At(b.coordinator, Adm(b.coordinator, b.slot), o.ordinal)
        BY <1>12, <4>2, <4>3, <4>5
      <4>7. /\ Taken(b.coordinator, b.slot)'
            /\ Adm(b.coordinator, b.slot)' = b
        BY <1>10, <4>2, <4>3, <4>5
      <4> QED BY <4>1, <4>2, <4>3, <4>6, <4>7 DEF Remembered, At
    <3> QED BY <3>1, <3>2 DEF BackendInv, BytesOf, Clears
  <2> QED BY <2>1, <2>2 DEF AdapterInv
<1> QED BY <1>4, <1>5, <1>9, <1>11, <1>13 DEF DInv

\* A cancelled admission has no object.
LEMMA CancelInv ==
    ASSUME DInv, NEW c \in Coordinators, NEW t \in tickets,
           cancelAdmission(c, t)
    PROVE  DInv'
<1>a. PICK a : a = t.admission
  OBVIOUS
<1>1. Idle(c) /\ validateAdmissionLive(c, t) /\ Accepts(c, t)
  BY DEF cancelAdmission, Accepts
<1>2. /\ a \in Admission /\ a.slot \in LeaseSlots
      /\ Adm(c, a.slot) = a /\ Taken(c, a.slot) /\ a.coordinator = c
      /\ SlotInv(c, a.slot) /\ t \notin exchanged
  BY <1>1, <1>a, Presented, AcceptedValid DEF DInv
<1>3. \A j \in LeaseSlots : ~Busy(c, j)
  BY <1>1 DEF Busy
<1>4. \A k \in DOMAIN a.sizes : At(c, a, k) = NoObject
  BY <1>1, <1>2, <1>3, <1>a
     DEF SlotInv, SlotResting, validateAdmissionLive
<1>5. Clears(c, t, a)
  BY <1>1, <1>a DEF cancelAdmission, Clears, Idle, DInv, DeviceTypeOK
<1> QED BY <1>2, <1>3, <1>4, <1>5, <1>a, ClearInvariant

\* A cleanup that failed nowhere has left no object.
LEMMA CloseInv ==
    ASSUME DInv, NEW c \in Coordinators, close(c)
    PROVE  DInv'
<1>a. PICK t, a : t = call[c].ticket /\ a = t.admission
  OBVIOUS
<1>1. Freeing(c) /\ ~Idle(c) /\ ToFree(c) = {} /\ ~call[c].failed
  BY DEF close, Tried, FreeFailed, Freeing, Idle
<1>2. /\ a \in Admission /\ a.slot \in LeaseSlots
      /\ Adm(c, a.slot) = a /\ Taken(c, a.slot) /\ a.coordinator = c
      /\ t \in tickets \ exchanged /\ CallInv(c)
      /\ \A j \in LeaseSlots \ {a.slot} : ~Busy(c, j)
      /\ \A k \in DOMAIN a.sizes : Key(a, k) \in DOMAIN objects[c]
  BY <1>1, <1>a, InCall DEF DInv
<1>3. ASSUME NEW k \in DOMAIN a.sizes PROVE At(c, a, k) = NoObject
  <2>1. k \in 1 .. Len(a.sizes) /\ Len(a.sizes) \in Nat
        /\ call[c].ordinal \in Nat
    BY <1>2, AdmissionTypes, LeaseTypes DEF DInv
  <2>2. CASE k <= call[c].ordinal
    <3>1. k \in 1 .. call[c].ordinal
      BY <2>1, <2>2
    <3> QED BY <1>1, <1>2, <1>a, <3>1 DEF ToFree, Live, At
  <2>3. CASE k > call[c].ordinal
    BY <1>1, <1>2, <1>a, <2>3 DEF CallInv
  <2> QED BY <2>1, <2>2, <2>3
<1>4. Clears(c, t, a)
  <2>1. IdleCall \in Call /\ IdleCall.op = "idle"
    BY NoAdmissionTyped DEF IdleCall, Call, AdmissionTicket, Ticket
  <2> QED BY <1>a, <2>1 DEF close, Clears, DInv, DeviceTypeOK
<1> QED BY <1>2, <1>3, <1>4, <1>a, ClearInvariant

-----------------------------------------------------------------------------
(* A slot is taken.                                                        *)

\* The charge of a manifest is one that the Bank is asked for.
LEMMA ManifestTypes ==
    ASSUME NEW m \in Manifests
    PROVE  /\ m \in Seq(Nat) /\ DeviceClaim(m) \in Claim
           /\ DeviceClaim(m) \in RequestClaims
           /\ DOMAIN m = 1 .. Len(m) /\ Len(m) \in Nat
<1>1. m \in Seq(Nat \ {0}) /\ DeviceClaim(m) \in RequestClaims
  BY DeviceAssumption
<1>2. m \in Seq(Nat)
  BY <1>1
<1> QED BY <1>1, <1>2, InputTypes

\* The admission n of coordinator c is recorded in slot i, its object slots
\* are reserved and its child is open.
Admits(c, i, n, parent) ==
    /\ Idle(c) /\ FirstFreeLease(c, i)
    /\ n = [coordinator |-> c, slot |-> i, generation |-> nextAllocation[c],
            adapter |-> n.adapter,
            child |-> ChildLeaseAt(parent, nextChildGeneration,
                          DeviceClaim(n.sizes), DeviceClaim(n.sizes)),
            sizes |-> n.sizes]
    /\ n.adapter \in Adapters /\ n.sizes \in Manifests
    /\ parent \in Receipts
    /\ openChild(parent, DeviceClaim(n.sizes), DeviceClaim(n.sizes))
    /\ leases' = [leases EXCEPT ![c][i] =
                     [FreeLease EXCEPT !.state = "admitted", !.admission = n]]
    /\ objects' = [objects EXCEPT ![c] =
                     [key \in DOMAIN objects[c] \union Keys(n) |->
                        IF key \in Keys(n) THEN NoObject ELSE objects[c][key]]]
    /\ tickets' = tickets \union {AdmissionTicket(n)}
    /\ nextAllocation' = [nextAllocation EXCEPT ![c] = @ + 1]
    /\ UNCHANGED <<call, backend, exchanged>>

\* What the new admission is.
LEMMA AdmittedTypes ==
    ASSUME DInv, NEW c \in Coordinators, NEW i \in LeaseSlots, NEW n,
           NEW parent, Admits(c, i, n, parent)
    PROVE  /\ n \in Admission /\ n.coordinator = c /\ n.slot = i
           /\ n.generation = nextAllocation[c]
           /\ n.child.claim = DeviceClaim(n.sizes)
           /\ n.child = ChildLeaseAt(parent, nextChildGeneration,
                            DeviceClaim(n.sizes), DeviceClaim(n.sizes))
           /\ n.child.parent = parent
           /\ parent \in Receipt /\ DeviceClaim(n.sizes) \in Claim
<1>1. n.sizes \in Seq(Nat) /\ DeviceClaim(n.sizes) \in Claim
  BY ManifestTypes DEF Admits
<1>2. parent \in Receipt
  BY HandleKinds DEF Admits, DInv, IInv
<1>3. n.adapter \in Nat /\ nextAllocation[c] \in Nat
      /\ nextChildGeneration \in Nat
  BY DeviceAssumption, LeaseTypes DEF Admits, DInv, IInv, TypeOK
<1>4. PICK child : child = ChildLeaseAt(parent, nextChildGeneration,
                              DeviceClaim(n.sizes), DeviceClaim(n.sizes))
  OBVIOUS
<1>5. child \in ChildLease /\ child.claim = DeviceClaim(n.sizes)
      /\ child.parent = parent
  BY <1>1, <1>2, <1>3, <1>4 DEF ChildLeaseAt, ChildLease
<1>6. PICK x, sizes : x = n.adapter /\ sizes = n.sizes
  OBVIOUS
<1>7. n = [coordinator |-> c, slot |-> i, generation |-> nextAllocation[c],
           adapter |-> x, child |-> child, sizes |-> sizes]
  BY <1>4, <1>6 DEF Admits
<1> QED BY <1>1, <1>2, <1>3, <1>4, <1>5, <1>6, <1>7 DEF Admission

\* The new object slots are reserved, the others stay.
LEMMA AdmittedObjects ==
    ASSUME DInv, NEW c \in Coordinators, NEW i \in LeaseSlots, NEW n,
           NEW parent, Admits(c, i, n, parent)
    PROVE  /\ DOMAIN objects' = Coordinators
           /\ \A d \in Coordinators : d # c => objects'[d] = objects[d]
           /\ DOMAIN objects'[c] = DOMAIN objects[c] \union Keys(n)
           /\ \A key \in Keys(n) : objects'[c][key] = NoObject
           /\ \A key \in DOMAIN objects[c] \ Keys(n) :
                 objects'[c][key] = objects[c][key]
<1>1. DOMAIN objects = Coordinators
  BY DEF DInv, DeviceTypeOK
<1>2. objects' = [objects EXCEPT ![c] =
                     [key \in DOMAIN objects[c] \union Keys(n) |->
                        IF key \in Keys(n) THEN NoObject ELSE objects[c][key]]]
  BY DEF Admits
<1>3. objects'[c] = [key \in DOMAIN objects[c] \union Keys(n) |->
                        IF key \in Keys(n) THEN NoObject ELSE objects[c][key]]
  BY <1>1, <1>2
<1>4. \A d \in Coordinators : d # c => objects'[d] = objects[d]
  BY <1>1, <1>2
<1>5. DOMAIN objects' = Coordinators
  BY <1>1, <1>2
<1> QED BY <1>3, <1>4, <1>5

\* Its child is new in a slot of the Bank that had none.
LEMMA AdmittedChild ==
    ASSUME DInv, NEW c \in Coordinators, NEW i \in LeaseSlots, NEW n,
           NEW parent, Admits(c, i, n, parent), ~Taken(c, i),
           Adm(c, i)' = n,
           \A d \in Coordinators, j \in LeaseSlots :
              d # c \/ j # i => /\ Taken(d, j)' = Taken(d, j)
                                /\ Adm(d, j)' = Adm(d, j)
    PROVE  ChildInv'
<1>1. /\ n.child = ChildLeaseAt(parent, nextChildGeneration,
                       DeviceClaim(n.sizes), DeviceClaim(n.sizes))
      /\ parent \in Receipt /\ parent.slot \in Slots
      /\ n.child.parent = parent
  BY AdmittedTypes DEF Receipt
<1>2. PICK child, claim : child = n.child /\ claim = DeviceClaim(n.sizes)
  OBVIOUS
<1>3. /\ child.kind = "child" /\ child.parent = parent
      /\ child.generation = nextChildGeneration
      /\ child.ceiling = claim /\ child.claim = claim
  BY <1>1, <1>2 DEF ChildLeaseAt
<1>4. /\ slots' = slots /\ issued' = issued \union {child}
      /\ children' = [children EXCEPT ![parent.slot] =
                         [state |-> "active",
                          generation |-> nextChildGeneration,
                          ceiling |-> claim, claim |-> claim]]
      /\ validateReceipt(parent) /\ children[parent.slot].state = "free"
  BY <1>1, <1>2 DEF Admits, openChild, Exchange
<1>5. DOMAIN children = Slots
  BY DEF DInv, IInv, TypeOK
<1>6. validateChildLease(child)'
  <2>1. /\ children'[parent.slot].state = "active"
        /\ children'[parent.slot].generation = nextChildGeneration
        /\ children'[parent.slot].ceiling = claim
        /\ children'[parent.slot].claim = claim
    BY <1>1, <1>4, <1>5
  <2>2. validateReceipt(parent)'
    BY <1>4 DEF validateReceipt
  <2> QED BY <1>3, <2>1, <2>2 DEF validateChildLease
<1>7. ASSUME NEW d \in Coordinators, NEW j \in LeaseSlots, Taken(d, j)
      PROVE  ChildSlotOf(d, j) # parent.slot /\ ChildSlotOf(d, j) \in Slots
  <2>1. ChildHeld(d, j)
    BY DEF DInv, ChildInv
  <2>2. ChildSlotOf(d, j) \in Slots
    BY LeaseTypes, AdmissionTypes DEF DInv, ChildSlotOf, ChildLease, Receipt
  <2> QED
    BY <1>4, <1>7, <2>1, <2>2 DEF ChildHeld, validateChildLease, ChildSlotOf
<1>8. ASSUME NEW d \in Coordinators, NEW j \in LeaseSlots, Taken(d, j)'
      PROVE  ChildHeld(d, j)'
  <2>1. CASE d = c /\ j = i
    BY <1>2, <1>4, <1>6, <2>1 DEF ChildHeld
  <2>2. CASE d # c \/ j # i
    <3>1. /\ Taken(d, j) /\ ChildHeld(d, j) /\ Adm(d, j)' = Adm(d, j)
      BY <1>8, <2>2 DEF DInv, ChildInv
    <3>2. children'[ChildSlotOf(d, j)] = children[ChildSlotOf(d, j)]
      BY <1>4, <1>5, <1>7, <3>1
    <3> QED
      BY <1>4, <3>1, <3>2
         DEF ChildHeld, validateChildLease, validateReceipt, ChildSlotOf
  <2> QED BY <2>1, <2>2
<1>9. ChildrenApart'
  <2> SUFFICES ASSUME NEW d \in Coordinators, NEW j \in LeaseSlots,
                      NEW e \in Coordinators, NEW k \in LeaseSlots,
                      Taken(d, j)', Taken(e, k)',
                      ChildSlotOf(d, j)' = ChildSlotOf(e, k)'
               PROVE  d = e /\ j = k
    BY DEF ChildrenApart
  <2>1. ChildSlotOf(c, i)' = parent.slot
    BY <1>1 DEF ChildSlotOf
  <2>2. ASSUME NEW x \in Coordinators, NEW m \in LeaseSlots, Taken(x, m)',
               x # c \/ m # i
        PROVE  /\ Taken(x, m) /\ ChildSlotOf(x, m)' = ChildSlotOf(x, m)
               /\ ChildSlotOf(x, m)' # parent.slot
    BY <1>7, <2>2 DEF ChildSlotOf
  <2> QED BY <2>1, <2>2 DEF DInv, ChildInv, ChildrenApart
<1> QED BY <1>8, <1>9 DEF ChildInv, ChildHeld

\* A new admission is older than none: no ticket carries it yet.
LEMMA AdmitInv ==
    ASSUME DInv, NEW c \in Coordinators, NEW i \in LeaseSlots, NEW n,
           NEW parent, Admits(c, i, n, parent)
    PROVE  DInv'
<1>1. /\ n \in Admission /\ n.coordinator = c /\ n.slot = i
      /\ n.generation = nextAllocation[c] /\ n.adapter \in Adapters
      /\ n.child.claim = DeviceClaim(n.sizes)
      /\ DeviceClaim(n.sizes) \in Claim
  <2>1. n.adapter \in Adapters
    BY DEF Admits
  <2> QED BY <2>1, AdmittedTypes
<1>2. /\ DOMAIN objects' = Coordinators
      /\ \A d \in Coordinators : d # c => objects'[d] = objects[d]
      /\ DOMAIN objects'[c] = DOMAIN objects[c] \union Keys(n)
      /\ \A key \in Keys(n) : objects'[c][key] = NoObject
      /\ \A key \in DOMAIN objects[c] \ Keys(n) :
            objects'[c][key] = objects[c][key]
  BY AdmittedObjects
<1>3. PICK s : s = [FreeLease EXCEPT !.state = "admitted", !.admission = n]
  OBVIOUS
<1>4. s \in LeaseSlot /\ s.state = "admitted" /\ s.admission = n
  BY <1>1, <1>3 DEF FreeLease, LeaseSlot
<1>5. PICK new : new = AdmissionTicket(n)
  OBVIOUS
<1>6. new \in Ticket /\ new.kind = "admission" /\ new.admission = n
  BY <1>1, <1>5 DEF AdmissionTicket, Ticket
<1>7. /\ leases'[c][i] = s
      /\ \A d \in Coordinators, j \in LeaseSlots :
            d # c \/ j # i => leases'[d][j] = leases[d][j]
      /\ leases' \in [Coordinators -> [LeaseSlots -> LeaseSlot]]
      /\ nextAllocation'[c] = nextAllocation[c] + 1
      /\ nextAllocation' \in [Coordinators -> Nat]
      /\ \A d \in Coordinators : /\ nextAllocation[d] <= nextAllocation'[d]
                                 /\ nextAllocation[d] \in Nat
      /\ tickets' = tickets \union {new}
      /\ Idle(c) /\ ~Taken(c, i)
      /\ UNCHANGED <<call, backend, exchanged>>
  <2>1. leases' = [leases EXCEPT ![c][i] = s]
    BY <1>3 DEF Admits
  <2>2. /\ leases'[c][i] = s
        /\ \A d \in Coordinators, j \in LeaseSlots :
              d # c \/ j # i => leases'[d][j] = leases[d][j]
        /\ leases' \in [Coordinators -> [LeaseSlots -> LeaseSlot]]
    BY <1>4, <2>1 DEF DInv, DeviceTypeOK
  <2>3. /\ nextAllocation'[c] = nextAllocation[c] + 1
        /\ nextAllocation' \in [Coordinators -> Nat]
        /\ \A d \in Coordinators : /\ nextAllocation[d] <= nextAllocation'[d]
                                   /\ nextAllocation[d] \in Nat
    BY DEF Admits, DInv, DeviceTypeOK
  <2> QED
    BY <1>5, <2>2, <2>3 DEF Admits, FirstFreeLease, Taken
<1>8. IInv'
  BY <1>1, OpenChildInv DEF Admits, DInv
<1>9. DeviceTypeOK'
  <2>1. \A k \in DOMAIN n.sizes : Key(n, k) \in LeaseSlots \X Nat \X Nat
    BY <1>1, AdmissionTypes DEF Key
  <2>2. NoObject \in Object
    BY NoAdmissionTyped DEF NoObject, Object
  <2>3. \A d \in Coordinators :
              /\ DOMAIN objects'[d] \subseteq LeaseSlots \X Nat \X Nat
              /\ \A key \in DOMAIN objects'[d] : objects'[d][key] \in Object
    BY <1>2, <2>1, <2>2 DEF DInv, DeviceTypeOK, Keys
  <2>4. TypeOK'
    BY <1>8 DEF IInv
  <2> QED
    BY <1>2, <1>6, <1>7, <2>3, <2>4 DEF DInv, DeviceTypeOK
<1>10. Adm(c, i)' = n /\ Taken(c, i)'
  BY <1>4, <1>7 DEF Adm, Taken
<1>11. SlotInv(c, i) /\ Names(new, c, i)
  BY <1>1, <1>6 DEF DInv, OwnInv, Names
<1>12. StepAt(c, i)
  <2>1. \A j, g, k : j # i =>
              /\ <<j, g, k>> \in DOMAIN objects'[c]
                    <=> <<j, g, k>> \in DOMAIN objects[c]
              /\ <<j, g, k>> \in DOMAIN objects[c] =>
                    objects'[c][<<j, g, k>>] = objects[c][<<j, g, k>>]
    <3>1. \A j, g, k : j # i => <<j, g, k>> \notin Keys(n)
      BY <1>1 DEF Keys, Key
    <3> QED BY <1>2, <3>1
  <2>2. \A j \in LeaseSlots \ {i} : ~Busy(c, j)
    BY <1>7 DEF Busy
  <2>3. \A d \in Coordinators : d # c => /\ objects'[d] = objects[d]
                                         /\ call'[d] = call[d]
    BY <1>2, <1>7
  <2>4. \A u : ~Names(u, c, i) => /\ u \in tickets' <=> u \in tickets
                                  /\ u \in exchanged' <=> u \in exchanged
    BY <1>7, <1>11
  <2> QED BY <1>7, <2>1, <2>2, <2>3, <2>4, AtOneSlot
<1>13. ASSUME NEW u \in tickets, Names(u, c, i)
       PROVE  /\ u.admission.generation < nextAllocation[c]
              /\ u.admission # n /\ u \in exchanged
  <2>1. /\ TicketPast(u, c, i)
        /\ u \notin exchanged => TicketValid(u, c, i)
    BY <1>11, <1>13 DEF SlotInv, SlotTickets
  <2>2. u.admission.generation < nextAllocation[c]
    BY <2>1 DEF TicketPast
  <2>3. u \in exchanged
    <3>1. u.kind # "none"
      BY TicketTypes DEF Ticket, DInv
    <3> QED BY <1>7, <2>1, <3>1 DEF TicketValid, KindOf, Taken
  <2> QED BY <1>1, <1>7, <2>2, <2>3
<1>14. new \notin exchanged
  BY <1>6, <1>11, <1>13 DEF DInv, DeviceTypeOK
<1>15. SlotInv(c, i)'
  <2>1. SlotShaped(c, i)'
    <3>1. nextAllocation[c] < nextAllocation[c] + 1
      BY <1>7
    <3> QED BY <1>1, <1>7, <1>10, <3>1 DEF SlotShaped
  <2>2. SlotObjects(c, i)'
    <3>1. \A g, k : <<i, g, k>> \in DOMAIN objects'[c] => <<i, g, k>> \in Keys(n)
      BY <1>2, <1>7, <1>11 DEF SlotInv, SlotObjects
    <3>2. \A k \in DOMAIN n.sizes : /\ Key(n, k) \in DOMAIN objects'[c]
                                    /\ At(c, n, k)' = NoObject
      BY <1>2 DEF Keys, At
    <3> QED BY <1>10, <3>1, <3>2 DEF SlotObjects, At
  <2>3. SlotResting(c, i)'
    <3>1. \A k \in DOMAIN n.sizes : At(c, n, k)' = NoObject
      BY <1>2 DEF Keys, At
    <3> QED BY <1>4, <1>7, <1>10, <3>1 DEF SlotResting, At
  <2>4. SlotTickets(c, i)'
    <3> SUFFICES ASSUME NEW u \in tickets', Names(u, c, i)
                 PROVE  /\ TicketPast(u, c, i)'
                        /\ u \notin exchanged' => TicketValid(u, c, i)'
                        /\ u \in exchanged' => TicketStale(u, c, i)'
      BY DEF SlotTickets, Names
    <3>1. CASE u = new
      <4>1. n.generation < nextAllocation'[c]
        BY <1>1, <1>7
      <4> QED
        BY <1>4, <1>6, <1>7, <1>10, <1>14, <3>1, <4>1
           DEF TicketPast, TicketValid, KindOf
    <3>2. CASE u \in tickets
      <4>1. u.admission.generation \in Nat
        BY <3>2, TicketTypes, AdmissionTypes DEF DInv
      <4>2. u.admission.generation < nextAllocation'[c]
        BY <1>7, <1>13, <3>2, <4>1
      <4> QED
        BY <1>7, <1>10, <1>13, <3>2, <4>2 DEF TicketPast, TicketStale
    <3> QED BY <1>7, <3>1, <3>2
  <2>5. SlotOwned(c, i)'
    <3>1. new \in tickets' \ exchanged'
      BY <1>7, <1>14
    <3>2. \A u \in tickets' \ exchanged' : Names(u, c, i) => u = new
      BY <1>7, <1>13
    <3> QED BY <1>6, <1>10, <3>1, <3>2 DEF SlotOwned, Names
  <2> QED BY <2>1, <2>2, <2>3, <2>4, <2>5 DEF SlotInv
<1>16. OwnInv'
  <2>1. CallInv(c)'
    BY <1>7 DEF CallInv, Idle
  <2> QED BY <1>1, <1>6, <1>7, <1>9, <1>12, <1>15, <2>1, OwnStep DEF DInv
<1>17. \A d \in Coordinators, j \in LeaseSlots :
          d # c \/ j # i => /\ Taken(d, j)' = Taken(d, j)
                            /\ Adm(d, j)' = Adm(d, j)
  BY <1>7 DEF Taken, Adm
<1>18. ChildInv'
  BY <1>7, <1>10, <1>17, AdmittedChild
<1>19. ASSUME NEW d \in Coordinators, NEW j \in LeaseSlots, Taken(d, j),
              NEW k \in DOMAIN Adm(d, j).sizes
       PROVE  At(d, Adm(d, j), k)' = At(d, Adm(d, j), k)
  <2>1. /\ Key(Adm(d, j), k) \in DOMAIN objects[d]
        /\ Adm(d, j).slot = j /\ (d # c \/ j # i)
    BY <1>7, <1>19 DEF DInv, OwnInv, SlotInv, SlotObjects, SlotShaped
  <2>2. d = c => Key(Adm(d, j), k) \notin Keys(n)
    BY <1>1, <2>1, KeysApart DEF Keys
  <2>3. objects'[d][Key(Adm(d, j), k)] = objects[d][Key(Adm(d, j), k)]
    BY <1>2, <2>1, <2>2
  <2> QED BY <2>1, <2>3, <1>17 DEF At
<1>20. AdapterInv'
  <2>1. ASSUME NEW d \in Coordinators, NEW j \in LeaseSlots
        PROVE  ObjectsLive(d, j)'
    <3>1. CASE d = c /\ j = i
      BY <1>2, <1>10, <3>1 DEF ObjectsLive, At, Keys
    <3>2. CASE d # c \/ j # i
      BY <1>7, <1>17, <1>19, <3>2 DEF DInv, AdapterInv, ObjectsLive
    <3> QED BY <3>1, <3>2
  <2>2. ASSUME NEW x \in Adapters PROVE BackendInv(x)'
    <3>1. BackendInv(x)
      BY DEF DInv, AdapterInv
    <3>2. ASSUME NEW o \in backend[x].live PROVE Remembered(o)'
      <4>1. PICK b : b = o.admission
        OBVIOUS
      <4>2. /\ Remembered(o) /\ b \in Admission /\ b.coordinator \in Coordinators
            /\ b.slot \in LeaseSlots
        BY <3>1, <4>1, LiveTypes, AdmissionTypes DEF BackendInv, DInv
      <4>3. /\ Taken(b.coordinator, b.slot) /\ Adm(b.coordinator, b.slot) = b
            /\ o.ordinal \in DOMAIN b.sizes /\ At(b.coordinator, b, o.ordinal) = o
        BY <4>1, <4>2 DEF Remembered
      <4>4. b.coordinator # c \/ b.slot # i
        BY <1>7, <4>3
      <4>5. At(b.coordinator, Adm(b.coordinator, b.slot), o.ordinal)'
               = At(b.coordinator, Adm(b.coordinator, b.slot), o.ordinal)
        BY <1>19, <4>2, <4>3
      <4>6. /\ Taken(b.coordinator, b.slot)'
            /\ Adm(b.coordinator, b.slot)' = b
        BY <1>17, <4>2, <4>3, <4>4
      <4> QED BY <4>1, <4>2, <4>3, <4>5, <4>6 DEF Remembered, At
    <3> QED BY <1>7, <3>1, <3>2 DEF BackendInv, BytesOf
  <2> QED BY <2>1, <2>2 DEF AdapterInv
<1> QED BY <1>8, <1>9, <1>16, <1>18, <1>20 DEF DInv

-----------------------------------------------------------------------------
(* The other clients of the Bank, and the whole invariant.                 *)

\* A child that a Bank step does not touch keeps its lease valid: no call
\* takes the receipt away from under it.
LEMMA ChildStands ==
    ASSUME IInv, TypeOK', Next, NEW u \in issued, validateChildLease(u),
           children'[u.parent.slot] = children[u.parent.slot]
    PROVE  u \in issued' /\ validateChildLease(u)'
<1>i. PICK i : i = u.parent.slot
  OBVIOUS
<1>1. TypeOK /\ StepCases
  BY NextCases DEF IInv
<1>2. /\ u.kind = "child" /\ u.parent.kind = "receipt" /\ i \in Slots
      /\ slots[i].state = "committed" /\ children[i].state = "active"
  <2>1. u \in ChildLease
    BY <1>1, HandleKinds DEF ChildLeases, validateChildLease
  <2> QED
    BY <1>i, <2>1
       DEF validateChildLease, validateReceipt, ChildLease, Receipt
<1>k. /\ \A t \in Reservations : t.slot \in Slots
      /\ \A t \in Receipts : t.slot \in Slots
      /\ \A t \in ChildLeases : t.parent.slot \in Slots
      /\ \A t \in Permits : t.receipt.slot \in Slots
  BY <1>1, HandleKinds DEF Reservation, Receipt, ChildLease, PublicationPermit
<1> DEFINE Stands == /\ issued \subseteq issued'
                     /\ slots'[i].state = "committed"
                     /\ slots'[i].generation = slots[i].generation
                     /\ slots'[i].claim = slots[i].claim
<1>15. Stands
  <2>3. CASE \E c \in RequestClaims : reserve(c)
    BY <1>1, <1>2, <2>3 DEF reserve, FirstFree, Exchange, TypeOK
  <2>4. CASE \E t \in Reservations : commit(t)
    BY <1>1, <1>2, <1>k, <2>4 DEF commit, validateReservation, Exchange, TypeOK
  <2>5. CASE \E t \in Reservations : cancel(t)
    BY <1>1, <1>2, <1>k, <2>5
       DEF cancel, ClearSlot, validateReservation, Exchange, TypeOK
  <2>6. CASE \E t \in Receipts :
               /\ validateReceipt(t)
               /\ slots[t.slot].publication = "idle"
               /\ children[t.slot].state = "free"
               /\ ClearSlot(t)
    BY <1>1, <1>2, <1>k, <2>6 DEF ClearSlot, Exchange, TypeOK
  <2>7. CASE \E t \in Receipts, ceiling \in Claim, c \in Claim :
               openChild(t, ceiling, c)
    BY <1>2, <2>7 DEF openChild, Exchange
  <2>8. CASE \E t \in ChildLeases, c \in Claim :
               /\ validateChildLease(t)
               /\ slots[t.parent.slot].publication = "idle"
               /\ resizeChildLocked(t, c)
    BY <1>2, <2>8 DEF resizeChildLocked, Exchange
  <2>9. CASE \E t \in ChildLeases : closeChild(t)
    BY <1>2, <2>9 DEF closeChild, Exchange
  <2>10. CASE \E t \in Receipts, e \in Nat, id \in SessionIds :
                bindPublicationSessionLocked(t, e, id)
    BY <1>1, <1>2, <1>k, <2>10
       DEF bindPublicationSessionLocked, TypeOK, handleVars
  <2>11. CASE \E t \in Receipts, e \in Nat, id \in SessionIds, n \in Nat :
                beginPublicationLocked(t, e, id, n)
    BY <1>1, <1>2, <1>k, <2>11 DEF beginPublicationLocked, Exchange, TypeOK
  <2>12. CASE \E t \in Receipts, e \in Nat, id \in SessionIds, n \in Nat :
                closePublicationSession(t, e, id, n)
    BY <1>1, <1>2, <1>k, <2>12 DEF closePublicationSession, TypeOK, handleVars
  <2>13. CASE \E t \in Permits : commitPublicationAssumeValid(t)
    BY <1>1, <1>2, <1>k, <2>13
       DEF commitPublicationAssumeValid, Exchange, TypeOK, Slot
  <2>14. CASE \E t \in Permits : abortPublication(t)
    BY <1>1, <1>2, <1>k, <2>14 DEF abortPublication, Exchange, TypeOK, Slot
  <2> QED
    BY <1>1, <2>3, <2>4, <2>5, <2>6, <2>7, <2>8, <2>9, <2>10, <2>11, <2>12,
       <2>13, <2>14 DEF StepCases
<1> QED BY <1>2, <1>15, <1>i DEF validateChildLease, validateReceipt

\* What the devices know is not affected by a step that leaves it alone.
LEMMA DeviceStays ==
    ASSUME DInv, UNCHANGED deviceVars, IInv'
    PROVE  DeviceTypeOK' /\ OwnInv' /\ AdapterInv' /\ (ChildInv' => DInv')
<1>1. DeviceTypeOK'
  BY DEF DInv, DeviceTypeOK, deviceVars, IInv
<1>2. \A d \in Coordinators, j \in LeaseSlots : SlotSame(d, j)
  BY DEF SlotSame, deviceVars, Busy, Idle, Adm
<1>3. \A d \in Coordinators : nextAllocation[d] <= nextAllocation'[d]
                              /\ call'[d] = call[d]
  BY LeaseTypes DEF DInv, deviceVars
<1>4. ASSUME NEW d \in Coordinators, NEW j \in LeaseSlots
      PROVE  SlotInv(d, j)'
  BY <1>1, <1>2, <1>3, SlotFrame DEF DInv, OwnInv
<1>5. ASSUME NEW d \in Coordinators PROVE CallInv(d)'
  BY <1>2, <1>3, CallFrame DEF DInv, OwnInv
<1>6. OwnInv'
  BY <1>4, <1>5 DEF OwnInv, DInv, deviceVars
<1>7. AdapterInv'
  BY ObjectsStay DEF DInv, deviceVars, Taken, Adm
<1> QED BY <1>1, <1>6, <1>7 DEF DInv

\* The other clients of the Bank cannot take the child of a lease away.
LEMMA BankInv ==
    ASSUME 0 \notin SessionIds, DInv, BankStep
    PROVE  DInv'
<1>1. Next /\ UNCHANGED deviceVars
  BY DEF BankStep
<1>2. IInv'
  BY <1>1, NextInv DEF DInv
<1>3. ASSUME NEW d \in Coordinators, NEW j \in LeaseSlots
      PROVE  ChildHeld(d, j)'
  <2> SUFFICES ASSUME Taken(d, j)
               PROVE  /\ Adm(d, j).child \in issued'
                      /\ validateChildLease(Adm(d, j).child)'
    BY <1>1 DEF ChildHeld, deviceVars, Taken, Adm, validateChildLease,
                validateReceipt
  <2>1. PICK u : u = Adm(d, j).child
    OBVIOUS
  <2>2. u \in issued /\ validateChildLease(u)
    BY <2>1 DEF DInv, ChildInv, ChildHeld
  <2>3. children'[u.parent.slot] = children[u.parent.slot]
    <3>1. j \in Occupied(d)
      BY DEF Occupied, Taken
    <3>2. \A m \in Occupied(d) :
             children'[leases[d][m].admission.child.parent.slot]
                = children[leases[d][m].admission.child.parent.slot]
      BY DEF BankStep
    <3> QED BY <2>1, <3>1, <3>2 DEF Adm
  <2>4. u \in issued' /\ validateChildLease(u)'
    BY <1>1, <1>2, <2>2, <2>3, ChildStands DEF DInv, IInv
  <2>5. Adm(d, j)' = Adm(d, j)
    BY <1>1 DEF deviceVars, Adm
  <2> QED BY <2>1, <2>4, <2>5 DEF validateChildLease, validateReceipt
<1>4. ChildrenApart'
  BY <1>1 DEF DInv, ChildInv, ChildrenApart, ChildSlotOf, Taken, Adm,
              deviceVars
<1>5. ChildInv'
  BY <1>3, <1>4 DEF ChildInv, ChildHeld
<1> QED BY <1>1, <1>2, <1>5, DeviceStays

\* The invariant holds initially.
LEMMA DeviceInitInv == DeviceInit => DInv
<1> SUFFICES ASSUME DeviceInit PROVE DInv
  OBVIOUS
<1>1. IInv
  BY InitInv DEF DeviceInit
<1>2. \A c \in Coordinators : /\ \A i \in LeaseSlots : leases[c][i] = FreeLease
                              /\ objects[c] = << >>
                              /\ call[c] = IdleCall
                              /\ nextAllocation[c] = 1
  BY DEF DeviceInit
<1>3. \A x \in Adapters : backend[x] = EmptyBackend
  BY DEF DeviceInit
<1>4. DeviceTypeOK
  <2>1. FreeLease \in LeaseSlot
    BY NoAdmissionTyped DEF FreeLease, LeaseSlot
  <2>2. IdleCall \in Call
    BY NoAdmissionTyped DEF IdleCall, Call, AdmissionTicket, Ticket
  <2>3. EmptyBackend \in Backend
    BY NoAdmissionTyped DEF EmptyBackend, Backend
  <2>4. DOMAIN objects = Coordinators
    BY DEF DeviceInit
  <2>5. \A c \in Coordinators : DOMAIN objects[c] = {}
    BY <1>2
  <2>6. /\ leases \in [Coordinators -> [LeaseSlots -> LeaseSlot]]
        /\ nextAllocation \in [Coordinators -> Nat]
        /\ call \in [Coordinators -> Call]
        /\ backend \in [Adapters -> Backend]
        /\ tickets = {} /\ exchanged = {}
    BY <2>1, <2>2, <2>3 DEF DeviceInit
  <2> QED BY <1>1, <2>4, <2>5, <2>6 DEF DeviceTypeOK, IInv
<1>5. \A c \in Coordinators, i \in LeaseSlots :
          ~Taken(c, i) /\ Adm(c, i) = NoAdmission
  BY <1>2, NoAdmissionFacts DEF Taken, Adm
<1>6. ASSUME NEW c \in Coordinators, NEW i \in LeaseSlots
      PROVE  SlotInv(c, i)
  <2>1. SlotShaped(c, i)
    BY <1>2, <1>5 DEF SlotShaped
  <2>2. SlotObjects(c, i)
    <3>1. DOMAIN objects[c] = {}
      BY <1>2
    <3> QED BY <1>5, <3>1 DEF SlotObjects
  <2>3. SlotResting(c, i)
    BY <1>2, NoAdmissionFacts DEF SlotResting
  <2>4. SlotTickets(c, i) /\ SlotOwned(c, i)
    BY <1>5 DEF SlotTickets, SlotOwned, DeviceInit
  <2> QED BY <2>1, <2>2, <2>3, <2>4 DEF SlotInv
<1>7. OwnInv
  <2>1. \A c \in Coordinators : CallInv(c)
    BY <1>2 DEF CallInv, Idle, IdleCall
  <2> QED BY <1>6, <2>1 DEF OwnInv, DeviceInit
<1>8. ChildInv
  BY <1>5 DEF ChildInv, ChildHeld, ChildrenApart
<1>9. AdapterInv
  <2>1. \A c \in Coordinators, i \in LeaseSlots : ObjectsLive(c, i)
    BY <1>5 DEF ObjectsLive
  <2>2. ASSUME NEW x \in Adapters PROVE BackendInv(x)
    <3>1. backend[x].live = {} /\ backend[x].used = 0
      BY <1>3 DEF EmptyBackend
    <3>2. IsFiniteSet({})
      BY FS_EmptySet
    <3>3. BytesOf({}) = 0
      BY <3>2, SumOfZeros DEF BytesOf
    <3> QED BY <3>1, <3>2, <3>3 DEF BackendInv
  <2> QED BY <2>1, <2>2 DEF AdapterInv
<1> QED BY <1>1, <1>4, <1>7, <1>8, <1>9 DEF DInv

\* Every step preserves the invariant.
LEMMA DeviceNextInv ==
    ASSUME 0 \notin SessionIds, DInv, DeviceNext
    PROVE  DInv'
<1>1. CASE BankStep
  BY <1>1, BankInv
<1>2. ASSUME NEW c \in Coordinators, MethodStep(c) PROVE DInv'
  <2>1. ASSUME NEW x \in Adapters, NEW parent \in Receipts,
               NEW sizes \in Manifests, admit(c, x, parent, sizes)
        PROVE  DInv'
    <3>1. PICK i \in LeaseSlots :
            LET new == [coordinator |-> c, slot |-> i,
                        generation |-> nextAllocation[c], adapter |-> x,
                        child |-> ChildLeaseAt(parent, nextChildGeneration,
                                      DeviceClaim(sizes), DeviceClaim(sizes)),
                        sizes |-> sizes]
            IN  /\ FirstFreeLease(c, i)
                /\ leases' = [leases EXCEPT ![c][i] =
                      [FreeLease EXCEPT !.state = "admitted",
                                        !.admission = new]]
                /\ objects' = [objects EXCEPT ![c] =
                      [key \in DOMAIN objects[c] \union Keys(new) |->
                         IF key \in Keys(new) THEN NoObject
                         ELSE objects[c][key]]]
                /\ tickets' = tickets \union {AdmissionTicket(new)}
      BY <2>1 DEF admit
    <3>2. PICK n : n = [coordinator |-> c, slot |-> i,
                        generation |-> nextAllocation[c], adapter |-> x,
                        child |-> ChildLeaseAt(parent, nextChildGeneration,
                                      DeviceClaim(sizes), DeviceClaim(sizes)),
                        sizes |-> sizes]
      OBVIOUS
    <3>3. n.adapter = x /\ n.sizes = sizes
      BY <3>2
    <3>4. /\ Idle(c)
          /\ openChild(parent, DeviceClaim(sizes), DeviceClaim(sizes))
          /\ nextAllocation' = [nextAllocation EXCEPT ![c] = @ + 1]
          /\ UNCHANGED <<call, backend, exchanged>>
      BY <2>1 DEF admit
    <3>5. Admits(c, i, n, parent)
      BY <2>1, <3>1, <3>2, <3>3, <3>4 DEF Admits
    <3> QED BY <3>5, AdmitInv
  <2> QED
    BY <1>2, <2>1, CancelInv, MaterializeInv, ReleaseInv DEF MethodStep
<1>3. ASSUME NEW c \in Coordinators, CallStep(c) PROVE DInv'
  BY <1>3, AbandonInv, AllocateInv, MaterializedInv, FreeInv, FreeFailsInv,
     CloseInv, RecoverInv DEF CallStep
<1> QED BY <1>1, <1>2, <1>3 DEF DeviceNext

\* So does a step that changes nothing.
LEMMA DeviceStutter == DInv /\ UNCHANGED everyVar => DInv'
<1> SUFFICES ASSUME DInv, UNCHANGED everyVar PROVE DInv'
  OBVIOUS
<1>1. UNCHANGED vars /\ UNCHANGED deviceVars
  BY DEF everyVar, deviceVars, vars
<1>2. IInv'
  BY <1>1, StutterInv DEF DInv
<1>3. ChildInv'
  BY <1>1, ChildrenStay DEF DInv, deviceVars, Taken, Adm
<1> QED BY <1>1, <1>2, <1>3, DeviceStays

-----------------------------------------------------------------------------
(* What the invariant says of every behaviour.                             *)

\* The invariant of the slots, the children and the adapters holds after any
\* sequence of coordinator, adapter and Bank calls, in any interleaving.
THEOREM DeviceInvariance ==
    ASSUME 0 \notin SessionIds PROVE DeviceSpec => []DInv
<1>1. DeviceInit => DInv
  BY DeviceInitInv
<1>2. DInv /\ [DeviceNext]_everyVar => DInv'
  BY DeviceNextInv, DeviceStutter
<1> QED BY <1>1, <1>2, PTL DEF DeviceSpec

\* Every variable keeps its shape: in particular an adapter never frees more
\* bytes than it has in use (freeCallback subtracts without a check).
THEOREM DeviceTypeCorrect ==
    ASSUME 0 \notin SessionIds PROVE DeviceSpec => []DeviceTypeOK
<1>1. DInv => DeviceTypeOK
  BY DEF DInv
<1> QED BY <1>1, DeviceInvariance, PTL

\* A coordinator opens and closes children as the Bank's own interface does,
\* and nothing else it does reaches the Bank.
LEMMA DeviceStepIsBankStep == DInv /\ [DeviceNext]_everyVar => [Next]_vars
<1> SUFFICES ASSUME DInv, [DeviceNext]_everyVar, ~UNCHANGED vars PROVE Next
  OBVIOUS
<1>1. DeviceNext
  BY DEF everyVar
<1>2. ASSUME NEW u \in issued, validateChildLease(u), closeChild(u)
      PROVE  Next
  <2>1. u \in ChildLeases
    BY <1>2 DEF ChildLeases, validateChildLease
  <2> QED BY <1>2, <2>1 DEF Next, ChildStep
<1>3. ASSUME NEW c \in Coordinators, NEW x \in Adapters,
             NEW parent \in Receipts, NEW sizes \in Manifests,
             admit(c, x, parent, sizes)
      PROVE  Next
  <2>1. openChild(parent, DeviceClaim(sizes), DeviceClaim(sizes))
    BY <1>3 DEF admit
  <2>2. DeviceClaim(sizes) \in RequestClaims
    BY DeviceAssumption
  <2>3. ChildStep
    BY <2>1, <2>2 DEF ChildStep
  <2> QED BY <2>3 DEF Next
<1>4. ASSUME NEW c \in Coordinators, NEW t \in tickets, cancelAdmission(c, t)
      PROVE  Next
  <2>a. PICK a : a = t.admission
    OBVIOUS
  <2>1. Accepts(c, t) /\ closeChild(a.child)
    BY <1>4, <2>a DEF cancelAdmission, Accepts
  <2>2. a.slot \in LeaseSlots /\ Adm(c, a.slot) = a /\ Taken(c, a.slot)
    BY <2>a, <2>1, Presented DEF DInv
  <2>3. a.child \in issued /\ validateChildLease(a.child)
    BY <2>2 DEF DInv, ChildInv, ChildHeld
  <2> QED BY <1>2, <2>1, <2>3
<1>5. ASSUME NEW c \in Coordinators, close(c) PROVE Next
  <2>a. PICK a : a = call[c].ticket.admission
    OBVIOUS
  <2>1. ~Idle(c) /\ closeChild(a.child)
    BY <1>5, <2>a DEF close, Tried, Freeing, Idle
  <2>2. a.slot \in LeaseSlots /\ Adm(c, a.slot) = a /\ Taken(c, a.slot)
    BY <2>a, <2>1, InCall DEF DInv
  <2>3. a.child \in issued /\ validateChildLease(a.child)
    BY <2>2 DEF DInv, ChildInv, ChildHeld
  <2> QED BY <1>2, <2>1, <2>3
<1>6. CASE BankStep
  BY <1>6 DEF BankStep
<1>7. ASSUME NEW c \in Coordinators, MethodStep(c) PROVE Next
  <2>1. \A t \in tickets : ~materialize(c, t) /\ ~releaseLease(c, t)
                           /\ ~retryRecovery(c, t)
    BY DEF materialize, releaseLease, retryRecovery
  <2> QED BY <1>3, <1>4, <1>7, <2>1 DEF MethodStep
<1>8. ASSUME NEW c \in Coordinators, CallStep(c) PROVE Next
  <2>1. /\ ~cancelled(c) /\ ~allocate(c) /\ ~allocationFails(c)
        /\ ~materialized(c) /\ ~free(c) /\ ~freeFails(c) /\ ~recover(c)
    BY DEF cancelled, allocate, allocationFails, materialized, free,
           freeFails, recover
  <2> QED BY <1>5, <1>8, <2>1 DEF CallStep
<1> QED BY <1>1, <1>6, <1>7, <1>8 DEF DeviceNext

\* The Bank with the coordinators as its clients is the ResourceBank: all
\* that is proved of the Bank holds of it too.
THEOREM DeviceImplementsBank ==
    ASSUME 0 \notin SessionIds PROVE DeviceSpec => Spec
<1>1. DeviceInit => Init
  BY DEF DeviceInit
<1> QED BY <1>1, DeviceInvariance, DeviceStepIsBankStep, PTL
        DEF DeviceSpec, Spec

\* The objects outstanding of the lease in a slot are those it remembers.
LEMMA OutstandingAt ==
    ASSUME DInv, NEW c \in Coordinators, NEW i \in LeaseSlots, Taken(c, i)
    PROVE  \A o : o \in Outstanding(c, Adm(c, i)) <=>
              \E k \in DOMAIN Adm(c, i).sizes :
                  o = At(c, Adm(c, i), k) /\ o # NoObject
<1>1. \A k \in DOMAIN Adm(c, i).sizes : Key(Adm(c, i), k) \in DOMAIN objects[c]
  BY DEF DInv, OwnInv, SlotInv, SlotObjects
<1> QED BY <1>1 DEF Outstanding, Keys, At

\* What the registries and the object slots hold is the same at any moment,
\* however the coordinators that share an adapter interleave and whichever
\* allocations and frees fail.
THEOREM NoObjectLost ==
    ASSUME 0 \notin SessionIds PROVE DeviceSpec => []ObjectsAccounted
<1>1. ASSUME DInv, NEW a \in Adapters
      PROVE  backend[a].live = UNION {ObjectsOn(c, a) : c \in Coordinators}
  <2>1. ASSUME NEW o \in backend[a].live
        PROVE  \E c \in Coordinators : o \in ObjectsOn(c, a)
    <3>a. PICK m : m = o.admission
      OBVIOUS
    <3>b. PICK c, i : c = m.coordinator /\ i = m.slot
      OBVIOUS
    <3>1. m.adapter = a /\ Remembered(o) /\ BackendInv(a)
      BY <1>1, <2>1, <3>a DEF DInv, AdapterInv, BackendInv
    <3>2. m \in Admission /\ m # NoAdmission
      BY <1>1, <2>1, <3>1, <3>a, LiveTypes DEF DInv
    <3>3. /\ c \in Coordinators /\ Taken(c, i) /\ Adm(c, i) = m
          /\ o.ordinal \in DOMAIN m.sizes /\ At(c, m, o.ordinal) = o
      BY <3>1, <3>a, <3>b DEF Remembered
    <3>4. i \in LeaseSlots
      BY <3>2, <3>b, AdmissionTypes
    <3>5. o # NoObject
      BY <3>2, <3>a, NoAdmissionFacts
    <3>6. o \in Outstanding(c, Adm(c, i))
      BY <1>1, <3>3, <3>4, <3>5, OutstandingAt
    <3>7. i \in {j \in Occupied(c) : leases[c][j].admission.adapter = a}
      BY <3>1, <3>3, <3>4 DEF Occupied, Taken, Adm
    <3> QED BY <3>3, <3>6, <3>7 DEF ObjectsOn, Adm
  <2>2. ASSUME NEW c \in Coordinators, NEW o \in ObjectsOn(c, a)
        PROVE  o \in backend[a].live
    <3>1. PICK i \in Occupied(c) : /\ leases[c][i].admission.adapter = a
                                   /\ o \in Outstanding(c, leases[c][i].admission)
      BY <2>2 DEF ObjectsOn
    <3>2. /\ i \in LeaseSlots /\ Taken(c, i) /\ Adm(c, i).adapter = a
          /\ o \in Outstanding(c, Adm(c, i))
      BY <3>1 DEF Occupied, Taken, Adm
    <3>3. PICK k \in DOMAIN Adm(c, i).sizes :
             o = At(c, Adm(c, i), k) /\ o # NoObject
      BY <1>1, <3>2, OutstandingAt
    <3> QED BY <1>1, <3>2, <3>3 DEF DInv, AdapterInv, ObjectsLive
  <2> QED BY <2>1, <2>2
<1>2. ASSUME DInv, NEW a \in Adapters, NEW o \in backend[a].live
      PROVE  o.admission = backend[a].active
  BY <1>2 DEF DInv, AdapterInv, BackendInv
<1>3. ASSUME DInv, NEW c \in Coordinators
      PROVE  DOMAIN objects[c] =
                UNION {Keys(leases[c][i].admission) : i \in Occupied(c)}
  <2>1. ASSUME NEW key \in DOMAIN objects[c]
        PROVE  \E i \in Occupied(c) : key \in Keys(leases[c][i].admission)
    <3>1. PICK i \in LeaseSlots, g \in Nat, k \in Nat : key = <<i, g, k>>
      BY <1>3 DEF DInv, DeviceTypeOK
    <3>2. Taken(c, i) /\ key \in Keys(Adm(c, i))
      BY <1>3, <3>1 DEF DInv, OwnInv, SlotInv, SlotObjects
    <3> QED BY <3>2 DEF Occupied, Taken, Adm
  <2>2. ASSUME NEW i \in Occupied(c), NEW key \in Keys(leases[c][i].admission)
        PROVE  key \in DOMAIN objects[c]
    <3>1. i \in LeaseSlots /\ Taken(c, i) /\ key \in Keys(Adm(c, i))
      BY DEF Occupied, Taken, Adm
    <3> QED BY <1>3, <3>1 DEF Keys, DInv, OwnInv, SlotInv, SlotObjects
  <2> QED BY <2>1, <2>2
<1>4. ASSUME DInv, NEW c \in Coordinators, NEW i \in Occupied(c), Idle(c)
      PROVE  /\ leases[c][i].state = "admitted" =>
                   Outstanding(c, leases[c][i].admission) = {}
             /\ leases[c][i].state = "live" =>
                   \A key \in Keys(leases[c][i].admission) : Live(c, key)
  <2>1. i \in LeaseSlots /\ Taken(c, i)
    BY DEF Occupied, Taken
  <2>2. \A k \in DOMAIN Adm(c, i).sizes :
          /\ leases[c][i].state = "admitted" => At(c, Adm(c, i), k) = NoObject
          /\ leases[c][i].state = "live" => At(c, Adm(c, i), k) # NoObject
          /\ Key(Adm(c, i), k) \in DOMAIN objects[c]
    BY <1>4, <2>1 DEF DInv, OwnInv, SlotInv, SlotResting, SlotObjects, Busy
  <2>3. leases[c][i].state = "admitted" => Outstanding(c, Adm(c, i)) = {}
    BY <1>4, <2>1, <2>2, OutstandingAt
  <2>4. leases[c][i].state = "live" =>
           \A key \in Keys(Adm(c, i)) : Live(c, key)
    BY <2>2 DEF Keys, Live, At
  <2> QED BY <2>3, <2>4 DEF Adm
<1>5. DInv => ObjectsAccounted
  BY <1>1, <1>2, <1>3, <1>4 DEF ObjectsAccounted
<1> QED BY <1>5, DeviceInvariance, PTL

\* The one valid ticket of a slot is accepted when no method is in progress.
LEMMA ValidAccepted ==
    ASSUME DInv, NEW c \in Coordinators, Idle(c), NEW t \in tickets,
           t.admission.coordinator = c, t \notin exchanged
    PROVE  Accepts(c, t)
<1>a. PICK i : i = t.admission.slot
  OBVIOUS
<1>1. t \in Ticket /\ i \in LeaseSlots
  BY <1>a, TicketTypes DEF DInv
<1>2. TicketValid(t, c, i)
  BY <1>1, <1>a DEF DInv, OwnInv, SlotInv, SlotTickets, Names
<1>3. Current(c, t) /\ t.admission = Adm(c, i)
  BY <1>2, <1>a DEF TicketValid, Current, Adm
<1>4. leases[c][i] \in LeaseSlot
  BY <1>1, LeaseTypes DEF DInv
<1>5. CASE t.kind = "admission"
  BY <1>2, <1>3, <1>4, <1>5, <1>a
     DEF TicketValid, KindOf, LeaseSlot, validateAdmissionLive, Accepts
<1>6. CASE t.kind = "lease"
  BY <1>2, <1>3, <1>4, <1>6, <1>a
     DEF TicketValid, KindOf, LeaseSlot, validateLeaseLive, Accepts
<1>7. CASE t.kind = "recovery"
  <2>1. leases[c][i].state = "recovery_required"
    BY <1>2, <1>4, <1>7 DEF TicketValid, KindOf, LeaseSlot
  <2>2. /\ t.recoveryGeneration = leases[c][i].recoveryGeneration
        /\ Outstanding(c, t.admission) = t.outstanding
    BY <1>2, <1>3, <1>7 DEF TicketValid, Busy
  <2> QED BY <1>3, <1>7, <1>a, <2>1, <2>2 DEF validateRecoveryLive, Accepts
<1> QED BY <1>1, <1>5, <1>6, <1>7 DEF Ticket

\* A copied ticket is refused once the original was exchanged, even when the
\* recovery generation is at its limit and no longer moves, and an original
\* is never refused.
THEOREM TicketsAreExact ==
    ASSUME 0 \notin SessionIds PROVE DeviceSpec => []TicketsExact
<1>1. ASSUME DInv, NEW c \in Coordinators, NEW t \in tickets, Idle(c),
             t.admission.coordinator = c
      PROVE  Accepts(c, t) <=> t \notin exchanged
  BY <1>1, AcceptedValid, ValidAccepted DEF DInv
<1>2. ASSUME DInv, NEW c \in Coordinators, NEW i \in Occupied(c)
      PROVE  \E t \in tickets \ exchanged :
                t.admission = leases[c][i].admission
  <2>1. i \in LeaseSlots /\ Taken(c, i)
    BY DEF Occupied, Taken
  <2> QED BY <1>2, <2>1 DEF DInv, OwnInv, SlotInv, SlotOwned, Adm
<1>3. DInv => TicketsExact
  BY <1>1, <1>2 DEF TicketsExact
<1> QED BY <1>3, DeviceInvariance, PTL

-----------------------------------------------------------------------------
(* Bytes against charges.                                                  *)

\* A part sums to no more than the whole.
LEMMA SumOfSubset ==
    ASSUME NEW f, NEW S, IsFiniteSet(S), \A x \in S : f[x] \in Nat,
           NEW A, A \subseteq S
    PROVE  Sum(f, A) <= Sum(f, S)
<1>b. PICK B : B = S \ A
  OBVIOUS
<1>1. IsFiniteSet(A) /\ IsFiniteSet(B)
  BY <1>b, FS_Subset
<1>2. A \union B = S /\ A \intersect B = {}
  BY <1>b
<1>3. /\ \A x \in A \union B : f[x] \in Nat
      /\ \A x \in A : f[x] \in Nat
      /\ \A x \in B : f[x] \in Nat
  BY <1>2
<1>4. Sum(f, A \union B) = Sum(f, A) + Sum(f, B)
  BY <1>1, <1>2, <1>3, SumUnion
<1>5. Sum(f, A) \in Nat /\ Sum(f, B) \in Nat
  BY <1>1, <1>3, SumType
<1>6. Sum(f, S) = Sum(f, A) + Sum(f, B)
  BY <1>2, <1>4
<1> QED BY <1>5, <1>6

\* A serving adapter has an object, and all its objects are of one lease.
Serving == {x \in Adapters : backend[x].live # {}}

LEMMA ServesOne ==
    ASSUME DInv, NEW x \in Serving, NEW m, m = backend[x].active
    PROVE  /\ m \in Admission /\ m.adapter = x
           /\ m.coordinator \in Coordinators /\ m.slot \in LeaseSlots
           /\ Taken(m.coordinator, m.slot)
           /\ Adm(m.coordinator, m.slot) = m
           /\ \A o \in backend[x].live : /\ o.admission = m
                                         /\ o.ordinal \in DOMAIN m.sizes
                                         /\ At(m.coordinator, m, o.ordinal) = o
<1>1. BackendInv(x)
  BY DEF DInv, AdapterInv, Serving
<1>2. \A o \in backend[x].live : o.admission = m /\ m.adapter = x
                                 /\ Remembered(o)
  BY <1>1 DEF BackendInv
<1>3. PICK o : o \in backend[x].live
  BY DEF Serving
<1>4. m \in Admission
  BY <1>1, <1>2, <1>3, LiveTypes DEF DInv, Serving
<1>5. m.slot \in LeaseSlots
  BY <1>4, AdmissionTypes
<1> QED BY <1>2, <1>3, <1>4, <1>5 DEF Remembered

\* What an adapter has in use is at most the charge of the lease it serves.
LEMMA WithinCharge ==
    ASSUME DInv, NEW x \in Serving, NEW m, m = backend[x].active
    PROVE  backend[x].used <= m.child.claim[DeviceClass]
<1>1. /\ m \in Admission
      /\ \A o \in backend[x].live : /\ o.admission = m
                                    /\ o.ordinal \in DOMAIN m.sizes
                                    /\ At(m.coordinator, m, o.ordinal) = o
      /\ m.coordinator \in Coordinators /\ m.slot \in LeaseSlots
      /\ Taken(m.coordinator, m.slot) /\ Adm(m.coordinator, m.slot) = m
  BY ServesOne
<1>2. m.child.claim[DeviceClass] = Sum(m.sizes, DOMAIN m.sizes)
  <2>1. m.child.claim = DeviceClaim(m.sizes)
    BY <1>1 DEF DInv, OwnInv, SlotInv, SlotShaped
  <2>2. PICK n : n = SumFunctionOnSet(m.sizes, DOMAIN m.sizes)
    OBVIOUS
  <2>3. DeviceClass \in DOMAIN ZeroClaim
    BY DeviceAssumption DEF ZeroClaim
  <2>4. [ZeroClaim EXCEPT ![DeviceClass] = n][DeviceClass] = n
    BY <2>3
  <2>5. DeviceClaim(m.sizes) = [ZeroClaim EXCEPT ![DeviceClass] = n]
    BY <2>2 DEF DeviceClaim
  <2>6. n = Sum(m.sizes, DOMAIN m.sizes)
    BY <2>2 DEF Sum
  <2> QED BY <2>1, <2>4, <2>5, <2>6
<1>3. /\ IsFiniteSet(DOMAIN m.sizes)
      /\ \A k \in DOMAIN m.sizes : m.sizes[k] \in Nat
  <2>1. /\ DOMAIN m.sizes = 1 .. Len(m.sizes) /\ Len(m.sizes) \in Nat
        /\ \A k \in DOMAIN m.sizes : m.sizes[k] \in Nat
    BY <1>1, AdmissionTypes
  <2>2. IsFiniteSet(1 .. Len(m.sizes))
    BY <2>1, FS_Interval
  <2> QED BY <2>1, <2>2
<1>4. PICK live : live = backend[x].live
  OBVIOUS
<1>5. IsFiniteSet(live) /\ backend[x].used = BytesOf(live)
  BY <1>4 DEF DInv, AdapterInv, BackendInv, Serving
<1>6. PICK h : h = [o \in live |-> o.ordinal]
  OBVIOUS
<1>7. PICK g : g = [o \in live |-> Bytes(o)]
  OBVIOUS
<1>8. \A o, p \in live : h[o] = h[p] => o = p
  BY <1>1, <1>4, <1>6
<1>9. \A o \in live : /\ g[o] = m.sizes[h[o]] /\ m.sizes[h[o]] \in Nat
                      /\ h[o] \in DOMAIN m.sizes
  BY <1>1, <1>3, <1>4, <1>6, <1>7 DEF Bytes
<1>10. Sum(m.sizes, {h[o] : o \in live}) = Sum(g, live)
  BY <1>5, <1>8, <1>9, SumReindex
<1>11. {h[o] : o \in live} \subseteq DOMAIN m.sizes
  BY <1>9
<1>12. Sum(m.sizes, {h[o] : o \in live}) <= Sum(m.sizes, DOMAIN m.sizes)
  BY <1>3, <1>11, SumOfSubset
<1> QED BY <1>2, <1>5, <1>7, <1>10, <1>12 DEF BytesOf

\* The Bank's record of the charge of the lease that an adapter serves.
RecordOf(x) == <<"child", backend[x].active.child.parent.slot>>

\* Two adapters serve two leases, whose charges are recorded apart.
LEMMA RecordsApart ==
    ASSUME DInv, NEW x \in Serving
    PROVE  /\ RecordOf(x) \in Holders
           /\ backend[x].used <= InClass(DeviceClass)[RecordOf(x)]
           /\ \A y \in Serving : RecordOf(x) = RecordOf(y) => x = y
<1>a. PICK m : m = backend[x].active
  OBVIOUS
<1>1. /\ m \in Admission /\ m.adapter = x
      /\ m.coordinator \in Coordinators /\ m.slot \in LeaseSlots
      /\ Taken(m.coordinator, m.slot) /\ Adm(m.coordinator, m.slot) = m
  BY <1>a, ServesOne
<1>b. PICK s : s = m.child.parent.slot
  OBVIOUS
<1>2. s \in Slots /\ children[s].claim = m.child.claim
  <2>1. m.child \in ChildLease
    BY <1>1, AdmissionTypes
  <2>2. validateChildLease(m.child)
    BY <1>1 DEF DInv, ChildInv, ChildHeld
  <2> QED BY <1>b, <2>1, <2>2 DEF validateChildLease, ChildLease, Receipt
<1>3. RecordOf(x) = <<"child", s>> /\ <<"child", s>> \in Holders
  BY <1>2, <1>a, <1>b DEF RecordOf, Holders
<1>4. InClass(DeviceClass)[<<"child", s>>] = m.child.claim[DeviceClass]
  BY <1>2, <1>3 DEF InClass, Charges
<1>5. backend[x].used <= m.child.claim[DeviceClass]
  BY <1>a, WithinCharge
<1>6. ASSUME NEW y \in Serving, RecordOf(x) = RecordOf(y) PROVE x = y
  <2>a. PICK n : n = backend[y].active
    OBVIOUS
  <2>1. /\ n.adapter = y
        /\ n.coordinator \in Coordinators /\ n.slot \in LeaseSlots
        /\ Taken(n.coordinator, n.slot) /\ Adm(n.coordinator, n.slot) = n
    BY <2>a, ServesOne
  <2>2. m.child.parent.slot = n.child.parent.slot
    BY <1>6, <1>a, <2>a DEF RecordOf
  <2>3. ChildSlotOf(m.coordinator, m.slot) = ChildSlotOf(n.coordinator, n.slot)
    BY <1>1, <2>1, <2>2 DEF ChildSlotOf
  <2>4. m.coordinator = n.coordinator /\ m.slot = n.slot
    BY <1>1, <2>1, <2>3 DEF DInv, ChildInv, ChildrenApart
  <2> QED BY <1>1, <2>1, <2>4
<1> QED BY <1>3, <1>4, <1>5, <1>6

\* The adapters together have no more in use than the Bank has charged.
LEMMA AdaptersWithinBank ==
    ASSUME DInv, Conserved
    PROVE  Sum([x \in Adapters |-> backend[x].used], Adapters)
              <= used[DeviceClass]
<1>a. PICK f : f = [x \in Adapters |-> backend[x].used]
  OBVIOUS
<1>b. PICK h : h = [x \in Serving |-> RecordOf(x)]
  OBVIOUS
<1>c. PICK c : c = InClass(DeviceClass)
  OBVIOUS
<1>d. PICK g : g = [x \in Serving |-> c[h[x]]]
  OBVIOUS
<1>1. IsFiniteSet(Adapters) /\ Serving \subseteq Adapters
      /\ IsFiniteSet(Serving)
  BY DeviceAssumption, FS_Subset DEF Serving
<1>2. \A x \in Adapters : f[x] = backend[x].used /\ f[x] \in Nat
  BY <1>a DEF DInv, DeviceTypeOK, Backend
<1>3. ASSUME NEW x \in Adapters \ Serving PROVE f[x] = 0
  <2>1. backend[x].live = {} /\ backend[x].used = BytesOf({})
    BY DEF Serving, DInv, AdapterInv, BackendInv
  <2>2. BytesOf({}) = 0
    BY FS_EmptySet, SumOfZeros DEF BytesOf
  <2> QED BY <1>2, <2>1, <2>2
<1>4. Sum(f, Adapters) = Sum(f, Serving)
  BY <1>1, <1>2, <1>3, SumOfPart
<1>5. /\ IsFiniteSet(Holders)
      /\ \A r \in Holders : c[r] \in Nat
  <2>1. TypeOK
    BY DEF DInv, IInv
  <2>2. IsFiniteSet(Holders) /\ \A r \in Holders : Charges[r] \in Claim
    BY <2>1, ChargesType
  <2>3. DeviceClass \in Classes
    BY DeviceAssumption
  <2> QED BY <1>c, <2>2, <2>3 DEF InClass, Claim
<1>6. \A x \in Serving : /\ h[x] = RecordOf(x) /\ h[x] \in Holders
                         /\ f[x] <= c[h[x]] /\ g[x] = c[h[x]]
                         /\ c[h[x]] \in Nat
  BY <1>1, <1>2, <1>5, <1>b, <1>c, <1>d, RecordsApart
<1>7. Sum(f, Serving) <= Sum(g, Serving)
  BY <1>1, <1>2, <1>6, SumMonotone
<1>8. \A x, y \in Serving : h[x] = h[y] => x = y
  BY <1>6, RecordsApart
<1>9. Sum(c, {h[x] : x \in Serving}) = Sum(g, Serving)
  BY <1>1, <1>6, <1>8, SumReindex
<1>10. {h[x] : x \in Serving} \subseteq Holders
  BY <1>6
<1>11. Sum(c, {h[x] : x \in Serving}) <= Sum(c, Holders)
  BY <1>5, <1>10, SumOfSubset
<1>12. Sum(c, Holders) = used[DeviceClass]
  <2>1. DeviceClass \in Classes
    BY DeviceAssumption
  <2>2. used = [k \in Classes |-> Sum(InClass(k), Holders)]
    BY DEF Conserved, InClass, Sum
  <2> QED BY <1>c, <2>1, <2>2
<1>13. /\ Sum(f, Serving) \in Nat /\ Sum(g, Serving) \in Nat
       /\ Sum(c, Holders) \in Nat
  BY <1>1, <1>2, <1>5, <1>6, SumType
<1> QED BY <1>4, <1>7, <1>9, <1>11, <1>12, <1>13, <1>a

\* Device memory is never held without its charge: the children of the leases
\* stay open with the whole charge until the last object was freed, and the
\* Bank has charged what all the adapters together have in use.
THEOREM ChargesCoverBytes ==
    ASSUME 0 \notin SessionIds PROVE DeviceSpec => []BytesCovered
<1>1. ASSUME DInv, NEW c \in Coordinators, NEW i \in Occupied(c)
      PROVE  LET a == leases[c][i].admission
             IN  /\ validateChildLease(a.child)
                 /\ a.child.claim = DeviceClaim(a.sizes)
  <2>1. i \in LeaseSlots /\ Taken(c, i)
    BY DEF Occupied, Taken
  <2>2. /\ validateChildLease(Adm(c, i).child)
        /\ Adm(c, i).child.claim = DeviceClaim(Adm(c, i).sizes)
    BY <1>1, <2>1
       DEF DInv, ChildInv, ChildHeld, OwnInv, SlotInv, SlotShaped
  <2> QED BY <2>2 DEF Adm
<1>2. ASSUME DInv, NEW a \in Adapters
      PROVE  backend[a].used =
                SumFunctionOnSet([o \in backend[a].live |-> Bytes(o)],
                                 backend[a].live)
  BY <1>2 DEF DInv, AdapterInv, BackendInv, BytesOf, Sum
<1>3. DInv /\ Conserved => BytesCovered
  BY <1>1, <1>2, AdaptersWithinBank DEF BytesCovered, Sum
<1>4. DeviceSpec => []Conserved
  BY DeviceImplementsBank, Conservation, PTL
<1> QED BY <1>3, <1>4, DeviceInvariance, PTL
=============================================================================
