------------------------- MODULE ResourceBankProofs -------------------------
(***************************************************************************)
(* Proofs about ResourceBank, for every number of slots, every set of      *)
(* claims and limits, and every bound on the generation counters.          *)
(*                                                                         *)
(* First the inductive invariant, then the refinement of the ledger, then  *)
(* what both give: publication happens exactly once, and Bank.used is the  *)
(* sum of what its records are charged, within the limits.                 *)
(***************************************************************************)
EXTENDS ResourceBank, FiniteSums

-----------------------------------------------------------------------------
(* Claims.                                                                 *)

\* The zero claim is a claim.
LEMMA ZeroClaimType == ZeroClaim \in Claim
BY DEF ZeroClaim, Claim

\* The sum of two claims is a claim (addClaims).
LEMMA AddType ==
    ASSUME NEW a \in Claim, NEW b \in Claim
    PROVE  addClaims(a, b) \in Claim
BY DEF addClaims, Claim

\* A subtraction that does not underflow yields a claim (subtractClaims).
LEMMA SubtractType ==
    ASSUME NEW a \in Claim, NEW b \in Claim, claimWithin(b, a)
    PROVE  subtractClaims(a, b) \in Claim
<1>1. ASSUME NEW k \in Classes PROVE a[k] - b[k] \in Nat
  BY DEF claimWithin, Claim
<1> QED BY <1>1 DEF subtractClaims, Claim

-----------------------------------------------------------------------------
(* Type correctness.                                                       *)

Handle == Reservation \union Receipt \union ChildLease
            \union PublicationPermit

\* The free slot and the free child are well typed.
LEMMA FreeTypes == FreeSlot \in Slot /\ FreeChild \in ChildSlot
BY ZeroClaimType DEF FreeSlot, FreeChild, Slot, ChildSlot

\* The handles of each kind are recognized by their kind field.
LEMMA HandleKinds ==
    ASSUME TypeOK
    PROVE  /\ Reservations \subseteq Reservation
           /\ Receipts \subseteq Receipt
           /\ ChildLeases \subseteq ChildLease
           /\ Permits \subseteq PublicationPermit
BY DEF TypeOK, Reservations, Receipts, ChildLeases, Permits, Reservation,
       Receipt, ChildLease, PublicationPermit

\* A call that consumes old and returns new keeps the history well typed.
LEMMA ExchangeType ==
    ASSUME TypeOK, NEW old, NEW new, old \subseteq issued,
           new \subseteq Handle, Exchange(old, new)
    PROVE  /\ issued' \subseteq Handle
           /\ spent' \subseteq issued'
           /\ spent \subseteq spent'
           /\ old \subseteq spent'
BY DEF TypeOK, Exchange, Handle

\* The handles built by the actions are well typed.
LEMMA HandleTypes ==
    ASSUME NEW i \in Slots, NEW g \in Nat, NEW c \in Claim
    PROVE  /\ ReservationAt(i, g, c) \in Reservation
           /\ ReceiptAt(i, g, c) \in Receipt
           /\ \A r \in Receipt, ceiling \in Claim :
                 ChildLeaseAt(r, g, ceiling, c) \in ChildLease
           /\ \A r \in Receipt, e, s, n \in Nat :
                 PermitAt(r, e, s, n, g) \in PublicationPermit
BY DEF ReservationAt, ReceiptAt, ChildLeaseAt, PermitAt, Reservation,
       Receipt, ChildLease, PublicationPermit

\* reserve keeps the type invariant.
LEMMA ReserveType ==
    ASSUME TypeOK, NEW c \in RequestClaims, reserve(c)
    PROVE  TypeOK'
<1>1. c \in Claim /\ used \in Claim /\ nextGeneration \in Nat
  BY BankAssumption DEF TypeOK
<1>2. PICK i \in Slots :
        /\ slots' = [slots EXCEPT ![i] =
                        [FreeSlot EXCEPT !.state = "reserved",
                                         !.generation = nextGeneration,
                                         !.claim = c]]
        /\ Exchange({}, {ReservationAt(i, nextGeneration, c)})
  BY DEF reserve
<1>3. issued' \subseteq Handle /\ spent' \subseteq issued' /\ spent \subseteq spent'
  BY <1>1, <1>2, HandleTypes, ExchangeType DEF Handle
<1>4. [FreeSlot EXCEPT !.state = "reserved", !.generation = nextGeneration,
                       !.claim = c] \in Slot
  BY <1>1, FreeTypes DEF Slot, FreeSlot
<1>5. slots' \in [Slots -> Slot]
  BY <1>2, <1>4 DEF TypeOK
<1>6. used' \in Claim
  BY <1>1, AddType DEF reserve
<1> QED
  BY <1>1, <1>3, <1>5, <1>6 DEF TypeOK, reserve, childVars, Handle

\* commit keeps the type invariant.
LEMMA CommitType ==
    ASSUME TypeOK, NEW t \in Reservations, commit(t)
    PROVE  TypeOK'
<1>1. t \in Reservation /\ t \in issued
  BY HandleKinds DEF Reservations
<1>2. t.slot \in Slots /\ t.generation \in Nat /\ t.claim \in Claim
  BY <1>1 DEF Reservation
<1>3. issued' \subseteq Handle /\ spent' \subseteq issued' /\ spent \subseteq spent'
  BY <1>1, <1>2, HandleTypes, ExchangeType DEF Handle, commit
<1>4. slots' \in [Slots -> Slot]
  BY <1>2 DEF TypeOK, commit, Slot
<1> QED
  BY <1>3, <1>4 DEF TypeOK, commit, childVars, Handle

\* Clearing a slot keeps the type invariant.
LEMMA ClearSlotType ==
    ASSUME TypeOK, NEW t \in issued, t.slot \in Slots, t.claim \in Claim,
           ClearSlot(t)
    PROVE  TypeOK'
<1>1. issued' \subseteq Handle /\ spent' \subseteq issued' /\ spent \subseteq spent'
  BY ExchangeType DEF ClearSlot
<1>2. slots' \in [Slots -> Slot]
  BY FreeTypes DEF TypeOK, ClearSlot
<1>3. used' \in Claim
  BY SubtractType DEF ClearSlot, TypeOK
<1> QED
  BY <1>1, <1>2, <1>3 DEF TypeOK, ClearSlot, childVars, Handle

\* openChild keeps the type invariant.
LEMMA OpenChildType ==
    ASSUME TypeOK, NEW t \in Receipts, NEW ceiling \in Claim, NEW c \in Claim,
           openChild(t, ceiling, c)
    PROVE  TypeOK'
<1>1. t \in Receipt /\ t.slot \in Slots
  BY HandleKinds DEF Receipt
<1>2. ChildLeaseAt(t, nextChildGeneration, ceiling, c) \in ChildLease
  BY <1>1, HandleTypes DEF TypeOK
<1>3. issued' \subseteq Handle /\ spent' \subseteq issued' /\ spent \subseteq spent'
  BY <1>2, ExchangeType DEF Handle, openChild
<1>4. children' \in [Slots -> ChildSlot]
  BY <1>1 DEF TypeOK, openChild, ChildSlot
<1>5. used' \in Claim
  BY AddType DEF openChild, TypeOK
<1> QED
  BY <1>3, <1>4, <1>5 DEF TypeOK, openChild, Handle

\* Every resize of a child keeps the type invariant.
LEMMA ResizeType ==
    ASSUME TypeOK, NEW t \in ChildLeases, NEW c \in Claim,
           resizeChildLocked(t, c)
    PROVE  TypeOK'
<1>1. t \in ChildLease /\ t \in issued
  BY HandleKinds DEF ChildLeases
<1>2. /\ t.parent \in Receipt /\ t.parent.slot \in Slots
      /\ t.ceiling \in Claim /\ t.claim \in Claim
  BY <1>1 DEF ChildLease, Receipt
<1>3. ChildLeaseAt(t.parent, nextChildGeneration, t.ceiling, c) \in ChildLease
  BY <1>2, HandleTypes DEF TypeOK
<1>4. issued' \subseteq Handle /\ spent' \subseteq issued' /\ spent \subseteq spent'
  BY <1>1, <1>3, ExchangeType DEF Handle, resizeChildLocked
<1>5. children' \in [Slots -> ChildSlot]
  BY <1>2 DEF TypeOK, resizeChildLocked, ChildSlot
<1>6. used' \in Claim
  BY <1>2, AddType, SubtractType DEF resizeChildLocked, usedAfterResize, TypeOK
<1> QED
  BY <1>4, <1>5, <1>6 DEF TypeOK, resizeChildLocked, Handle

\* closeChild keeps the type invariant.
LEMMA CloseChildType ==
    ASSUME TypeOK, NEW t \in ChildLeases, closeChild(t)
    PROVE  TypeOK'
<1>1. t \in ChildLease /\ t \in issued
  BY HandleKinds DEF ChildLeases
<1>2. t.parent.slot \in Slots /\ t.claim \in Claim
  BY <1>1 DEF ChildLease, Receipt
<1>3. issued' \subseteq Handle /\ spent' \subseteq issued' /\ spent \subseteq spent'
  BY <1>1, ExchangeType DEF closeChild
<1>4. children' \in [Slots -> ChildSlot]
  BY <1>2, FreeTypes DEF TypeOK, closeChild
<1>5. used' \in Claim
  BY <1>2, SubtractType DEF closeChild, TypeOK
<1> QED
  BY <1>3, <1>4, <1>5 DEF TypeOK, closeChild, Handle

\* Binding, beginning and closing a session, and settling a permit, keep the
\* type invariant.
LEMMA PublicationType ==
    ASSUME TypeOK, NEW t \in Receipts, NEW e \in Nat, NEW id \in Nat,
           NEW n \in Nat,
           \/ bindPublicationSessionLocked(t, e, id)
           \/ beginPublicationLocked(t, e, id, n)
           \/ closePublicationSession(t, e, id, n)
    PROVE  TypeOK'
<1>1. t \in Receipt /\ t.slot \in Slots
  BY HandleKinds DEF Receipt
<1>2. CASE bindPublicationSessionLocked(t, e, id)
  <2>1. slots' \in [Slots -> Slot]
    BY <1>1, <1>2 DEF TypeOK, bindPublicationSessionLocked, Slot
  <2> QED
    BY <1>2, <2>1 DEF TypeOK, bindPublicationSessionLocked, childVars,
                      handleVars
<1>3. CASE beginPublicationLocked(t, e, id, n)
  <2>1. slots[t.slot] \in Slot /\ slots[t.slot].permitGeneration + 1 \in Nat
    BY <1>1 DEF TypeOK, Slot
  <2>2. slots' \in [Slots -> Slot]
    BY <1>1, <1>3, <2>1 DEF TypeOK, beginPublicationLocked, Slot
  <2>3. PermitAt(t, e, id, n, slots[t.slot].permitGeneration + 1)
          \in PublicationPermit
    BY <1>1, <2>1 DEF PermitAt, PublicationPermit
  <2>4. issued' \subseteq Handle /\ spent' \subseteq issued' /\ spent \subseteq spent'
    BY <1>3, <2>3, ExchangeType DEF Handle, beginPublicationLocked
  <2> QED
    BY <1>3, <2>2, <2>4 DEF TypeOK, beginPublicationLocked, childVars, Handle
<1>4. CASE closePublicationSession(t, e, id, n)
  <2>1. slots' \in [Slots -> Slot]
    BY <1>1, <1>4 DEF TypeOK, closePublicationSession, Slot
  <2> QED
    BY <1>4, <2>1 DEF TypeOK, closePublicationSession, childVars, handleVars
<1> QED BY <1>2, <1>3, <1>4

\* Committing or aborting a permit keeps the type invariant.
LEMMA PermitType ==
    ASSUME TypeOK, NEW t \in Permits,
           commitPublicationAssumeValid(t) \/ abortPublication(t)
    PROVE  TypeOK'
<1>1. t \in PublicationPermit /\ t \in issued
  BY HandleKinds DEF Permits
<1>2. t.receipt.slot \in Slots /\ t.sequence \in Nat
  BY <1>1 DEF PublicationPermit, Receipt
<1>3. Exchange({t}, {})
  BY DEF commitPublicationAssumeValid, abortPublication
<1>4. issued' \subseteq Handle /\ spent' \subseteq issued' /\ spent \subseteq spent'
      /\ t \in spent'
  BY <1>1, <1>3, ExchangeType
<1>5. slots' \in [Slots -> Slot]
  BY <1>2 DEF TypeOK, commitPublicationAssumeValid, abortPublication, Slot
<1> QED
  BY <1>4, <1>5 DEF TypeOK, commitPublicationAssumeValid, abortPublication,
                    childVars, Handle

\* The inputs that callers present are well typed.
LEMMA InputTypes ==
    /\ RequestClaims \subseteq Claim
    /\ RequestClaims \union {ZeroClaim} \subseteq Claim
    /\ RequestEpochs \subseteq Nat
    /\ SessionIds \subseteq Nat
    /\ Sequences \subseteq Nat
BY BankAssumption, ZeroClaimType DEF Sequences

\* Every step of the Bank is one of eleven operations on well-typed inputs,
\* each with the guards of the public calls that lead to it.  Invariance
\* proofs split on these.
StepCases ==
    \/ \E c \in RequestClaims : reserve(c)
    \/ \E t \in Reservations : commit(t)
    \/ \E t \in Reservations : cancel(t)
    \/ \E t \in Receipts :
        /\ validateReceipt(t)
        /\ slots[t.slot].publication = "idle"
        /\ children[t.slot].state = "free"
        /\ ClearSlot(t)
    \/ \E t \in Receipts, ceiling \in Claim, c \in Claim :
        openChild(t, ceiling, c)
    \/ \E t \in ChildLeases, c \in Claim :
        /\ validateChildLease(t)
        /\ slots[t.parent.slot].publication = "idle"
        /\ resizeChildLocked(t, c)
    \/ \E t \in ChildLeases : closeChild(t)
    \/ \E t \in Receipts, e \in Nat, id \in SessionIds :
        bindPublicationSessionLocked(t, e, id)
    \/ \E t \in Receipts, e \in Nat, id \in SessionIds, n \in Nat :
        beginPublicationLocked(t, e, id, n)
    \/ \E t \in Receipts, e \in Nat, id \in SessionIds, n \in Nat :
        closePublicationSession(t, e, id, n)
    \/ \E t \in Permits : commitPublicationAssumeValid(t)
    \/ \E t \in Permits : abortPublication(t)

\* The public calls are covered by those cases.
LEMMA NextCases ==
    ASSUME TypeOK, HandlesTraceable, Next
    PROVE  StepCases
<1>0. \A t \in ChildLeases : t.parent \in Receipts
  BY DEF HandlesTraceable, ChildLeases
<1>1. CASE SlotStep
  BY <1>1 DEF SlotStep, StepCases, release
<1>2. CASE ChildStep
  <2>1. ASSUME NEW t \in ChildLeases, NEW c \in Claim,
               \/ growChild(t, c)
               \/ shrinkChildAfterFree(t, c)
               \/ \E e \in RequestEpochs, id \in SessionIds, n \in Sequences :
                    \/ growChildForSession(t, e, id, n, c)
                    \/ shrinkChildForSessionAfterFree(t, e, id, n, c)
        PROVE  /\ validateChildLease(t)
               /\ slots[t.parent.slot].publication = "idle"
               /\ resizeChildLocked(t, c)
    BY <2>1 DEF growChild, shrinkChildAfterFree, growChildForSession,
                shrinkChildForSessionAfterFree, Unbound, SessionAt
  <2> QED
    BY <1>2, <2>1, InputTypes DEF ChildStep, StepCases
<1>3. CASE PublicationStep
  <2>1. CASE \E t \in Receipts, e \in RequestEpochs, id \in SessionIds :
               bindPublicationSession(t, e, id)
    BY <2>1, InputTypes DEF StepCases, bindPublicationSession
  <2>2. CASE \E t \in ChildLeases, e \in RequestEpochs, id \in SessionIds :
               bindPublicationSessionWithChild(t, e, id)
    BY <2>2, <1>0, InputTypes DEF StepCases, bindPublicationSessionWithChild
  <2>3. CASE \E t \in Receipts, e \in RequestEpochs, id \in SessionIds,
                n \in Sequences :
               \/ beginPublication(t, e, id, n)
               \/ closePublicationSession(t, e, id, n)
               \/ closePublicationSessionAndRelease(t, e, id, n)
    BY <2>3, InputTypes DEF StepCases, beginPublication,
         closePublicationSessionAndRelease, SessionAt
  <2>4. CASE \E t \in ChildLeases, e \in RequestEpochs, id \in SessionIds,
                n \in Sequences : beginPublicationWithChild(t, e, id, n)
    BY <2>4, <1>0, InputTypes DEF StepCases, beginPublicationWithChild
  <2>5. CASE \E t \in Permits :
               commitPublicationAssumeValid(t) \/ abortPublication(t)
    BY <2>5 DEF StepCases
  <2> QED
    BY <1>3, <2>1, <2>2, <2>3, <2>4, <2>5 DEF PublicationStep
<1> QED BY <1>1, <1>2, <1>3 DEF Next

-----------------------------------------------------------------------------
(* The inductive invariant.  That exactly the unconsumed handles are       *)
(* honoured is not inductive by itself: a reused slot must not make an old *)
(* handle valid again (the generations are fresh), a new receipt must not  *)
(* equal an old one, and a cleared slot must not leave a child or a permit *)
(* behind.                                                                 *)

IInv == /\ TypeOK
        /\ ConsumedOnce
        /\ HandlesExact
        /\ AuthorityHeld
        /\ HandlesTraceable

\* The slot that a handle names.
SlotOf(t) == IF t.kind = "child" THEN t.parent.slot
             ELSE IF t.kind = "permit" THEN t.receipt.slot
             ELSE t.slot

\* A step that touches a single slot does not change the standing of the
\* handles that name other slots.
LEMMA OtherSlots ==
    ASSUME TypeOK, TypeOK', NEW i \in Slots, NEW t \in Handle,
           \A j \in Slots \ {i} : slots'[j] = slots[j],
           \A j \in Slots \ {i} : children'[j] = children[j],
           SlotOf(t) # i
    PROVE  Honoured(t)' <=> Honoured(t)
<1>1. SlotOf(t) \in Slots
  BY DEF SlotOf, Handle, Reservation, Receipt, ChildLease, PublicationPermit
<1>2. slots'[SlotOf(t)] = slots[SlotOf(t)]
      /\ children'[SlotOf(t)] = children[SlotOf(t)]
  BY <1>1
<1>3. CASE t \in Reservation \union Receipt
  BY <1>2, <1>3 DEF SlotOf, Honoured, validateReservation, validateReceipt,
       validateChildLease, validatePublicationPermit, Reservation, Receipt
<1>4. CASE t \in ChildLease
  BY <1>2, <1>4 DEF SlotOf, Honoured, validateReservation, validateReceipt,
       validateChildLease, validatePublicationPermit, ChildLease
<1>5. CASE t \in PublicationPermit
  BY <1>2, <1>5 DEF SlotOf, Honoured, validateReservation, validateReceipt,
       validateChildLease, validatePublicationPermit, PublicationPermit
<1> QED BY <1>3, <1>4, <1>5 DEF Handle

\* Each kind of handle has its own validation.
LEMMA HonouredByKind ==
    ASSUME NEW t \in Handle
    PROVE  /\ t \in Reservation => (Honoured(t) <=> validateReservation(t))
           /\ t \in Receipt => (Honoured(t) <=> validateReceipt(t))
           /\ t \in ChildLease => (Honoured(t) <=> validateChildLease(t))
           /\ t \in PublicationPermit =>
                 (Honoured(t) <=> validatePublicationPermit(t))
BY DEF Honoured, validateReservation, validateReceipt, validateChildLease,
       validatePublicationPermit, Reservation, Receipt, ChildLease,
       PublicationPermit

\* The same, one step later.
LEMMA HonouredByKindNext ==
    ASSUME NEW t \in Handle
    PROVE  /\ t \in Reservation => (Honoured(t)' <=> validateReservation(t)')
           /\ t \in Receipt => (Honoured(t)' <=> validateReceipt(t)')
           /\ t \in ChildLease => (Honoured(t)' <=> validateChildLease(t)')
           /\ t \in PublicationPermit =>
                 (Honoured(t)' <=> validatePublicationPermit(t)')
BY DEF Honoured, validateReservation, validateReceipt, validateChildLease,
       validatePublicationPermit, Reservation, Receipt, ChildLease,
       PublicationPermit

\* A handle that the Bank honours has not been consumed, so consuming it is
\* no replay.
LEMMA NoReplay ==
    ASSUME IInv, NEW t \in issued, Honoured(t), NEW new, Exchange({t}, new)
    PROVE  ConsumedOnce'
BY DEF IInv, HandlesExact, ConsumedOnce, Exchange

\* What AuthorityHeld says of one slot.
HeldAt(i) ==
    LET s == slots[i]
        c == children[i]
        r == ReceiptAt(i, s.generation, s.claim)
    IN  /\ s.state = "reserved" =>
              ReservationAt(i, s.generation, s.claim) \in issued
        /\ s.state = "committed" => r \in issued
        /\ c.state = "active" =>
              /\ s.state = "committed"
              /\ ChildLeaseAt(r, c.generation, c.ceiling, c.claim) \in issued
        /\ s.publication = "active" =>
              /\ s.state = "committed"
              /\ PermitAt(r, s.requestEpoch, s.sessionId,
                          s.nextSequence, s.permitGeneration) \in issued

\* AuthorityHeld is the conjunction over the slots, now and one step later.
LEMMA HeldEverywhereNext ==
    /\ AuthorityHeld <=> \A i \in Slots : HeldAt(i)
    /\ AuthorityHeld' <=> \A i \in Slots : HeldAt(i)'
BY DEF AuthorityHeld, HeldAt

\* A slot that a step leaves alone keeps its handles.
LEMMA HeldAtSame ==
    ASSUME AuthorityHeld, issued \subseteq issued', NEW j \in Slots,
           slots'[j] = slots[j], children'[j] = children[j]
    PROVE  HeldAt(j)'
<1>1. HeldAt(j)
  BY HeldEverywhereNext
<1> QED BY <1>1 DEF HeldAt

\* What HandlesTraceable says of one handle and of one slot.
TraceableHandle(t) ==
    /\ t.kind = "child" => t.parent \in Receipts
    /\ t.kind = "permit" => t.receipt \in Receipts
    /\ t.kind \in {"reservation", "receipt"} => t.generation < nextGeneration
    /\ t.kind = "child" => t.generation < nextChildGeneration
    /\ t.kind = "permit" /\ validateReceipt(t.receipt) =>
          /\ t.generation <= slots[t.receipt.slot].permitGeneration
          /\ slots[t.receipt.slot].requestEpoch # 0
    /\ t.kind = "receipt" /\ slots[t.slot].generation = t.generation =>
          slots[t.slot].state # "reserved"

SessionOrdered(i) ==
    /\ slots[i].publication = "active" => slots[i].sessionId # 0
    /\ slots[i].sessionId # 0 => slots[i].requestEpoch # 0

\* A step on slot i keeps the handles traceable if it only moves the counters
\* up, does not validate a receipt that was stale, keeps the permit counter
\* and the tombstone of a receipt, and its new handles are traceable.
LEMMA TraceableStep ==
    ASSUME IInv, TypeOK', NEW i \in Slots, issued \subseteq issued',
           nextGeneration <= nextGeneration',
           nextChildGeneration <= nextChildGeneration',
           \A j \in Slots \ {i} : slots'[j] = slots[j],
           \A r \in Receipts : r.slot = i /\ validateReceipt(r)' =>
              /\ validateReceipt(r)
              /\ slots[i].permitGeneration <= slots'[i].permitGeneration
              /\ slots[i].requestEpoch # 0 => slots'[i].requestEpoch # 0,
           \A r \in Receipts :
              r.slot = i /\ slots'[i].generation = r.generation =>
                  slots'[i].state # "reserved",
           SessionOrdered(i)',
           \A t \in issued' : t \in issued \/ TraceableHandle(t)'
    PROVE  HandlesTraceable'
<1>1. TypeOK /\ HandlesTraceable
  BY DEF IInv
<1>2. \A t \in issued : t \in Handle
  BY <1>1 DEF TypeOK, Handle
<1>3. Receipts \subseteq Receipts' /\ Receipts \subseteq Receipt
  BY <1>1, HandleKinds DEF Receipts
<1>4. ASSUME NEW t \in issued PROVE TraceableHandle(t)'
  <2>0. TraceableHandle(t)
    BY <1>1 DEF HandlesTraceable, TraceableHandle
  <2>1. t.kind = "child" => t.parent \in Receipts'
    BY <1>3, <2>0 DEF TraceableHandle
  <2>2. t.kind = "permit" => t.receipt \in Receipts'
    BY <1>3, <2>0 DEF TraceableHandle
  <2>3. /\ t.kind \in {"reservation", "receipt"} =>
              t.generation < nextGeneration'
        /\ t.kind = "child" => t.generation < nextChildGeneration'
    <3>1. t.generation \in Nat
      BY <1>2 DEF Handle, Reservation, Receipt, ChildLease, PublicationPermit
    <3> QED BY <1>1, <2>0, <3>1 DEF TraceableHandle, TypeOK
  <2>4. ASSUME t.kind = "permit", validateReceipt(t.receipt)'
        PROVE  /\ t.generation <= slots'[t.receipt.slot].permitGeneration
               /\ slots'[t.receipt.slot].requestEpoch # 0
    <3>1. t.receipt \in Receipts /\ t.receipt \in Receipt
      BY <1>3, <2>0, <2>4 DEF TraceableHandle
    <3>2. t.receipt.slot \in Slots
      BY <3>1 DEF Receipt
    <3>3. t.generation \in Nat
      BY <1>2 DEF Handle, Reservation, Receipt, ChildLease, PublicationPermit
    <3>4. CASE t.receipt.slot = i
      <4>1. /\ t.generation <= slots[i].permitGeneration
            /\ slots[i].requestEpoch # 0
        BY <2>0, <2>4, <3>1, <3>4 DEF TraceableHandle
      <4>2. /\ slots[i].permitGeneration \in Nat
            /\ slots'[i].permitGeneration \in Nat
        BY <1>1 DEF TypeOK, Slot
      <4>3. /\ slots[i].permitGeneration <= slots'[i].permitGeneration
            /\ slots'[i].requestEpoch # 0
        BY <2>4, <3>1, <3>4, <4>1
      <4> QED BY <3>3, <3>4, <4>1, <4>2, <4>3
    <3>5. CASE t.receipt.slot # i
      BY <2>0, <2>4, <3>2, <3>5 DEF TraceableHandle, validateReceipt
    <3> QED BY <3>4, <3>5
  <2>5. ASSUME t.kind = "receipt", slots'[t.slot].generation = t.generation
        PROVE  slots'[t.slot].state # "reserved"
    <3>1. t \in Receipts /\ t.slot \in Slots
      BY <1>3, <2>5 DEF Receipts, Receipt
    <3> QED BY <2>0, <2>5, <3>1 DEF TraceableHandle
  <2> QED BY <2>1, <2>2, <2>3, <2>4, <2>5 DEF TraceableHandle
<1>5. ASSUME NEW j \in Slots PROVE SessionOrdered(j)'
  BY <1>1, <1>5 DEF SessionOrdered, HandlesTraceable
<1>6. \A t \in issued' : TraceableHandle(t)'
  BY <1>4
<1> QED BY <1>5, <1>6 DEF HandlesTraceable, TraceableHandle, SessionOrdered

\* reserve preserves the invariant: the slot was free, so no handle named it,
\* and the new generation is above all issued ones.
LEMMA ReserveInv ==
    ASSUME IInv, NEW c \in RequestClaims, reserve(c)
    PROVE  IInv'
<1>1. TypeOK /\ TypeOK'
  BY ReserveType DEF IInv
<1>2. PICK i \in Slots :
        /\ slots[i].state = "free"
        /\ slots' = [slots EXCEPT ![i] =
                        [FreeSlot EXCEPT !.state = "reserved",
                                         !.generation = nextGeneration,
                                         !.claim = c]]
        /\ Exchange({}, {ReservationAt(i, nextGeneration, c)})
  BY DEF reserve, FirstFree
<1>n. PICK new : new = ReservationAt(i, nextGeneration, c)
  OBVIOUS
<1>3. /\ slots'[i].state = "reserved"
      /\ slots'[i].generation = nextGeneration
      /\ slots'[i].claim = c
      /\ slots'[i].publication = "idle"
      /\ slots'[i].sessionId = 0
      /\ \A j \in Slots \ {i} : slots'[j] = slots[j]
      /\ children' = children
      /\ nextGeneration' = nextGeneration + 1
      /\ nextChildGeneration' = nextChildGeneration
      /\ issued' = issued \union {new}
      /\ spent' = spent
      /\ replayed' = replayed
  BY <1>1, <1>2, <1>n DEF TypeOK, FreeSlot, Exchange, reserve, childVars
<1>4. /\ new \in Reservation /\ new.kind = "reservation" /\ new.slot = i
      /\ new.generation = nextGeneration /\ new.claim = c
  BY <1>1, <1>n, HandleTypes, InputTypes DEF TypeOK, ReservationAt
<1>5. new \notin issued
  BY <1>1, <1>4 DEF IInv, HandlesTraceable, TypeOK
<1>6. \A t \in issued : t \in Handle
  BY <1>1 DEF TypeOK, Handle
<1>7. \A t \in issued : SlotOf(t) = i => ~Honoured(t) /\ ~Honoured(t)'
  <2> SUFFICES ASSUME NEW t \in issued, SlotOf(t) = i
               PROVE  ~Honoured(t) /\ ~Honoured(t)'
    OBVIOUS
  <2>1. CASE t \in Reservation
    <3>1. t.generation < nextGeneration /\ t.slot = i
      BY <2>1 DEF IInv, HandlesTraceable, Reservation, SlotOf
    <3> QED BY <1>1, <1>2, <1>3, <2>1, <3>1, <1>6, HonouredByKind,
               HonouredByKindNext DEF validateReservation, TypeOK, Reservation
  <2>2. CASE t \in Receipt
    BY <1>2, <1>3, <2>2, <1>6, HonouredByKind, HonouredByKindNext
       DEF validateReceipt, Receipt, SlotOf
  <2>3. CASE t \in ChildLease
    BY <1>2, <1>3, <2>3, <1>6, HonouredByKind, HonouredByKindNext
       DEF validateReceipt, validateChildLease, ChildLease, SlotOf
  <2>4. CASE t \in PublicationPermit
    BY <1>2, <1>3, <2>4, <1>6, HonouredByKind, HonouredByKindNext
       DEF validateReceipt, validatePublicationPermit, PublicationPermit, SlotOf
  <2> QED BY <1>6, <2>1, <2>2, <2>3, <2>4 DEF Handle
<1>8. HandlesExact'
  <2>1. Honoured(new)'
    BY <1>3, <1>4 DEF Honoured, validateReservation
  <2>2. new \notin spent
    BY <1>1, <1>5 DEF TypeOK
  <2>3. \A t \in issued : Honoured(t)' <=> Honoured(t)
    BY <1>1, <1>3, <1>6, <1>7, OtherSlots
  <2> QED BY <1>3, <2>1, <2>2, <2>3 DEF IInv, HandlesExact
<1>9. AuthorityHeld'
  <2>1. children[i].state # "active"
    BY <1>2 DEF IInv, AuthorityHeld
  <2>2. ReservationAt(i, slots'[i].generation, slots'[i].claim) = new
    BY <1>n, <1>3
  <2>3. HeldAt(i)'
    BY <1>3, <2>1, <2>2 DEF HeldAt
  <2>4. \A j \in Slots \ {i} : HeldAt(j)'
    BY <1>3, HeldAtSame DEF IInv
  <2> QED BY <2>3, <2>4, HeldEverywhereNext
<1>10. HandlesTraceable'
  <2>1. TraceableHandle(new)'
    BY <1>1, <1>3, <1>4 DEF TraceableHandle, TypeOK
  <2>2. SessionOrdered(i)'
    BY <1>3 DEF SessionOrdered
  <2>3. \A r \in Receipts : ~(r.slot = i /\ slots'[i].generation = r.generation)
    BY <1>1, <1>3, HandleKinds DEF IInv, HandlesTraceable, Receipts, TypeOK,
                                   Receipt
  <2>4. \A r \in Receipts : ~(r.slot = i /\ validateReceipt(r)')
    BY <1>3 DEF validateReceipt
  <2>5. /\ nextGeneration <= nextGeneration'
        /\ nextChildGeneration <= nextChildGeneration'
    BY <1>1, <1>3 DEF TypeOK
  <2>6. \A t \in issued' : t \in issued \/ TraceableHandle(t)'
    BY <1>3, <2>1
  <2> QED BY <1>1, <1>3, <2>2, <2>3, <2>4, <2>5, <2>6, TraceableStep
<1> QED
  BY <1>1, <1>3, <1>8, <1>9, <1>10 DEF IInv, ConsumedOnce

\* Two handles of one kind with the same fields are the same handle.
LEMMA HandleExt ==
    /\ \A t, u \in Reservation :
          t.slot = u.slot /\ t.generation = u.generation /\ t.claim = u.claim
             => t = u
    /\ \A t, u \in Receipt :
          t.slot = u.slot /\ t.generation = u.generation /\ t.claim = u.claim
             => t = u
    /\ \A t, u \in ChildLease :
          ( /\ t.parent = u.parent /\ t.generation = u.generation
            /\ t.ceiling = u.ceiling /\ t.claim = u.claim )
             => t = u
    /\ \A t, u \in PublicationPermit :
          ( /\ t.receipt = u.receipt /\ t.requestEpoch = u.requestEpoch
            /\ t.sessionId = u.sessionId /\ t.sequence = u.sequence
            /\ t.generation = u.generation )
             => t = u
<1>1. \A t, u \in Reservation :
          t.slot = u.slot /\ t.generation = u.generation /\ t.claim = u.claim
             => t = u
  BY DEF Reservation
<1>2. \A t, u \in Receipt :
          t.slot = u.slot /\ t.generation = u.generation /\ t.claim = u.claim
             => t = u
  BY DEF Receipt
<1>3. \A t, u \in ChildLease :
          ( /\ t.parent = u.parent /\ t.generation = u.generation
            /\ t.ceiling = u.ceiling /\ t.claim = u.claim )
             => t = u
  BY DEF ChildLease
<1>4. \A t, u \in PublicationPermit :
          ( /\ t.receipt = u.receipt /\ t.requestEpoch = u.requestEpoch
            /\ t.sessionId = u.sessionId /\ t.sequence = u.sequence
            /\ t.generation = u.generation )
             => t = u
  BY DEF PublicationPermit
<1> QED BY <1>1, <1>2, <1>3, <1>4

\* A step on slot i keeps HandlesExact if it settles the handles that name
\* slot i, leaves the standing of all others alone, and its new handles are
\* honoured and not yet consumed.
LEMMA ExactStep ==
    ASSUME IInv, TypeOK', NEW i \in Slots,
           \A j \in Slots \ {i} : slots'[j] = slots[j],
           \A j \in Slots \ {i} : children'[j] = children[j],
           \A t \in issued : SlotOf(t) = i => (t \notin spent' <=> Honoured(t)'),
           \A t \in issued : SlotOf(t) # i => (t \in spent' <=> t \in spent),
           \A t \in issued' : t \in issued \/ (t \notin spent' /\ Honoured(t)')
    PROVE  HandlesExact'
<1>1. TypeOK /\ HandlesExact
  BY DEF IInv
<1>2. ASSUME NEW t \in issued, SlotOf(t) # i
      PROVE  t \notin spent' <=> Honoured(t)'
  <2>1. t \in Handle
    BY <1>1 DEF TypeOK, Handle
  <2>2. Honoured(t)' <=> Honoured(t)
    BY <1>1, <1>2, <2>1, OtherSlots
  <2>3. t \notin spent <=> Honoured(t)
    BY <1>1 DEF HandlesExact
  <2> QED BY <1>2, <2>2, <2>3
<1>3. \A t \in issued' : t \notin spent' <=> Honoured(t)'
  BY <1>2
<1> QED BY <1>3 DEF HandlesExact

\* What the invariant says of an issued handle: its kind, its slot, and that
\* it is unconsumed exactly when its own validation accepts it.
LEMMA StandingByKind ==
    ASSUME IInv, NEW t \in issued
    PROVE  /\ t \in Handle
           /\ t \in Reservation =>
                 (t \notin spent <=> validateReservation(t)) /\ SlotOf(t) = t.slot
           /\ t \in Receipt =>
                 (t \notin spent <=> validateReceipt(t)) /\ SlotOf(t) = t.slot
           /\ t \in ChildLease =>
                 /\ t \notin spent <=> validateChildLease(t)
                 /\ SlotOf(t) = t.parent.slot
                 /\ t.parent \in Receipt
           /\ t \in PublicationPermit =>
                 /\ t \notin spent <=> validatePublicationPermit(t)
                 /\ SlotOf(t) = t.receipt.slot
                 /\ t.receipt \in Receipt
<1>1. t \in Handle
  BY DEF IInv, TypeOK, Handle
<1>2. t \notin spent <=> Honoured(t)
  BY DEF IInv, HandlesExact
<1>3. /\ t \in Reservation => SlotOf(t) = t.slot
      /\ t \in Receipt => SlotOf(t) = t.slot
      /\ t \in ChildLease => SlotOf(t) = t.parent.slot /\ t.parent \in Receipt
      /\ t \in PublicationPermit =>
            SlotOf(t) = t.receipt.slot /\ t.receipt \in Receipt
  BY DEF SlotOf, Reservation, Receipt, ChildLease, PublicationPermit
<1> QED BY <1>1, <1>2, <1>3, HonouredByKind

\* commit preserves the invariant: a reserved slot has neither child nor live
\* permit, and no receipt of its generation exists yet.
LEMMA CommitInv ==
    ASSUME IInv, NEW t \in Reservations, commit(t)
    PROVE  IInv'
<1>1. TypeOK /\ TypeOK'
  BY CommitType DEF IInv
<1>2. t \in Reservation /\ t \in issued /\ validateReservation(t)
  BY <1>1, HandleKinds DEF Reservations, commit
<1>i. PICK i \in Slots : i = t.slot
  BY <1>2 DEF Reservation
<1>n. PICK new : new = ReceiptAt(i, t.generation, t.claim)
  OBVIOUS
<1>3. /\ slots[i].state = "reserved" /\ slots[i].generation = t.generation
      /\ slots[i].claim = t.claim
      /\ slots' = [slots EXCEPT ![i].state = "committed"]
      /\ children' = children
      /\ nextGeneration' = nextGeneration
      /\ nextChildGeneration' = nextChildGeneration
      /\ issued' = issued \union {new}
      /\ spent' = spent \union {t}
  BY <1>2, <1>i, <1>n DEF Exchange, commit, childVars, validateReservation
<1>4. /\ slots'[i].state = "committed"
      /\ slots'[i].generation = t.generation
      /\ slots'[i].claim = t.claim
      /\ slots'[i].publication = slots[i].publication
      /\ slots'[i].sessionId = slots[i].sessionId
      /\ slots'[i].requestEpoch = slots[i].requestEpoch
      /\ slots'[i].permitGeneration = slots[i].permitGeneration
      /\ \A j \in Slots \ {i} : slots'[j] = slots[j]
  BY <1>1, <1>3 DEF TypeOK, Slot
<1>5. children[i].state # "active" /\ slots[i].publication # "active"
  BY <1>3 DEF IInv, AuthorityHeld
<1>6. /\ new \in Receipt /\ new.kind = "receipt" /\ new.slot = i
      /\ new.generation = t.generation /\ new.claim = t.claim
  BY <1>2, <1>n, HandleTypes DEF ReceiptAt, Reservation
<1>7. \A r \in issued : r \in Receipt /\ r.slot = i => r.generation # t.generation
  BY <1>3 DEF IInv, HandlesTraceable, Receipt
<1>8. new \notin issued
  BY <1>6, <1>7
<1>9. \A u \in issued : SlotOf(u) = i => (u \notin spent' <=> Honoured(u)')
  <2> SUFFICES ASSUME NEW u \in issued, SlotOf(u) = i
               PROVE  u \notin spent' <=> Honoured(u)'
    OBVIOUS
  <2>0. u \in Handle
    BY StandingByKind
  <2>1. CASE u \in Reservation
    <3>1. u \notin spent => u = t
      BY <1>2, <1>i, <1>3, <2>1, StandingByKind, HandleExt DEF validateReservation
    <3>2. ~validateReservation(u)'
      BY <1>4, <2>1, StandingByKind DEF validateReservation
    <3> QED BY <1>3, <2>0, <2>1, <3>1, <3>2, HonouredByKindNext
  <2>2. CASE u \in Receipt
    <3>1. u \in spent
      BY <1>3, <2>2, StandingByKind DEF validateReceipt
    <3>2. ~validateReceipt(u)'
      BY <1>4, <1>7, <2>2, StandingByKind DEF validateReceipt
    <3> QED BY <1>3, <2>0, <2>2, <3>1, <3>2, HonouredByKindNext
  <2>3. CASE u \in ChildLease
    <3>1. u \in spent
      BY <1>5, <2>3, StandingByKind DEF validateChildLease
    <3>2. ~validateChildLease(u)'
      BY <1>3, <1>5, <2>3, StandingByKind DEF validateChildLease
    <3> QED BY <1>3, <2>0, <2>3, <3>1, <3>2, HonouredByKindNext
  <2>4. CASE u \in PublicationPermit
    <3>1. u \in spent
      BY <1>5, <2>4, StandingByKind DEF validatePublicationPermit
    <3>2. ~validatePublicationPermit(u)'
      BY <1>4, <1>5, <2>4, StandingByKind DEF validatePublicationPermit
    <3> QED BY <1>3, <2>0, <2>4, <3>1, <3>2, HonouredByKindNext
  <2> QED BY <2>0, <2>1, <2>2, <2>3, <2>4 DEF Handle
<1>10. HandlesExact'
  <2>1. Honoured(new)' /\ new # t /\ new \notin spent
    BY <1>1, <1>2, <1>4, <1>6, <1>8 DEF Honoured, validateReceipt, TypeOK
  <2>2. SlotOf(t) = i
    BY <1>2, <1>i, StandingByKind
  <2> QED BY <1>1, <1>3, <1>4, <1>9, <2>1, <2>2, ExactStep
<1>11. AuthorityHeld'
  <2>1. ReceiptAt(i, slots'[i].generation, slots'[i].claim) = new
    BY <1>n, <1>4
  <2>2. HeldAt(i)'
    BY <1>3, <1>4, <1>5, <2>1 DEF HeldAt
  <2>3. \A j \in Slots \ {i} : HeldAt(j)'
    BY <1>3, <1>4, HeldAtSame DEF IInv
  <2> QED BY <2>2, <2>3, HeldEverywhereNext
<1>12. HandlesTraceable'
  <2>1. TraceableHandle(new)'
    <3>1. t.generation < nextGeneration
      BY <1>2 DEF IInv, HandlesTraceable, Reservation
    <3> QED BY <1>3, <1>4, <1>6, <3>1 DEF TraceableHandle
  <2>2. SessionOrdered(i)'
    BY <1>4, <1>5 DEF SessionOrdered, IInv, HandlesTraceable
  <2>3. \A r \in Receipts : ~(r.slot = i /\ validateReceipt(r)')
    BY <1>1, <1>4, <1>7, HandleKinds DEF validateReceipt, Receipts
  <2>4. slots'[i].state # "reserved"
    BY <1>4
  <2>5. /\ nextGeneration <= nextGeneration'
        /\ nextChildGeneration <= nextChildGeneration'
    BY <1>1, <1>3 DEF TypeOK
  <2>6. \A u \in issued' : u \in issued \/ TraceableHandle(u)'
    BY <1>3, <2>1
  <2> QED BY <1>1, <1>3, <1>4, <2>2, <2>3, <2>4, <2>5, <2>6, TraceableStep
<1>13. ConsumedOnce'
  <2>1. Honoured(t) /\ Exchange({t}, {ReceiptAt(t.slot, t.generation, t.claim)})
    BY <1>2 DEF Honoured, commit
  <2> QED BY <1>2, <2>1, NoReplay
<1> QED
  BY <1>1, <1>10, <1>11, <1>12, <1>13 DEF IInv

\* Clearing a slot (cancel, release and the combined close) preserves the
\* invariant: the guards leave t as the only handle still honoured there.
LEMMA ClearInv ==
    ASSUME IInv, NEW t \in issued, t \in Reservation \union Receipt,
           Honoured(t), children[t.slot].state # "active",
           slots[t.slot].publication # "active", ClearSlot(t)
    PROVE  IInv'
<1>i. PICK i \in Slots : i = t.slot
  BY DEF Reservation, Receipt
<1>1. TypeOK /\ TypeOK'
  BY <1>i, ClearSlotType DEF IInv, Reservation, Receipt
<1>2. /\ slots' = [slots EXCEPT ![i] = FreeSlot]
      /\ children' = children
      /\ nextGeneration' = nextGeneration
      /\ nextChildGeneration' = nextChildGeneration
      /\ issued' = issued
      /\ spent' = spent \union {t}
  BY <1>i DEF Exchange, ClearSlot, childVars
<1>3. /\ slots'[i].state = "free"
      /\ slots'[i].publication = "idle"
      /\ slots'[i].sessionId = 0
      /\ \A j \in Slots \ {i} : slots'[j] = slots[j]
  BY <1>1, <1>2 DEF TypeOK, FreeSlot
<1>4. SlotOf(t) = i
  BY <1>i, StandingByKind
<1>5. \A u \in issued : SlotOf(u) = i => (u \notin spent' <=> Honoured(u)')
  <2> SUFFICES ASSUME NEW u \in issued, SlotOf(u) = i
               PROVE  u \notin spent' <=> Honoured(u)'
    OBVIOUS
  <2>0. u \in Handle
    BY StandingByKind
  <2>1. CASE u \in Reservation
    <3>1. ASSUME u \notin spent PROVE u = t
      <4>1. validateReservation(u) /\ u.slot = i
        BY <2>1, <3>1, StandingByKind
      <4>2. t \in Reservation
        BY <1>i, <4>1 DEF Honoured, validateReservation, validateReceipt,
             validateChildLease, validatePublicationPermit, Receipt
      <4> QED BY <1>i, <2>1, <4>1, <4>2, HonouredByKind, HandleExt
              DEF validateReservation, Handle
    <3>2. ~validateReservation(u)'
      BY <1>3, <2>1, StandingByKind DEF validateReservation
    <3> QED BY <1>2, <2>0, <2>1, <3>1, <3>2, HonouredByKindNext
  <2>2. CASE u \in Receipt
    <3>1. ASSUME u \notin spent PROVE u = t
      <4>1. validateReceipt(u) /\ u.slot = i
        BY <2>2, <3>1, StandingByKind
      <4>2. t \in Receipt
        BY <1>i, <4>1 DEF Honoured, validateReservation, validateReceipt,
             validateChildLease, validatePublicationPermit, Reservation
      <4> QED BY <1>i, <2>2, <4>1, <4>2, HonouredByKind, HandleExt
              DEF validateReceipt, Handle
    <3>2. ~validateReceipt(u)'
      BY <1>3, <2>2, StandingByKind DEF validateReceipt
    <3> QED BY <1>2, <2>0, <2>2, <3>1, <3>2, HonouredByKindNext
  <2>3. CASE u \in ChildLease
    <3>1. u \in spent
      BY <1>i, <2>3, StandingByKind DEF validateChildLease
    <3>2. ~validateChildLease(u)'
      BY <1>i, <1>2, <2>3, StandingByKind DEF validateChildLease
    <3> QED BY <1>2, <2>0, <2>3, <3>1, <3>2, HonouredByKindNext
  <2>4. CASE u \in PublicationPermit
    <3>1. u \in spent
      BY <1>i, <2>4, StandingByKind DEF validatePublicationPermit
    <3>2. ~validatePublicationPermit(u)'
      BY <1>3, <2>4, StandingByKind DEF validatePublicationPermit
    <3> QED BY <1>2, <2>0, <2>4, <3>1, <3>2, HonouredByKindNext
  <2> QED BY <2>0, <2>1, <2>2, <2>3, <2>4 DEF Handle
<1>6. HandlesExact'
  BY <1>1, <1>2, <1>3, <1>4, <1>5, ExactStep
<1>7. AuthorityHeld'
  <2>1. HeldAt(i)'
    BY <1>i, <1>2, <1>3 DEF HeldAt
  <2>2. \A j \in Slots \ {i} : HeldAt(j)'
    BY <1>2, <1>3, HeldAtSame DEF IInv
  <2> QED BY <2>1, <2>2, HeldEverywhereNext
<1>8. HandlesTraceable'
  <2>1. SessionOrdered(i)'
    BY <1>3 DEF SessionOrdered
  <2>2. \A r \in Receipts : ~(r.slot = i /\ validateReceipt(r)')
    BY <1>3 DEF validateReceipt
  <2>3. slots'[i].state # "reserved"
    BY <1>3
  <2>4. /\ nextGeneration <= nextGeneration'
        /\ nextChildGeneration <= nextChildGeneration'
    BY <1>1, <1>2 DEF TypeOK
  <2> QED BY <1>1, <1>2, <1>3, <2>1, <2>2, <2>3, <2>4, TraceableStep
<1>9. ConsumedOnce'
  <2>1. Exchange({t}, {})
    BY DEF ClearSlot
  <2> QED BY <2>1, NoReplay
<1> QED
  BY <1>1, <1>6, <1>7, <1>8, <1>9 DEF IInv

\* A step that leaves every slot record alone and changes one child keeps the
\* standing of the reservations, receipts and permits.
LEMMA SlotsSame ==
    ASSUME IInv, slots' = slots, NEW u \in issued, u \notin ChildLease
    PROVE  u \notin spent <=> Honoured(u)'
<1>1. u \in Handle /\ u \in Reservation \union Receipt \union PublicationPermit
  BY StandingByKind DEF Handle
<1>2. CASE u \in Reservation
  BY <1>1, <1>2, StandingByKind, HonouredByKindNext DEF validateReservation
<1>3. CASE u \in Receipt
  BY <1>1, <1>3, StandingByKind, HonouredByKindNext DEF validateReceipt
<1>4. CASE u \in PublicationPermit
  BY <1>1, <1>4, StandingByKind, HonouredByKindNext
     DEF validatePublicationPermit, validateReceipt
<1> QED BY <1>1, <1>2, <1>3, <1>4

\* Such a step also keeps the handles traceable, if its new handles are
\* child leases of issued receipts with a fresh generation.
LEMMA ChildTraceable ==
    ASSUME IInv, TypeOK', slots' = slots, issued \subseteq issued',
           nextGeneration' = nextGeneration,
           nextChildGeneration <= nextChildGeneration',
           \A u \in issued' : u \in issued \/
              ( /\ u.kind = "child" /\ u.parent \in Receipts
                /\ u.generation < nextChildGeneration' )
    PROVE  HandlesTraceable'
<1>1. TypeOK /\ HandlesTraceable /\ Receipts \subseteq Receipts'
  BY DEF IInv, Receipts
<1>2. ASSUME NEW u \in issued PROVE TraceableHandle(u)'
  <2>1. TraceableHandle(u)
    BY <1>1 DEF HandlesTraceable, TraceableHandle
  <2>2. u \in Handle /\ u.generation \in Nat
    BY <1>1 DEF TypeOK, Handle, Reservation, Receipt, ChildLease,
                PublicationPermit
  <2>3. u.kind = "child" => u.generation < nextChildGeneration'
    BY <1>1, <2>1, <2>2 DEF TraceableHandle, TypeOK
  <2> QED BY <1>1, <2>1, <2>3 DEF TraceableHandle, validateReceipt
<1>3. ASSUME NEW u \in issued', u \notin issued PROVE TraceableHandle(u)'
  BY <1>1, <1>3 DEF TraceableHandle
<1>4. \A u \in issued' : TraceableHandle(u)'
  BY <1>2, <1>3
<1>5. \A j \in Slots : SessionOrdered(j)'
  BY <1>1 DEF HandlesTraceable, SessionOrdered
<1> QED BY <1>4, <1>5 DEF HandlesTraceable, TraceableHandle, SessionOrdered

\* At most one lease of a slot's child is honoured at a time.
LEMMA OneChildLease ==
    ASSUME IInv, NEW t \in issued, t \in ChildLease, validateChildLease(t),
           NEW u \in issued, u \in ChildLease, SlotOf(u) = t.parent.slot,
           u \notin spent
    PROVE  u = t
<1>1. validateChildLease(u) /\ u.parent \in Receipt /\ t.parent \in Receipt
      /\ u.parent.slot = t.parent.slot
  BY StandingByKind
<1>2. u.parent = t.parent
  BY <1>1, HandleExt DEF validateChildLease, validateReceipt
<1> QED BY <1>1, <1>2, HandleExt DEF validateChildLease

\* A child generation that the Bank hands out next names no issued lease.
LEMMA FreshChildGeneration ==
    ASSUME IInv, NEW u \in issued, u \in ChildLease
    PROVE  u.generation # nextChildGeneration
<1>1. u.kind = "child" /\ u.generation \in Nat
  BY DEF ChildLease
<1> QED BY <1>1 DEF IInv, HandlesTraceable, TypeOK

\* openChild preserves the invariant: the child slot was free and the new
\* lease has a fresh generation.
LEMMA OpenChildInv ==
    ASSUME IInv, NEW t \in Receipts, NEW ceiling \in Claim, NEW c \in Claim,
           openChild(t, ceiling, c)
    PROVE  IInv'
<1>1. TypeOK /\ TypeOK'
  BY OpenChildType DEF IInv
<1>2. t \in Receipt /\ t \in issued /\ validateReceipt(t)
  BY <1>1, HandleKinds DEF Receipts, openChild
<1>i. PICK i \in Slots : i = t.slot
  BY <1>2 DEF Receipt
<1>n. PICK new : new = ChildLeaseAt(t, nextChildGeneration, ceiling, c)
  OBVIOUS
<1>3. /\ slots' = slots
      /\ children[i].state = "free"
      /\ children' = [children EXCEPT ![i] =
                        [state |-> "active", generation |-> nextChildGeneration,
                         ceiling |-> ceiling, claim |-> c]]
      /\ nextGeneration' = nextGeneration
      /\ nextChildGeneration' = nextChildGeneration + 1
      /\ issued' = issued \union {new}
      /\ spent' = spent
      /\ replayed' = replayed
  BY <1>i, <1>n DEF openChild, Exchange
<1>4. /\ children'[i].state = "active"
      /\ children'[i].generation = nextChildGeneration
      /\ children'[i].ceiling = ceiling
      /\ children'[i].claim = c
      /\ \A j \in Slots \ {i} : children'[j] = children[j]
  BY <1>1, <1>3 DEF TypeOK
<1>5. /\ new \in ChildLease /\ new.kind = "child" /\ new.parent = t
      /\ new.generation = nextChildGeneration
      /\ new.ceiling = ceiling /\ new.claim = c
  BY <1>1, <1>2, <1>n, HandleTypes DEF ChildLeaseAt, TypeOK, ChildLease
<1>6. new \notin issued
  BY <1>5, FreshChildGeneration
<1>7. \A u \in issued : SlotOf(u) = i => (u \notin spent' <=> Honoured(u)')
  <2> SUFFICES ASSUME NEW u \in issued, SlotOf(u) = i
               PROVE  u \notin spent' <=> Honoured(u)'
    OBVIOUS
  <2>1. CASE u \in ChildLease
    <3>1. u \in spent
      BY <1>3, <2>1, StandingByKind DEF validateChildLease
    <3>2. ~validateChildLease(u)'
      BY <1>4, <2>1, StandingByKind, FreshChildGeneration DEF validateChildLease
    <3> QED BY <1>3, <2>1, <3>1, <3>2, StandingByKind, HonouredByKindNext
  <2>2. CASE u \notin ChildLease
    BY <1>3, <2>2, SlotsSame
  <2> QED BY <2>1, <2>2
<1>8. HandlesExact'
  <2>1. validateChildLease(new)'
    BY <1>2, <1>i, <1>3, <1>4, <1>5 DEF validateChildLease, validateReceipt
  <2>2. Honoured(new)' /\ new \notin spent'
    BY <1>1, <1>3, <1>6, <2>1 DEF Honoured, TypeOK
  <2> QED BY <1>1, <1>3, <1>4, <1>7, <2>2, ExactStep
<1>9. AuthorityHeld'
  <2>1. ReceiptAt(i, slots[i].generation, slots[i].claim) = t
    BY <1>2, <1>i DEF validateReceipt, ReceiptAt, Receipt
  <2>2. HeldAt(i)
    BY HeldEverywhereNext DEF IInv
  <2>3. HeldAt(i)'
    BY <1>2, <1>i, <1>n, <1>3, <1>4, <2>1, <2>2 DEF HeldAt, validateReceipt
  <2>4. \A j \in Slots \ {i} : HeldAt(j)'
    BY <1>3, <1>4, HeldAtSame DEF IInv
  <2> QED BY <2>3, <2>4, HeldEverywhereNext
<1>10. HandlesTraceable'
  <2>1. /\ nextChildGeneration <= nextChildGeneration'
        /\ nextChildGeneration < nextChildGeneration'
    BY <1>1, <1>3 DEF TypeOK
  <2> QED BY <1>1, <1>3, <1>5, <2>1, ChildTraceable
<1> QED
  BY <1>1, <1>3, <1>8, <1>9, <1>10 DEF IInv, ConsumedOnce

\* Every resize of a child preserves the invariant: the presented lease was
\* the only honoured one and is consumed, and its successor has a fresh
\* generation.
LEMMA ResizeInv ==
    ASSUME IInv, NEW t \in ChildLeases, NEW c \in Claim,
           validateChildLease(t), resizeChildLocked(t, c)
    PROVE  IInv'
<1>1. TypeOK /\ TypeOK'
  BY ResizeType DEF IInv
<1>2. t \in ChildLease /\ t \in issued /\ t.parent \in Receipt
      /\ t.parent \in Receipts /\ SlotOf(t) = t.parent.slot
  BY <1>1, HandleKinds, StandingByKind DEF ChildLeases, IInv, HandlesTraceable
<1>i. PICK i \in Slots : i = t.parent.slot
  BY <1>2 DEF Receipt
<1>n. PICK new :
        new = ChildLeaseAt(t.parent, nextChildGeneration, t.ceiling, c)
  OBVIOUS
<1>3. /\ slots' = slots
      /\ children' = [children EXCEPT ![i].generation = nextChildGeneration,
                                      ![i].claim = c]
      /\ nextGeneration' = nextGeneration
      /\ nextChildGeneration' = nextChildGeneration + 1
      /\ issued' = issued \union {new}
      /\ spent' = spent \union {t}
  BY <1>i, <1>n DEF resizeChildLocked, Exchange
<1>4. /\ children'[i].state = "active"
      /\ children'[i].generation = nextChildGeneration
      /\ children'[i].ceiling = t.ceiling
      /\ children'[i].claim = c
      /\ \A j \in Slots \ {i} : children'[j] = children[j]
  BY <1>1, <1>i, <1>3 DEF TypeOK, ChildSlot, validateChildLease
<1>5. /\ new \in ChildLease /\ new.kind = "child" /\ new.parent = t.parent
      /\ new.generation = nextChildGeneration
      /\ new.ceiling = t.ceiling /\ new.claim = c
  BY <1>1, <1>2, <1>n, HandleTypes DEF ChildLeaseAt, TypeOK, ChildLease
<1>6. new \notin issued
  BY <1>5, FreshChildGeneration
<1>7. \A u \in issued : SlotOf(u) = i => (u \notin spent' <=> Honoured(u)')
  <2> SUFFICES ASSUME NEW u \in issued, SlotOf(u) = i
               PROVE  u \notin spent' <=> Honoured(u)'
    OBVIOUS
  <2>1. CASE u \in ChildLease
    <3>1. u \in spent'
      BY <1>2, <1>i, <1>3, <2>1, OneChildLease
    <3>2. ~validateChildLease(u)'
      BY <1>4, <2>1, StandingByKind, FreshChildGeneration DEF validateChildLease
    <3> QED BY <2>1, <3>1, <3>2, StandingByKind, HonouredByKindNext
  <2>2. CASE u \notin ChildLease
    BY <1>2, <1>3, <2>2, SlotsSame
  <2> QED BY <2>1, <2>2
<1>8. HandlesExact'
  <2>1. validateChildLease(new)'
    BY <1>2, <1>i, <1>3, <1>4, <1>5 DEF validateChildLease, validateReceipt
  <2>2. Honoured(new)' /\ new \notin spent'
    BY <1>1, <1>2, <1>3, <1>6, <2>1 DEF Honoured, TypeOK
  <2> QED BY <1>1, <1>2, <1>i, <1>3, <1>4, <1>7, <2>2, ExactStep
<1>9. AuthorityHeld'
  <2>1. ReceiptAt(i, slots[i].generation, slots[i].claim) = t.parent
    BY <1>2, <1>i DEF validateChildLease, validateReceipt, ReceiptAt, Receipt
  <2>2. HeldAt(i)
    BY HeldEverywhereNext, SMTT(60) DEF IInv
  <2>3. HeldAt(i)'
    BY <1>i, <1>n, <1>3, <1>4, <2>1, <2>2, SMTT(60)
       DEF HeldAt, validateChildLease, validateReceipt
  <2>4. \A j \in Slots \ {i} : HeldAt(j)'
    BY <1>3, <1>4, HeldAtSame DEF IInv
  <2> QED BY <2>3, <2>4, HeldEverywhereNext
<1>10. HandlesTraceable'
  <2>1. /\ nextChildGeneration <= nextChildGeneration'
        /\ nextChildGeneration < nextChildGeneration'
    BY <1>1, <1>3 DEF TypeOK
  <2> QED BY <1>1, <1>2, <1>3, <1>5, <2>1, ChildTraceable
<1>11. ConsumedOnce'
  <2>1. Honoured(t) /\ Exchange({t},
          {ChildLeaseAt(t.parent, nextChildGeneration, t.ceiling, c)})
    BY DEF Honoured, resizeChildLocked
  <2> QED BY <1>2, <2>1, NoReplay
<1> QED
  BY <1>1, <1>8, <1>9, <1>10, <1>11 DEF IInv

\* closeChild preserves the invariant: no lease of the slot remains honoured.
LEMMA CloseChildInv ==
    ASSUME IInv, NEW t \in ChildLeases, closeChild(t)
    PROVE  IInv'
<1>1. TypeOK /\ TypeOK'
  BY CloseChildType DEF IInv
<1>2. t \in ChildLease /\ t \in issued /\ t.parent \in Receipt
      /\ SlotOf(t) = t.parent.slot /\ validateChildLease(t)
  BY <1>1, HandleKinds, StandingByKind DEF ChildLeases, closeChild
<1>i. PICK i \in Slots : i = t.parent.slot
  BY <1>2 DEF Receipt
<1>3. /\ slots' = slots
      /\ children' = [children EXCEPT ![i] = FreeChild]
      /\ nextGeneration' = nextGeneration
      /\ nextChildGeneration' = nextChildGeneration
      /\ issued' = issued
      /\ spent' = spent \union {t}
  BY <1>i DEF closeChild, Exchange
<1>4. /\ children'[i].state = "free"
      /\ \A j \in Slots \ {i} : children'[j] = children[j]
  BY <1>1, <1>3 DEF TypeOK, FreeChild
<1>5. \A u \in issued : SlotOf(u) = i => (u \notin spent' <=> Honoured(u)')
  <2> SUFFICES ASSUME NEW u \in issued, SlotOf(u) = i
               PROVE  u \notin spent' <=> Honoured(u)'
    OBVIOUS
  <2>1. CASE u \in ChildLease
    <3>1. u \in spent'
      BY <1>2, <1>i, <1>3, <2>1, OneChildLease
    <3>2. ~validateChildLease(u)'
      BY <1>4, <2>1, StandingByKind DEF validateChildLease
    <3> QED BY <2>1, <3>1, <3>2, StandingByKind, HonouredByKindNext
  <2>2. CASE u \notin ChildLease
    BY <1>2, <1>3, <2>2, SlotsSame
  <2> QED BY <2>1, <2>2
<1>6. HandlesExact'
  BY <1>1, <1>2, <1>i, <1>3, <1>4, <1>5, ExactStep
<1>7. AuthorityHeld'
  <2>1. HeldAt(i)
    BY HeldEverywhereNext DEF IInv
  <2>2. HeldAt(i)'
    BY <1>3, <1>4, <2>1 DEF HeldAt
  <2>3. \A j \in Slots \ {i} : HeldAt(j)'
    BY <1>3, <1>4, HeldAtSame DEF IInv
  <2> QED BY <2>2, <2>3, HeldEverywhereNext
<1>8. HandlesTraceable'
  <2>1. nextChildGeneration <= nextChildGeneration'
    BY <1>1, <1>3 DEF TypeOK
  <2> QED BY <1>1, <1>3, <2>1, ChildTraceable
<1>9. ConsumedOnce'
  <2>1. Honoured(t) /\ Exchange({t}, {})
    BY <1>2 DEF Honoured, closeChild
  <2> QED BY <1>2, <2>1, NoReplay
<1> QED
  BY <1>1, <1>6, <1>7, <1>8, <1>9 DEF IInv

\* What a step of the publication session leaves alone in slot i: all that
\* the receipt and the child lease are validated against.
SessionOnly(i) ==
    /\ \A j \in Slots \ {i} : slots'[j] = slots[j]
    /\ slots[i].state = "committed"
    /\ slots'[i].state = "committed"
    /\ slots'[i].generation = slots[i].generation
    /\ slots'[i].claim = slots[i].claim
    /\ children' = children
    /\ nextGeneration' = nextGeneration
    /\ nextChildGeneration' = nextChildGeneration

\* Such a step keeps the standing of every receipt.
LEMMA ReceiptsStand ==
    ASSUME NEW i \in Slots, SessionOnly(i), NEW r \in Receipt
    PROVE  validateReceipt(r)' <=> validateReceipt(r)
<1>1. r.slot \in Slots
  BY DEF Receipt
<1>2. CASE r.slot = i
  BY <1>2 DEF SessionOnly, validateReceipt
<1>3. CASE r.slot # i
  BY <1>1, <1>3 DEF SessionOnly, validateReceipt
<1> QED BY <1>2, <1>3

\* Such a step keeps the standing of all handles that are not permits.
LEMMA SessionStands ==
    ASSUME IInv, NEW i \in Slots, SessionOnly(i),
           NEW u \in issued, u \notin PublicationPermit
    PROVE  u \notin spent <=> Honoured(u)'
<1>1. u \in Handle /\ u \in Reservation \union Receipt \union ChildLease
  BY StandingByKind DEF Handle
<1>2. CASE u \in Reservation
  <2>1. u.slot \in Slots
    BY <1>2 DEF Reservation
  <2>2. validateReservation(u)' <=> validateReservation(u)
    BY <2>1 DEF SessionOnly, validateReservation
  <2> QED BY <1>1, <1>2, <2>2, StandingByKind, HonouredByKindNext
<1>3. CASE u \in Receipt
  BY <1>1, <1>3, ReceiptsStand, StandingByKind, HonouredByKindNext
<1>4. CASE u \in ChildLease
  <2>1. u.parent \in Receipt
    BY <1>4 DEF ChildLease
  <2>2. validateReceipt(u.parent)' <=> validateReceipt(u.parent)
    BY <2>1, ReceiptsStand
  <2>3. validateChildLease(u)' <=> validateChildLease(u)
    BY <2>2 DEF SessionOnly, validateChildLease
  <2> QED BY <1>1, <1>4, <2>3, StandingByKind, HonouredByKindNext
<1> QED BY <1>1, <1>2, <1>3, <1>4

\* At most one permit of a slot is honoured at a time.
LEMMA OnePermit ==
    ASSUME IInv, NEW t \in issued, t \in PublicationPermit,
           validatePublicationPermit(t), NEW u \in issued,
           u \in PublicationPermit, SlotOf(u) = t.receipt.slot, u \notin spent
    PROVE  u = t
<1>1. validatePublicationPermit(u) /\ u.receipt \in Receipt
      /\ t.receipt \in Receipt /\ u.receipt.slot = t.receipt.slot
  BY StandingByKind
<1>2. u.receipt = t.receipt
  BY <1>1, HandleExt DEF validatePublicationPermit, validateReceipt
<1> QED BY <1>1, <1>2, HandleExt DEF validatePublicationPermit

\* A session step preserves the invariant if the permits of its slot end up
\* in order, it keeps the permit counter and the tombstone, and its new
\* handles are honoured, traceable permits.
LEMMA SessionInv ==
    ASSUME IInv, TypeOK', NEW i \in Slots, SessionOnly(i),
           issued \subseteq issued', ConsumedOnce',
           \A u \in issued : u \in spent' =>
              u \in spent \/ (SlotOf(u) = i /\ u \in PublicationPermit),
           spent \subseteq spent',
           \A u \in issued : u \in PublicationPermit /\ SlotOf(u) = i =>
              (u \notin spent' <=> Honoured(u)'),
           slots[i].permitGeneration <= slots'[i].permitGeneration,
           slots[i].requestEpoch # 0 => slots'[i].requestEpoch # 0,
           SessionOrdered(i)',
           slots'[i].publication = "active" =>
              PermitAt(ReceiptAt(i, slots'[i].generation, slots'[i].claim),
                       slots'[i].requestEpoch, slots'[i].sessionId,
                       slots'[i].nextSequence, slots'[i].permitGeneration)
                 \in issued',
           \A u \in issued' : u \in issued \/
              (u \notin spent' /\ Honoured(u)'),
           \A u \in issued' : u \in issued \/ TraceableHandle(u)'
    PROVE  IInv'
<1>1. TypeOK
  BY DEF IInv
<1>2. \A j \in Slots \ {i} : slots'[j] = slots[j] /\ children'[j] = children[j]
  BY DEF SessionOnly
<1>3. \A u \in issued : SlotOf(u) = i => (u \notin spent' <=> Honoured(u)')
  BY SessionStands
<1>4. \A u \in issued : SlotOf(u) # i => (u \in spent' <=> u \in spent)
  OBVIOUS
<1>5. HandlesExact'
  BY <1>2, <1>3, <1>4, ExactStep
<1>6. AuthorityHeld'
  <2>1. HeldAt(i)
    BY HeldEverywhereNext DEF IInv
  <2>2. HeldAt(i)'
    BY <2>1 DEF HeldAt, SessionOnly
  <2>3. \A j \in Slots \ {i} : HeldAt(j)'
    BY <1>2, HeldAtSame DEF IInv
  <2> QED BY <2>2, <2>3, HeldEverywhereNext
<1>7. HandlesTraceable'
  <2>1. \A r \in Receipts : validateReceipt(r)' => validateReceipt(r)
    BY <1>1, HandleKinds, ReceiptsStand
  <2>2. slots'[i].state # "reserved"
    BY DEF SessionOnly
  <2>3. /\ nextGeneration <= nextGeneration'
        /\ nextChildGeneration <= nextChildGeneration'
    BY <1>1 DEF TypeOK, SessionOnly
  <2> QED BY <1>2, <2>1, <2>2, <2>3, TraceableStep
<1> QED BY <1>5, <1>6, <1>7 DEF IInv

\* Binding a session preserves the invariant: the receipt had no tombstone,
\* so no permit was ever issued for it.
LEMMA BindInv ==
    ASSUME IInv, NEW t \in Receipts, NEW e \in Nat, NEW id \in Nat,
           bindPublicationSessionLocked(t, e, id)
    PROVE  IInv'
<1>1. TypeOK /\ TypeOK'
  BY PublicationType, 0 \in Nat DEF IInv
<1>2. t \in Receipt /\ t \in issued /\ validateReceipt(t)
  BY <1>1, HandleKinds DEF Receipts, bindPublicationSessionLocked
<1>i. PICK i \in Slots : i = t.slot
  BY <1>2 DEF Receipt
<1>3. /\ slots' = [slots EXCEPT ![i].requestEpoch = e, ![i].sessionId = id,
                                ![i].nextSequence = 0,
                                ![i].publication = "idle"]
      /\ e # 0 /\ slots[i].sessionId = 0 /\ slots[i].requestEpoch = 0
      /\ issued' = issued /\ spent' = spent /\ replayed' = replayed
  BY <1>i DEF bindPublicationSessionLocked, handleVars
<1>4. /\ slots'[i].publication = "idle" /\ slots'[i].requestEpoch = e
      /\ slots'[i].permitGeneration = slots[i].permitGeneration
  BY <1>1, <1>3 DEF TypeOK, Slot
<1>5. SessionOnly(i)
  BY <1>1, <1>2, <1>i, <1>3 DEF SessionOnly, TypeOK, Slot, validateReceipt,
       bindPublicationSessionLocked, childVars
<1>6. \A u \in issued : u \in PublicationPermit /\ SlotOf(u) = i =>
        (u \notin spent' <=> Honoured(u)')
  <2> SUFFICES ASSUME NEW u \in issued, u \in PublicationPermit, SlotOf(u) = i
               PROVE  u \in spent' /\ ~Honoured(u)'
    OBVIOUS
  <2>1. slots[i].publication # "active"
    BY <1>3 DEF IInv, HandlesTraceable
  <2>2. u \in spent
    BY <2>1, StandingByKind DEF validatePublicationPermit
  <2>3. ~validatePublicationPermit(u)'
    BY <1>4, StandingByKind DEF validatePublicationPermit
  <2> QED BY <1>3, <2>2, <2>3, StandingByKind, HonouredByKindNext
<1>7. SessionOrdered(i)' /\ slots[i].permitGeneration <= slots'[i].permitGeneration
  BY <1>1, <1>3, <1>4 DEF SessionOrdered, TypeOK, Slot
<1>8. ConsumedOnce'
  BY <1>3 DEF IInv, ConsumedOnce
<1> QED BY <1>1, <1>3, <1>4, <1>5, <1>6, <1>7, <1>8, SessionInv

\* Closing a session preserves the invariant: no permit is live, and the
\* request epoch stays behind.
LEMMA CloseSessionInv ==
    ASSUME IInv, NEW t \in Receipts, NEW e \in Nat, NEW id \in Nat,
           NEW n \in Nat, closePublicationSession(t, e, id, n)
    PROVE  IInv'
<1>1. TypeOK /\ TypeOK'
  BY PublicationType DEF IInv
<1>2. t \in Receipt /\ t \in issued /\ validateReceipt(t)
  BY <1>1, HandleKinds DEF Receipts, closePublicationSession
<1>i. PICK i \in Slots : i = t.slot
  BY <1>2 DEF Receipt
<1>3. /\ slots' = [slots EXCEPT ![i].sessionId = 0]
      /\ slots[i].publication = "idle"
      /\ issued' = issued /\ spent' = spent /\ replayed' = replayed
  BY <1>i DEF closePublicationSession, handleVars, SessionAt
<1>4. /\ slots'[i].publication = "idle" /\ slots'[i].sessionId = 0
      /\ slots'[i].requestEpoch = slots[i].requestEpoch
      /\ slots'[i].permitGeneration = slots[i].permitGeneration
  BY <1>1, <1>3 DEF TypeOK, Slot
<1>5. SessionOnly(i)
  BY <1>1, <1>2, <1>i, <1>3 DEF SessionOnly, TypeOK, Slot, validateReceipt,
       closePublicationSession, childVars
<1>6. \A u \in issued : u \in PublicationPermit /\ SlotOf(u) = i =>
        (u \notin spent' <=> Honoured(u)')
  <2> SUFFICES ASSUME NEW u \in issued, u \in PublicationPermit, SlotOf(u) = i
               PROVE  u \in spent' /\ ~Honoured(u)'
    OBVIOUS
  <2>1. u \in spent
    BY <1>3, StandingByKind DEF validatePublicationPermit
  <2>2. ~validatePublicationPermit(u)'
    BY <1>4, StandingByKind DEF validatePublicationPermit
  <2> QED BY <1>3, <2>1, <2>2, StandingByKind, HonouredByKindNext
<1>7. SessionOrdered(i)' /\ slots[i].permitGeneration <= slots'[i].permitGeneration
  BY <1>1, <1>4 DEF SessionOrdered, TypeOK, Slot
<1>8. ConsumedOnce'
  BY <1>3 DEF IInv, ConsumedOnce
<1> QED BY <1>1, <1>3, <1>4, <1>5, <1>6, <1>7, <1>8, SessionInv

\* Settling a permit, by commit or abort, preserves the invariant: it was the
\* only live permit of its slot.
LEMMA SettlePermitInv ==
    ASSUME IInv, NEW t \in Permits,
           commitPublicationAssumeValid(t) \/ abortPublication(t)
    PROVE  IInv'
<1>1. TypeOK /\ TypeOK'
  BY PermitType DEF IInv
<1>2. /\ t \in PublicationPermit /\ t \in issued
      /\ validatePublicationPermit(t) /\ t.receipt \in Receipt
  BY <1>1, HandleKinds DEF Permits, commitPublicationAssumeValid,
       abortPublication, PublicationPermit
<1>i. PICK i \in Slots : i = t.receipt.slot
  BY <1>2 DEF Receipt
<1>3. /\ issued' = issued /\ spent' = spent \union {t} /\ Exchange({t}, {})
  BY DEF commitPublicationAssumeValid, abortPublication, Exchange
<1>4. /\ slots'[i].publication = "idle"
      /\ slots'[i].sessionId = slots[i].sessionId
      /\ slots'[i].requestEpoch = slots[i].requestEpoch
      /\ slots'[i].permitGeneration = slots[i].permitGeneration
  BY <1>1, <1>i DEF TypeOK, Slot, commitPublicationAssumeValid,
                    abortPublication
<1>5. SessionOnly(i)
  BY <1>1, <1>2, <1>i DEF SessionOnly, TypeOK, Slot, validateReceipt,
       validatePublicationPermit, commitPublicationAssumeValid,
       abortPublication, childVars
<1>6. \A u \in issued : u \in PublicationPermit /\ SlotOf(u) = i =>
        (u \notin spent' <=> Honoured(u)')
  <2> SUFFICES ASSUME NEW u \in issued, u \in PublicationPermit, SlotOf(u) = i
               PROVE  u \in spent' /\ ~Honoured(u)'
    OBVIOUS
  <2>1. u \in spent'
    BY <1>2, <1>i, <1>3, OnePermit
  <2>2. ~validatePublicationPermit(u)'
    BY <1>4, StandingByKind DEF validatePublicationPermit
  <2> QED BY <2>1, <2>2, StandingByKind, HonouredByKindNext
<1>7. SessionOrdered(i)' /\ slots[i].permitGeneration <= slots'[i].permitGeneration
  BY <1>1, <1>4 DEF SessionOrdered, TypeOK, Slot, IInv, HandlesTraceable
<1>8. ConsumedOnce'
  <2>1. Honoured(t)
    BY <1>2 DEF Honoured
  <2> QED BY <1>2, <1>3, <2>1, NoReplay
<1>9. SlotOf(t) = i
  BY <1>2, <1>i, StandingByKind
<1> QED BY <1>1, <1>2, <1>3, <1>4, <1>5, <1>6, <1>7, <1>8, <1>9, SessionInv

\* Beginning a publication preserves the invariant when the session is bound
\* (its id is not 0): no permit was live and the permit generation is fresh.
LEMMA BeginInv ==
    ASSUME IInv, NEW t \in Receipts, NEW e \in Nat, NEW id \in Nat,
           NEW n \in Nat, id # 0, beginPublicationLocked(t, e, id, n)
    PROVE  IInv'
<1>1. TypeOK /\ TypeOK'
  BY PublicationType DEF IInv
<1>2. t \in Receipt /\ t \in issued /\ validateReceipt(t)
  BY <1>1, HandleKinds DEF Receipts, beginPublicationLocked
<1>i. PICK i \in Slots : i = t.slot
  BY <1>2 DEF Receipt
<1>n. PICK new :
        new = PermitAt(t, e, id, n, slots[i].permitGeneration + 1)
  OBVIOUS
<1>3. /\ slots' = [slots EXCEPT ![i].permitGeneration = @ + 1,
                                ![i].publication = "active"]
      /\ SessionAt(slots[i], e, id, n)
      /\ issued' = issued \union {new} /\ spent' = spent
      /\ replayed' = replayed
  BY <1>i, <1>n DEF beginPublicationLocked, Exchange
<1>4. /\ slots'[i].publication = "active"
      /\ slots'[i].sessionId = id /\ slots'[i].requestEpoch = e
      /\ slots'[i].nextSequence = n
      /\ slots'[i].permitGeneration = slots[i].permitGeneration + 1
      /\ slots[i].sessionId = id /\ slots[i].requestEpoch = e
      /\ slots[i].publication = "idle"
      /\ slots[i].permitGeneration \in Nat
  BY <1>1, <1>3 DEF TypeOK, Slot, SessionAt
<1>5. SessionOnly(i)
  BY <1>1, <1>2, <1>i, <1>3 DEF SessionOnly, TypeOK, Slot, validateReceipt,
       beginPublicationLocked, childVars
<1>6. e # 0
  BY <1>4 DEF IInv, HandlesTraceable
<1>7. /\ new \in PublicationPermit /\ new.kind = "permit" /\ new.receipt = t
      /\ new.requestEpoch = e /\ new.sessionId = id /\ new.sequence = n
      /\ new.generation = slots[i].permitGeneration + 1
  BY <1>2, <1>n, <1>4 DEF PermitAt, PublicationPermit
<1>8. ASSUME NEW u \in issued, u \in PublicationPermit, SlotOf(u) = i,
             validateReceipt(u.receipt)
      PROVE  u.generation # slots[i].permitGeneration + 1
  <2>1. u.kind = "permit" /\ u.generation \in Nat /\ u.receipt.slot = i
    BY <1>8, StandingByKind DEF PublicationPermit
  <2> QED BY <1>4, <1>8, <2>1 DEF IInv, HandlesTraceable
<1>9. new \notin issued
  BY <1>2, <1>i, <1>7, <1>8, StandingByKind
<1>10. \A u \in issued : u \in PublicationPermit /\ SlotOf(u) = i =>
         (u \notin spent' <=> Honoured(u)')
  <2> SUFFICES ASSUME NEW u \in issued, u \in PublicationPermit, SlotOf(u) = i
               PROVE  u \in spent' /\ ~Honoured(u)'
    OBVIOUS
  <2>1. u \in spent
    BY <1>4, StandingByKind DEF validatePublicationPermit
  <2>2. validateReceipt(u.receipt)' <=> validateReceipt(u.receipt)
    BY <1>5, StandingByKind, ReceiptsStand
  <2>3. ~validatePublicationPermit(u)'
    BY <1>4, <1>8, <2>2, StandingByKind DEF validatePublicationPermit
  <2> QED BY <1>3, <2>1, <2>3, StandingByKind, HonouredByKindNext
<1>11. /\ SessionOrdered(i)'
       /\ slots[i].permitGeneration <= slots'[i].permitGeneration
  BY <1>1, <1>4, <1>6 DEF SessionOrdered
<1>12. validateReceipt(t)'
  BY <1>2, <1>5, ReceiptsStand
<1>13. Honoured(new)' /\ new \notin spent'
  <2>1. validatePublicationPermit(new)'
    BY <1>i, <1>4, <1>7, <1>12 DEF validatePublicationPermit
  <2> QED BY <1>1, <1>3, <1>9, <2>1 DEF Honoured, TypeOK
<1>14. TraceableHandle(new)'
  <2>1. t \in Receipts'
    BY <1>3 DEF Receipts
  <2> QED BY <1>i, <1>4, <1>6, <1>7, <2>1 DEF TraceableHandle
<1>15. PermitAt(ReceiptAt(i, slots'[i].generation, slots'[i].claim),
                slots'[i].requestEpoch, slots'[i].sessionId,
                slots'[i].nextSequence, slots'[i].permitGeneration) = new
  <2>1. ReceiptAt(i, slots'[i].generation, slots'[i].claim) = t
    BY <1>2, <1>i, <1>5 DEF validateReceipt, ReceiptAt, Receipt, SessionOnly
  <2> QED BY <1>n, <1>4, <2>1
<1>16. ConsumedOnce'
  BY <1>3 DEF IInv, ConsumedOnce
<1>17. issued \subseteq issued' /\ new \in issued'
       /\ (\A u \in issued' : u \in issued \/ u = new)
  BY <1>3
<1> QED
  <2>1. \A u \in issued' : u \in issued \/ (u \notin spent' /\ Honoured(u)')
    BY <1>13, <1>17
  <2>2. \A u \in issued' : u \in issued \/ TraceableHandle(u)'
    BY <1>14, <1>17
  <2> QED BY <1>1, <1>3, <1>4, <1>5, <1>6, <1>10, <1>11, <1>15, <1>16, <1>17,
             <2>1, <2>2, SessionInv

-----------------------------------------------------------------------------
(* Theorems.  Callers draw session ids from the nonzero ids that bind      *)
(* accepts; for a caller that presents session 0 see ClosedIsTerminal.     *)

\* The Bank starts with no handle issued and nothing charged.
LEMMA InitInv == Init => IInv
<1> SUFFICES ASSUME Init PROVE IInv
  OBVIOUS
<1>1. TypeOK
  BY FreeTypes, ZeroClaimType DEF Init, TypeOK
<1>2. \A i \in Slots : slots[i] = FreeSlot /\ children[i] = FreeChild
  BY DEF Init
<1>3. AuthorityHeld /\ HandlesTraceable
  BY <1>2 DEF AuthorityHeld, HandlesTraceable, Init, FreeSlot, FreeChild
<1>4. ConsumedOnce /\ HandlesExact
  BY DEF Init, ConsumedOnce, HandlesExact
<1> QED BY <1>1, <1>3, <1>4 DEF IInv

\* Every operation of the Bank preserves the inductive invariant.
LEMMA NextInv ==
    ASSUME 0 \notin SessionIds, IInv, Next
    PROVE  IInv'
<1>1. StepCases
  BY NextCases DEF IInv
<1>2. SessionIds \subseteq Nat \ {0} /\ 0 \in Nat
  BY InputTypes
<1>3. CASE \E c \in RequestClaims : reserve(c)
  BY <1>3, ReserveInv
<1>4. CASE \E t \in Reservations : commit(t)
  BY <1>4, CommitInv
<1>5. CASE \E t \in Reservations : cancel(t)
  <2>1. PICK t \in Reservations : cancel(t)
    BY <1>5
  <2>2. t \in issued /\ t \in Reservation /\ t.slot \in Slots
    BY HandleKinds DEF Reservations, Reservation, IInv
  <2>3. validateReservation(t) /\ Honoured(t) /\ ClearSlot(t)
    BY <2>1 DEF cancel, Honoured
  <2>4. children[t.slot].state # "active" /\ slots[t.slot].publication # "active"
    BY <2>2, <2>3 DEF IInv, AuthorityHeld, validateReservation
  <2> QED BY <2>2, <2>3, <2>4, ClearInv
<1>6. CASE \E t \in Receipts :
             /\ validateReceipt(t)
             /\ slots[t.slot].publication = "idle"
             /\ children[t.slot].state = "free"
             /\ ClearSlot(t)
  <2>1. PICK t \in Receipts :
             /\ validateReceipt(t)
             /\ slots[t.slot].publication = "idle"
             /\ children[t.slot].state = "free"
             /\ ClearSlot(t)
    BY <1>6
  <2>2. t \in issued /\ t \in Receipt /\ Honoured(t)
    BY <2>1, HandleKinds DEF Receipts, IInv, Honoured
  <2> QED BY <2>1, <2>2, ClearInv
<1>7. CASE \E t \in Receipts, ceiling \in Claim, c \in Claim :
             openChild(t, ceiling, c)
  BY <1>7, OpenChildInv
<1>8. CASE \E t \in ChildLeases, c \in Claim :
             /\ validateChildLease(t)
             /\ slots[t.parent.slot].publication = "idle"
             /\ resizeChildLocked(t, c)
  BY <1>8, ResizeInv
<1>9. CASE \E t \in ChildLeases : closeChild(t)
  BY <1>9, CloseChildInv
<1>10. CASE \E t \in Receipts, e \in Nat, id \in SessionIds :
              bindPublicationSessionLocked(t, e, id)
  BY <1>2, <1>10, BindInv
<1>11. CASE \E t \in Receipts, e \in Nat, id \in SessionIds, n \in Nat :
              beginPublicationLocked(t, e, id, n)
  BY <1>2, <1>11, BeginInv
<1>12. CASE \E t \in Receipts, e \in Nat, id \in SessionIds, n \in Nat :
              closePublicationSession(t, e, id, n)
  BY <1>2, <1>12, CloseSessionInv
<1>13. CASE \E t \in Permits :
              commitPublicationAssumeValid(t) \/ abortPublication(t)
  BY <1>13, SettlePermitInv
<1> QED
  BY <1>1, <1>3, <1>4, <1>5, <1>6, <1>7, <1>8, <1>9, <1>10, <1>11, <1>12,
     <1>13 DEF StepCases

\* A step that changes no variable preserves the invariant.
LEMMA StutterInv == IInv /\ UNCHANGED vars => IInv'
<1> SUFFICES ASSUME IInv, UNCHANGED vars PROVE IInv'
  OBVIOUS
<1> USE DEF vars
<1>1. TypeOK' /\ ConsumedOnce'
  BY DEF IInv, TypeOK, ConsumedOnce
<1>2. \A t : Honoured(t)' <=> Honoured(t)
  BY DEF Honoured, validateReservation, validateReceipt, validateChildLease,
         validatePublicationPermit
<1>3. HandlesExact'
  BY <1>2 DEF IInv, HandlesExact
<1>4. AuthorityHeld'
  BY DEF IInv, AuthorityHeld
<1>5. HandlesTraceable'
  BY DEF IInv, HandlesTraceable, Receipts, validateReceipt
<1> QED BY <1>1, <1>3, <1>4, <1>5 DEF IInv

\* The inductive invariant holds in every reachable state of the Bank.
THEOREM Invariance == ASSUME 0 \notin SessionIds PROVE Spec => []IInv
<1>1. Init => IInv
  BY InitInv
<1>2. IInv /\ [Next]_vars => IInv'
  BY NextInv, StutterInv
<1> QED BY <1>1, <1>2, PTL DEF Spec

\* No handle is accepted twice by a consuming call (cancel, commit, release,
\* resize, close, permit commit and abort), for any number of slots and calls.
THEOREM NoDoubleSettlement ==
    ASSUME 0 \notin SessionIds PROVE Spec => []ConsumedOnce
<1>1. IInv => ConsumedOnce
  BY DEF IInv
<1> QED BY <1>1, Invariance, PTL

\* The Bank honours exactly the issued and unconsumed handles: a stale copy
\* never validates against a reused slot, and no charge is left nameless.
THEOREM HandlesAreExact ==
    ASSUME 0 \notin SessionIds PROVE Spec => []HandlesExact
<1>1. IInv => HandlesExact
  BY DEF IInv
<1> QED BY <1>1, Invariance, PTL

\* Whatever the Bank still charges can be named by an issued handle.
THEOREM AuthorityIsHeld ==
    ASSUME 0 \notin SessionIds PROVE Spec => []AuthorityHeld
<1>1. IInv => AuthorityHeld
  BY DEF IInv
<1> QED BY <1>1, Invariance, PTL

\* Every reachable state is well typed.
THEOREM TypeCorrect == ASSUME 0 \notin SessionIds PROVE Spec => []TypeOK
<1>1. IInv => TypeOK
  BY DEF IInv
<1> QED BY <1>1, Invariance, PTL

\* What FrozenUnderPermit asks of one step.
FrozenStep ==
    \A i \in Slots :
        slots[i].publication = "active" =>
            /\ children'[i] = children[i]
            /\ slots'[i].state = "committed"
            /\ slots'[i].generation = slots[i].generation
            /\ slots'[i].sessionId = slots[i].sessionId
            /\ slots'[i].requestEpoch = slots[i].requestEpoch

\* No call moves the receipt, the child or the session under a live permit:
\* each call that could is guarded on an idle publication or touches another
\* slot.
LEMMA NextFrozen ==
    ASSUME 0 \notin SessionIds, IInv, Next
    PROVE  FrozenStep
<1> SUFFICES ASSUME NEW i \in Slots, slots[i].publication = "active"
             PROVE  /\ children'[i] = children[i]
                    /\ slots'[i].state = "committed"
                    /\ slots'[i].generation = slots[i].generation
                    /\ slots'[i].sessionId = slots[i].sessionId
                    /\ slots'[i].requestEpoch = slots[i].requestEpoch
  BY DEF FrozenStep
<1>1. TypeOK /\ StepCases
  BY NextCases DEF IInv
<1>2. slots[i].state = "committed" /\ slots[i].sessionId # 0
  BY DEF IInv, AuthorityHeld, HandlesTraceable
<1>k. /\ \A t \in Reservations : t.slot \in Slots
      /\ \A t \in Receipts : t.slot \in Slots
      /\ \A t \in ChildLeases : t.parent.slot \in Slots
      /\ \A t \in Permits : t.receipt.slot \in Slots
  BY <1>1, HandleKinds DEF Reservation, Receipt, ChildLease, PublicationPermit
<1>3. CASE \E c \in RequestClaims : reserve(c)
  BY <1>1, <1>2, <1>3 DEF reserve, FirstFree, TypeOK, childVars
<1>4. CASE \E t \in Reservations : commit(t)
  BY <1>1, <1>2, <1>k, <1>4 DEF commit, validateReservation, TypeOK, childVars
<1>5. CASE \E t \in Reservations : cancel(t)
  BY <1>1, <1>2, <1>k, <1>5 DEF cancel, ClearSlot, validateReservation, TypeOK,
                                childVars
<1>6. CASE \E t \in Receipts :
             /\ validateReceipt(t)
             /\ slots[t.slot].publication = "idle"
             /\ children[t.slot].state = "free"
             /\ ClearSlot(t)
  BY <1>1, <1>2, <1>k, <1>6 DEF ClearSlot, TypeOK, childVars
<1>7. CASE \E t \in Receipts, ceiling \in Claim, c \in Claim :
             openChild(t, ceiling, c)
  BY <1>1, <1>2, <1>k, <1>7 DEF openChild, Unbound, TypeOK
<1>8. CASE \E t \in ChildLeases, c \in Claim :
             /\ validateChildLease(t)
             /\ slots[t.parent.slot].publication = "idle"
             /\ resizeChildLocked(t, c)
  BY <1>1, <1>2, <1>k, <1>8 DEF resizeChildLocked, TypeOK
<1>9. CASE \E t \in ChildLeases : closeChild(t)
  BY <1>1, <1>2, <1>k, <1>9 DEF closeChild, TypeOK
<1>10. CASE \E t \in Receipts, e \in Nat, id \in SessionIds :
              bindPublicationSessionLocked(t, e, id)
  BY <1>1, <1>2, <1>k, <1>10 DEF bindPublicationSessionLocked, TypeOK, childVars
<1>11. CASE \E t \in Receipts, e \in Nat, id \in SessionIds, n \in Nat :
              beginPublicationLocked(t, e, id, n)
  BY <1>1, <1>2, <1>k, <1>11 DEF beginPublicationLocked, SessionAt, TypeOK,
                                 childVars
<1>12. CASE \E t \in Receipts, e \in Nat, id \in SessionIds, n \in Nat :
              closePublicationSession(t, e, id, n)
  BY <1>1, <1>2, <1>k, <1>12 DEF closePublicationSession, SessionAt, TypeOK,
                                 childVars
<1>13. CASE \E t \in Permits : commitPublicationAssumeValid(t)
  BY <1>1, <1>2, <1>k, <1>13 DEF commitPublicationAssumeValid, TypeOK, Slot,
                                 childVars
<1>14. CASE \E t \in Permits : abortPublication(t)
  BY <1>1, <1>2, <1>k, <1>14 DEF abortPublication, TypeOK, Slot, childVars
<1> QED
  BY <1>1, <1>3, <1>4, <1>5, <1>6, <1>7, <1>8, <1>9, <1>10, <1>11, <1>12,
     <1>13, <1>14 DEF StepCases

\* While a publication permit is live its receipt, allocator child and session
\* stay as they were validated, whatever other calls interleave.
THEOREM FrozenWhilePublishing ==
    ASSUME 0 \notin SessionIds PROVE Spec => FrozenUnderPermit
<1>1. IInv /\ [Next]_vars => [FrozenStep]_vars
  BY NextFrozen
<1>2. FrozenUnderPermit <=> [][FrozenStep]_vars
  BY DEF FrozenUnderPermit, FrozenStep
<1> QED BY <1>1, <1>2, Invariance, PTL DEF Spec

-----------------------------------------------------------------------------
(* Refinement: the Bank implements the abstract ledger.                    *)

\* A free record carries no charge.
FreeIsUncharged ==
    \A i \in Slots :
        /\ slots[i].state = "free" => slots[i].claim = ZeroClaim
        /\ children[i].state = "free" => children[i].claim = ZeroClaim

\* The ledger's operators on claims are those of the Bank.
LEMMA SameClaims ==
    /\ Ledger!Claim = Claim
    /\ Ledger!ZeroClaim = ZeroClaim
    /\ \A a, b : Ledger!addClaims(a, b) = addClaims(a, b)
    /\ \A a, b : Ledger!subtractClaims(a, b) = subtractClaims(a, b)
    /\ \A a, b : Ledger!claimWithin(a, b) <=> claimWithin(a, b)
BY DEF Ledger!Claim, Claim, Ledger!ZeroClaim, ZeroClaim, Ledger!addClaims,
       addClaims, Ledger!subtractClaims, subtractClaims, Ledger!claimWithin,
       claimWithin

\* Adding nothing and taking nothing away.
LEMMA ZeroArithmetic ==
    ASSUME NEW a \in Claim, NEW b \in Claim
    PROVE  /\ addClaims(a, b) = addClaims(subtractClaims(a, ZeroClaim), b)
           /\ subtractClaims(a, b) = addClaims(subtractClaims(a, b), ZeroClaim)
           /\ a = addClaims(subtractClaims(a, b), b)
           /\ claimWithin(ZeroClaim, a)
BY DEF addClaims, subtractClaims, ZeroClaim, Claim, claimWithin

\* Who is charged what, read off the records.
LEMMA ChargesAt ==
    ASSUME NEW i \in Slots
    PROVE  /\ <<"slot", i>> \in Holders /\ <<"child", i>> \in Holders
           /\ Charges[<<"slot", i>>] = slots[i].claim
           /\ Charges[<<"child", i>>] = children[i].claim
           /\ Charges'[<<"slot", i>>] = slots'[i].claim
           /\ Charges'[<<"child", i>>] = children'[i].claim
BY DEF Holders, Charges

\* A step that changes the charge of one holder h and moves the total by the
\* difference is a step of the ledger.
LEMMA LedgerStep ==
    ASSUME NEW h \in Holders,
           \A g \in Holders : g = h \/ Charges'[g] = Charges[g],
           Charges'[h] \in Claim,
           used' = addClaims(subtractClaims(used, Charges[h]), Charges'[h]),
           Fits(used') \/ claimWithin(Charges'[h], Charges[h])
    PROVE  Ledger!Next
<1>1. Charges = [g \in Holders |-> Charges[g]]
      /\ Charges' = [g \in Holders |-> Charges'[g]]
  BY DEF Charges
<1>2. Charges' = [Charges EXCEPT ![h] = Charges'[h]]
  BY <1>1
<1>3. Ledger!Adjust(h)
  BY <1>2, SameClaims DEF Ledger!Adjust
<1> QED BY <1>3 DEF Ledger!Next

\* A step that changes the claim of slot i alone changes one holder's charge.
LEMMA OneSlotCharged ==
    ASSUME NEW i \in Slots, \A j \in Slots : children'[j].claim = children[j].claim,
           \A j \in Slots \ {i} : slots'[j].claim = slots[j].claim
    PROVE  \A g \in Holders : g = <<"slot", i>> \/ Charges'[g] = Charges[g]
<1> SUFFICES ASSUME NEW k \in {"slot", "child"}, NEW j \in Slots
             PROVE  <<k, j>> = <<"slot", i>> \/ Charges'[<<k, j>>] = Charges[<<k, j>>]
  BY DEF Holders
<1> QED BY ChargesAt, ZenonT(60)

\* The same for child i.
LEMMA OneChildCharged ==
    ASSUME NEW i \in Slots, \A j \in Slots : slots'[j].claim = slots[j].claim,
           \A j \in Slots \ {i} : children'[j].claim = children[j].claim
    PROVE  \A g \in Holders : g = <<"child", i>> \/ Charges'[g] = Charges[g]
<1> SUFFICES ASSUME NEW k \in {"slot", "child"}, NEW j \in Slots
             PROVE  <<k, j>> = <<"child", i>> \/ Charges'[<<k, j>>] = Charges[<<k, j>>]
  BY DEF Holders
<1> QED BY ChargesAt, ZenonT(60)

\* Every call that changes a charge is one step of the ledger, and the others
\* (commit, and all session and permit calls) leave the ledger alone.  On the
\* way, a record that becomes free is cleared.
LEMMA NextLedger ==
    ASSUME 0 \notin SessionIds, IInv, FreeIsUncharged, Next
    PROVE  /\ FreeIsUncharged'
           /\ Ledger!Next \/ UNCHANGED <<Charges, used>>
<1>1. TypeOK /\ TypeOK' /\ StepCases
  BY NextCases, NextInv DEF IInv
<1>k. /\ \A t \in Reservations : t.slot \in Slots /\ t.claim \in Claim
      /\ \A t \in Receipts : t.slot \in Slots /\ t.claim \in Claim
      /\ \A t \in ChildLeases : t.parent.slot \in Slots /\ t.claim \in Claim
      /\ \A t \in Permits : t.receipt.slot \in Slots
  BY <1>1, HandleKinds DEF Reservation, Receipt, ChildLease, PublicationPermit
<1>u. used \in Claim /\ ZeroClaim \in Claim
  BY <1>1, ZeroClaimType DEF TypeOK
<1>s. ASSUME used' = used, \A j \in Slots : slots'[j].claim = slots[j].claim,
             \A j \in Slots : children'[j].claim = children[j].claim
      PROVE  UNCHANGED <<Charges, used>>
  <2>1. \A j \in Slots : /\ Charges'[<<"slot", j>>] = Charges[<<"slot", j>>]
                         /\ Charges'[<<"child", j>>] = Charges[<<"child", j>>]
    BY <1>s, ChargesAt
  <2>2. \A g \in Holders : Charges'[g] = Charges[g]
    <3> SUFFICES ASSUME NEW k \in {"slot", "child"}, NEW j \in Slots
                 PROVE  Charges'[<<k, j>>] = Charges[<<k, j>>]
      BY DEF Holders
    <3> QED BY <2>1
  <2>3. Charges' = Charges
    BY <2>2 DEF Charges
  <2> QED BY <1>s, <2>3
<1>c. ASSUME NEW t, NEW i \in Slots, i = t.slot, slots[i].claim = t.claim,
             ClearSlot(t)
      PROVE  FreeIsUncharged' /\ Ledger!Next
  <2>1. /\ slots' = [slots EXCEPT ![i] = FreeSlot] /\ children' = children
        /\ used' = subtractClaims(used, t.claim)
    BY <1>c DEF ClearSlot, childVars
  <2>2. slots'[i].claim = ZeroClaim /\ slots[i].claim \in Claim
        /\ \A j \in Slots \ {i} : slots'[j] = slots[j]
    BY <1>1, <2>1 DEF TypeOK, Slot, FreeSlot
  <2>3. FreeIsUncharged'
    BY <2>1, <2>2 DEF FreeIsUncharged
  <2>4. \A g \in Holders : g = <<"slot", i>> \/ Charges'[g] = Charges[g]
    BY <2>1, <2>2, OneSlotCharged
  <2>5. /\ Charges[<<"slot", i>>] = t.claim
        /\ Charges'[<<"slot", i>>] = ZeroClaim
        /\ <<"slot", i>> \in Holders
    BY <1>c, <2>2, ChargesAt
  <2>6. /\ used' = addClaims(subtractClaims(used, t.claim), ZeroClaim)
        /\ claimWithin(ZeroClaim, t.claim)
    BY <1>c, <1>u, <2>1, <2>2, ZeroArithmetic
  <2> QED BY <1>u, <2>3, <2>4, <2>5, <2>6, LedgerStep
<1>3. CASE \E c \in RequestClaims : reserve(c)
  <2>1. PICK c \in RequestClaims : reserve(c)
    BY <1>3
  <2>2. PICK i \in Slots :
          /\ slots[i].state = "free"
          /\ slots' = [slots EXCEPT ![i] =
                         [FreeSlot EXCEPT !.state = "reserved",
                                          !.generation = nextGeneration,
                                          !.claim = c]]
    BY <2>1 DEF reserve, FirstFree
  <2>3. /\ c \in Claim /\ Fits(addClaims(used, c))
        /\ used' = addClaims(used, c) /\ children' = children
    BY <2>1, InputTypes DEF reserve, childVars
  <2>4. /\ slots'[i].claim = c /\ slots'[i].state = "reserved"
        /\ slots[i].claim = ZeroClaim
        /\ \A j \in Slots \ {i} : slots'[j] = slots[j]
    BY <1>1, <2>2 DEF TypeOK, FreeSlot, FreeIsUncharged
  <2>5. FreeIsUncharged'
    BY <2>3, <2>4 DEF FreeIsUncharged
  <2>6. \A g \in Holders : g = <<"slot", i>> \/ Charges'[g] = Charges[g]
    BY <2>3, <2>4, OneSlotCharged
  <2>7. /\ Charges[<<"slot", i>>] = ZeroClaim
        /\ Charges'[<<"slot", i>>] = c
        /\ <<"slot", i>> \in Holders
    BY <2>4, ChargesAt
  <2>8. used' = addClaims(subtractClaims(used, ZeroClaim), c) /\ Fits(used')
    BY <1>u, <2>3, ZeroArithmetic
  <2>9. Ledger!Next
    BY <2>3, <2>6, <2>7, <2>8, LedgerStep
  <2> QED BY <2>5, <2>9
<1>4. CASE \E t \in Reservations : commit(t)
  <2>1. /\ \A j \in Slots : slots'[j].claim = slots[j].claim
        /\ \A j \in Slots : slots'[j].state = "free" => slots[j].state = "free"
        /\ children' = children /\ used' = used
    BY <1>1, <1>k, <1>4 DEF commit, TypeOK, Slot, childVars
  <2> QED BY <1>s, <2>1 DEF FreeIsUncharged
<1>5. CASE \E t \in Reservations : cancel(t)
  <2>1. PICK t \in Reservations : cancel(t)
    BY <1>5
  <2> QED BY <1>k, <1>c, <2>1 DEF cancel, validateReservation
<1>6. CASE \E t \in Receipts :
             /\ validateReceipt(t)
             /\ slots[t.slot].publication = "idle"
             /\ children[t.slot].state = "free"
             /\ ClearSlot(t)
  <2>1. PICK t \in Receipts : validateReceipt(t) /\ ClearSlot(t)
    BY <1>6
  <2> QED BY <1>k, <1>c, <2>1 DEF validateReceipt
<1>7. CASE \E t \in Receipts, ceiling \in Claim, c \in Claim :
             openChild(t, ceiling, c)
  <2>1. PICK t \in Receipts, ceiling \in Claim, c \in Claim :
          openChild(t, ceiling, c)
    BY <1>7
  <2>i. PICK i \in Slots : i = t.slot
    BY <1>k
  <2>2. /\ children[i].state = "free" /\ slots' = slots
        /\ children' = [children EXCEPT ![i] =
                          [state |-> "active",
                           generation |-> nextChildGeneration,
                           ceiling |-> ceiling, claim |-> c]]
        /\ Fits(addClaims(used, c)) /\ used' = addClaims(used, c)
    BY <2>1, <2>i DEF openChild
  <2>3. /\ children'[i].claim = c /\ children'[i].state = "active"
        /\ children[i].claim = ZeroClaim
        /\ \A j \in Slots \ {i} : children'[j] = children[j]
    BY <1>1, <2>2 DEF TypeOK, FreeIsUncharged
  <2>4. FreeIsUncharged'
    BY <2>2, <2>3 DEF FreeIsUncharged
  <2>5. \A g \in Holders : g = <<"child", i>> \/ Charges'[g] = Charges[g]
    BY <2>2, <2>3, OneChildCharged
  <2>6. /\ Charges[<<"child", i>>] = ZeroClaim
        /\ Charges'[<<"child", i>>] = c
        /\ <<"child", i>> \in Holders
    BY <2>3, ChargesAt
  <2>7. used' = addClaims(subtractClaims(used, ZeroClaim), c) /\ Fits(used')
    BY <1>u, <2>2, ZeroArithmetic
  <2>8. Ledger!Next
    BY <2>5, <2>6, <2>7, LedgerStep
  <2> QED BY <2>4, <2>8
<1>8. CASE \E t \in ChildLeases, c \in Claim :
             /\ validateChildLease(t)
             /\ slots[t.parent.slot].publication = "idle"
             /\ resizeChildLocked(t, c)
  <2>1. PICK t \in ChildLeases, c \in Claim :
          validateChildLease(t) /\ resizeChildLocked(t, c)
    BY <1>8
  <2>i. PICK i \in Slots : i = t.parent.slot
    BY <1>k
  <2>2. /\ children[i].state = "active" /\ children[i].claim = t.claim
        /\ slots' = slots
        /\ children' = [children EXCEPT ![i].generation = nextChildGeneration,
                                        ![i].claim = c]
        /\ used' = addClaims(subtractClaims(used, t.claim), c) /\ Fits(used')
    BY <2>1, <2>i DEF resizeChildLocked, usedAfterResize,
                        validateChildLease
  <2>3. /\ children'[i].claim = c /\ children'[i].state = "active"
        /\ \A j \in Slots \ {i} : children'[j] = children[j]
    BY <1>1, <2>2 DEF TypeOK, ChildSlot
  <2>4. FreeIsUncharged'
    BY <2>2, <2>3 DEF FreeIsUncharged
  <2>5. \A g \in Holders : g = <<"child", i>> \/ Charges'[g] = Charges[g]
    BY <2>2, <2>3, OneChildCharged
  <2>6. /\ Charges[<<"child", i>>] = t.claim
        /\ Charges'[<<"child", i>>] = c
        /\ <<"child", i>> \in Holders
    BY <2>2, <2>3, ChargesAt
  <2>7. Ledger!Next
    BY <2>2, <2>5, <2>6, LedgerStep
  <2> QED BY <2>4, <2>7
<1>9. CASE \E t \in ChildLeases : closeChild(t)
  <2>1. PICK t \in ChildLeases : closeChild(t)
    BY <1>9
  <2>i. PICK i \in Slots : i = t.parent.slot
    BY <1>k
  <2>2. /\ children[i].claim = t.claim /\ slots' = slots
        /\ children' = [children EXCEPT ![i] = FreeChild]
        /\ used' = subtractClaims(used, t.claim)
    BY <2>1, <2>i DEF closeChild, validateChildLease
  <2>3. /\ children'[i].claim = ZeroClaim
        /\ \A j \in Slots \ {i} : children'[j] = children[j]
    BY <1>1, <2>2 DEF TypeOK, FreeChild
  <2>4. FreeIsUncharged'
    BY <2>2, <2>3 DEF FreeIsUncharged
  <2>5. \A g \in Holders : g = <<"child", i>> \/ Charges'[g] = Charges[g]
    BY <2>2, <2>3, OneChildCharged
  <2>6. /\ Charges[<<"child", i>>] = t.claim
        /\ Charges'[<<"child", i>>] = ZeroClaim
        /\ <<"child", i>> \in Holders
    BY <2>2, <2>3, ChargesAt
  <2>7. /\ used' = addClaims(subtractClaims(used, t.claim), ZeroClaim)
        /\ claimWithin(ZeroClaim, t.claim)
    BY <1>k, <1>u, <2>2, ZeroArithmetic
  <2>8. Ledger!Next
    BY <1>u, <2>5, <2>6, <2>7, LedgerStep
  <2> QED BY <2>4, <2>8
<1>10. ASSUME NEW i \in Slots, SessionOnly(i), used' = used
       PROVE  FreeIsUncharged' /\ UNCHANGED <<Charges, used>>
  BY <1>s, <1>10 DEF FreeIsUncharged, SessionOnly
<1>11. CASE \/ \E t \in Receipts, e \in Nat, id \in SessionIds :
                 bindPublicationSessionLocked(t, e, id)
            \/ \E t \in Receipts, e \in Nat, id \in SessionIds, n \in Nat :
                 \/ beginPublicationLocked(t, e, id, n)
                 \/ closePublicationSession(t, e, id, n)
  <2>1. PICK t \in Receipts, e \in Nat, id \in SessionIds, n \in Nat :
          \/ bindPublicationSessionLocked(t, e, id)
          \/ beginPublicationLocked(t, e, id, n)
          \/ closePublicationSession(t, e, id, n)
    BY <1>11, 0 \in Nat
  <2>i. PICK i \in Slots : i = t.slot
    BY <1>k
  <2>2. CASE bindPublicationSessionLocked(t, e, id)
    <3>1. SessionOnly(i) /\ used' = used
      BY <1>1, <2>i, <2>2 DEF SessionOnly, TypeOK, Slot, validateReceipt,
           bindPublicationSessionLocked, childVars
    <3> QED BY <1>10, <3>1
  <2>3. CASE beginPublicationLocked(t, e, id, n)
    <3>1. SessionOnly(i) /\ used' = used
      BY <1>1, <2>i, <2>3 DEF SessionOnly, TypeOK, Slot, validateReceipt,
           beginPublicationLocked, childVars
    <3> QED BY <1>10, <3>1
  <2>4. CASE closePublicationSession(t, e, id, n)
    <3>1. SessionOnly(i) /\ used' = used
      BY <1>1, <2>i, <2>4 DEF SessionOnly, TypeOK, Slot, validateReceipt,
           closePublicationSession, childVars
    <3> QED BY <1>10, <3>1
  <2> QED BY <2>1, <2>2, <2>3, <2>4
<1>12. CASE \E t \in Permits :
              commitPublicationAssumeValid(t) \/ abortPublication(t)
  <2>1. PICK t \in Permits :
          commitPublicationAssumeValid(t) \/ abortPublication(t)
    BY <1>12
  <2>i. PICK i \in Slots : i = t.receipt.slot
    BY <1>k
  <2>2. SessionOnly(i) /\ used' = used
    BY <1>1, <2>1, <2>i DEF SessionOnly, TypeOK, Slot, validateReceipt,
         validatePublicationPermit, commitPublicationAssumeValid,
         abortPublication, childVars
  <2> QED BY <1>10, <2>2
<1> QED
  BY <1>1, <1>3, <1>4, <1>5, <1>6, <1>7, <1>8, <1>9, <1>11, <1>12
     DEF StepCases

\* The Bank implements the abstract ledger: each call changes the charge of at
\* most one holder, moves the total by exactly the difference, and lets it
\* grow only within the per-class and the aggregate limits.
THEOREM Refinement ==
    ASSUME 0 \notin SessionIds PROVE Spec => ImplementsLedger
<1>1. Init => FreeIsUncharged /\ Ledger!Init
  <2> SUFFICES ASSUME Init PROVE FreeIsUncharged /\ Ledger!Init
    OBVIOUS
  <2>1. \A i \in Slots : slots[i] = FreeSlot /\ children[i] = FreeChild
    BY DEF Init
  <2>2. FreeIsUncharged
    BY <2>1 DEF FreeIsUncharged, FreeSlot, FreeChild
  <2>3. \A h \in Holders : h[2] \in Slots
    BY DEF Holders
  <2>4. Charges = [h \in Holders |-> ZeroClaim]
    BY <2>1, <2>3 DEF Charges, FreeSlot, FreeChild
  <2> QED BY <2>2, <2>4, SameClaims DEF Ledger!Init, Init
<1>2. IInv /\ FreeIsUncharged /\ [Next]_vars =>
        /\ FreeIsUncharged'
        /\ [Ledger!Next]_(Ledger!ledgerVars)
  <2>1. ASSUME IInv, FreeIsUncharged, Next
        PROVE  FreeIsUncharged' /\ [Ledger!Next]_(Ledger!ledgerVars)
    BY <2>1, NextLedger DEF Ledger!ledgerVars
  <2>2. ASSUME FreeIsUncharged, UNCHANGED vars
        PROVE  FreeIsUncharged' /\ UNCHANGED Ledger!ledgerVars
    BY <2>2 DEF vars, FreeIsUncharged, Ledger!ledgerVars, Charges
  <2> QED BY <2>1, <2>2
<1> QED
  BY <1>1, <1>2, Invariance, PTL DEF Spec, ImplementsLedger, Ledger!Spec

-----------------------------------------------------------------------------
(* Publication.  That a (receipt, sequence) is published once is not       *)
(* inductive alone: a commit must know that its sequence number is above   *)
(* all that were published under the receipt, a bind, which starts at      *)
(* sequence 0, that nothing was, and a new receipt that no permit names it *)
(* yet.                                                                    *)

\* What was published are permits, and a slot without a receipt starts over.
PublishedPermits == published \subseteq Permits
UnusedSlots ==
    \A i \in Slots : slots[i].state # "committed" => slots[i].nextSequence = 0

\* The two halves of PublishedOnce.
PublishedUnder(t) == {q \in published : q.receipt = t}
SequencesOf(t) == {p.sequence : p \in PublishedUnder(t)}
Gapless(t) == validateReceipt(t) =>
                  SequencesOf(t) = 0 .. slots[t.slot].nextSequence - 1
Unrepeated == \A p, q \in published :
                 p.receipt = q.receipt /\ p.sequence = q.sequence => p = q

PublicationInv == PublishedPermits /\ UnusedSlots /\ PublishedOnce

\* PublishedOnce says that nothing is repeated and nothing is missing.
LEMMA PublishedOnceParts ==
    PublishedOnce <=> Unrepeated /\ \A t \in Receipts : Gapless(t)
BY DEF PublishedOnce, Unrepeated, Gapless, SequencesOf, PublishedUnder

\* The same, one step later.
LEMMA PublishedOncePartsNext ==
    PublishedOnce' <=> Unrepeated' /\ \A t \in Receipts' : Gapless(t)'
BY DEF PublishedOnce, Unrepeated, Gapless, SequencesOf, PublishedUnder

-----------------------------------------------------------------------------
\* A call that publishes nothing keeps the invariant if every receipt that is
\* valid after it was valid before, with the same next sequence, or nothing
\* was published under it and it starts at sequence 0.
LEMMA NothingPublished ==
    ASSUME PublicationInv, published' = published, Permits \subseteq Permits',
           UnusedSlots',
           \A t \in Receipts' : validateReceipt(t)' =>
              \/ /\ t \in Receipts /\ validateReceipt(t)
                 /\ slots'[t.slot].nextSequence = slots[t.slot].nextSequence
              \/ /\ \A p \in Permits : p.receipt # t
                 /\ slots'[t.slot].nextSequence = 0
    PROVE  PublicationInv'
<1>1. PublishedPermits'
  BY DEF PublicationInv, PublishedPermits
<1>2. Unrepeated'
  BY PublishedOnceParts DEF PublicationInv, Unrepeated
<1>3. ASSUME NEW t \in Receipts' PROVE Gapless(t)'
  <2>1. CASE /\ t \in Receipts /\ validateReceipt(t)
             /\ slots'[t.slot].nextSequence = slots[t.slot].nextSequence
    <3>1. Gapless(t)
      BY <2>1, PublishedOnceParts DEF PublicationInv
    <3> QED BY <2>1, <3>1 DEF Gapless, SequencesOf, PublishedUnder
  <2>2. CASE /\ \A p \in Permits : p.receipt # t
             /\ slots'[t.slot].nextSequence = 0
    <3>1. SequencesOf(t)' = {}
      BY <2>2 DEF SequencesOf, PublishedUnder, PublicationInv, PublishedPermits
    <3>2. 0 .. slots'[t.slot].nextSequence - 1 = {}
      BY <2>2
    <3> QED BY <3>1, <3>2 DEF Gapless
  <2>3. CASE ~validateReceipt(t)'
    BY <2>3 DEF Gapless
  <2> QED BY <2>1, <2>2, <2>3
<1> QED
  BY <1>1, <1>2, <1>3, PublishedOncePartsNext DEF PublicationInv

\* No issued permit names a receipt that is not issued yet.
LEMMA PermitsOfIssued ==
    ASSUME IInv, NEW p \in Permits
    PROVE  p.receipt \in Receipts
BY DEF IInv, HandlesTraceable, Permits

\* A receipt without a tombstone was never published under.
LEMMA UnboundUnpublished ==
    ASSUME IInv, NEW t \in Receipts, validateReceipt(t),
           slots[t.slot].requestEpoch = 0
    PROVE  \A p \in Permits : p.receipt # t
BY DEF IInv, HandlesTraceable, Permits

\* A step that only changes one slot, keeping its records of the receipt and
\* the sequence, is one that publishes nothing.
LEMMA SequenceKept ==
    ASSUME IInv, PublicationInv, TypeOK', published' = published,
           issued \subseteq issued', Receipts' = Receipts,
           NEW i \in Slots, \A j \in Slots \ {i} : slots'[j] = slots[j],
           \/ slots'[i].state = "free" /\ slots'[i].nextSequence = 0
           \/ slots'[i].state = "reserved" /\ slots'[i].nextSequence = 0
           \/ /\ slots[i].state = "committed" /\ slots'[i].state = "committed"
              /\ slots'[i].generation = slots[i].generation
              /\ slots'[i].claim = slots[i].claim
              /\ slots'[i].nextSequence = slots[i].nextSequence
    PROVE  PublicationInv'
<1>1. \A t \in Receipts : t.slot \in Slots
  BY HandleKinds DEF IInv, Receipt
<1>2. Permits \subseteq Permits'
  BY DEF Permits
<1>3. UnusedSlots'
  BY DEF PublicationInv, UnusedSlots
<1>4. ASSUME NEW t \in Receipts', validateReceipt(t)'
      PROVE  /\ t \in Receipts /\ validateReceipt(t)
             /\ slots'[t.slot].nextSequence = slots[t.slot].nextSequence
  BY <1>1, <1>4 DEF validateReceipt
<1> QED BY <1>2, <1>3, <1>4, NothingPublished

\* Calls that return no receipt.
LEMMA SameReceipts ==
    ASSUME NEW old, NEW new, Exchange(old, new),
           \A t \in new : t.kind # "receipt"
    PROVE  issued \subseteq issued' /\ Receipts' = Receipts
BY DEF Exchange, Receipts

-----------------------------------------------------------------------------
\* commit: the receipt is new, so no permit names it, and its slot starts at
\* sequence 0.
LEMMA CommitPublication ==
    ASSUME IInv, IInv', PublicationInv, NEW t \in Reservations, commit(t)
    PROVE  PublicationInv'
<1>1. TypeOK /\ TypeOK'
  BY DEF IInv
<1>i. PICK i \in Slots : i = t.slot
  BY <1>1, HandleKinds DEF Reservation
<1>n. PICK new : new = ReceiptAt(i, t.generation, t.claim)
  OBVIOUS
<1>2. /\ slots[i].state = "reserved" /\ slots[i].generation = t.generation
      /\ slots' = [slots EXCEPT ![i].state = "committed"]
      /\ issued' = issued \union {new}
      /\ published' = published
      /\ t \in issued /\ t \in Reservation
  BY <1>1, <1>i, <1>n, HandleKinds
     DEF commit, validateReservation, Exchange, Reservations
<1>3. /\ slots'[i].state = "committed"
      /\ slots'[i].nextSequence = slots[i].nextSequence
      /\ slots'[i].generation = slots[i].generation
      /\ \A j \in Slots \ {i} : slots'[j] = slots[j]
  BY <1>1, <1>2 DEF TypeOK, Slot
<1>4. slots[i].nextSequence = 0
  BY <1>2 DEF PublicationInv, UnusedSlots
<1>5. /\ new.kind = "receipt" /\ new.slot = i
      /\ new.generation = t.generation
  BY <1>n DEF ReceiptAt
<1>6. \A r \in Receipts : r.slot = i => r.generation # t.generation
  BY <1>2 DEF IInv, HandlesTraceable, Receipts
<1>7. new \notin Receipts /\ Permits \subseteq Permits'
      /\ Receipts' = Receipts \union {new}
  BY <1>2, <1>5, <1>6 DEF Permits, Receipts
<1>8. UnusedSlots'
  BY <1>3 DEF PublicationInv, UnusedSlots
<1>9. \A r \in Receipts : r.slot \in Slots
  BY <1>1, HandleKinds DEF Receipt
<1>10. ASSUME NEW r \in Receipts', validateReceipt(r)'
       PROVE  \/ /\ r \in Receipts /\ validateReceipt(r)
                 /\ slots'[r.slot].nextSequence = slots[r.slot].nextSequence
              \/ /\ \A p \in Permits : p.receipt # r
                 /\ slots'[r.slot].nextSequence = 0
  <2>1. CASE r = new
    BY <1>3, <1>4, <1>5, <1>7, <2>1, PermitsOfIssued
  <2>2. CASE r \in Receipts /\ r.slot # i
    BY <1>3, <1>9, <1>10, <2>2 DEF validateReceipt
  <2>3. CASE r \in Receipts /\ r.slot = i
    BY <1>2, <1>3, <1>6, <1>10, <2>3 DEF validateReceipt
  <2> QED BY <1>7, <2>1, <2>2, <2>3
<1> QED BY <1>2, <1>7, <1>8, <1>10, NothingPublished

\* bind: nothing was published under a receipt that was never bound.
LEMMA BindPublication ==
    ASSUME IInv, IInv', PublicationInv, NEW t \in Receipts, NEW e \in Nat,
           NEW id \in Nat, bindPublicationSessionLocked(t, e, id)
    PROVE  PublicationInv'
<1>1. TypeOK /\ TypeOK'
  BY DEF IInv
<1>9. \A r \in Receipts : r \in Receipt /\ r.slot \in Slots
  BY <1>1, HandleKinds DEF Receipt
<1>i. PICK i \in Slots : i = t.slot
  BY <1>9
<1>2. /\ slots' = [slots EXCEPT ![i].requestEpoch = e,
                                ![i].sessionId = id,
                                ![i].nextSequence = 0,
                                ![i].publication = "idle"]
      /\ validateReceipt(t) /\ slots[i].requestEpoch = 0
      /\ issued' = issued /\ published' = published
  BY <1>i DEF bindPublicationSessionLocked, handleVars
<1>3. /\ slots'[i].state = slots[i].state
      /\ slots'[i].nextSequence = 0
      /\ slots'[i].generation = slots[i].generation
      /\ slots'[i].claim = slots[i].claim
      /\ \A j \in Slots \ {i} : slots'[j] = slots[j]
  BY <1>1, <1>2 DEF TypeOK, Slot
<1>4. UnusedSlots' /\ Permits' = Permits /\ Receipts' = Receipts
  BY <1>2, <1>3 DEF PublicationInv, UnusedSlots, Permits, Receipts
<1>5. ASSUME NEW r \in Receipts', validateReceipt(r)'
      PROVE  \/ /\ r \in Receipts /\ validateReceipt(r)
                /\ slots'[r.slot].nextSequence = slots[r.slot].nextSequence
             \/ /\ \A p \in Permits : p.receipt # r
                /\ slots'[r.slot].nextSequence = 0
  <2>1. CASE r.slot = i
    <3>1. validateReceipt(r)
      BY <1>3, <1>5, <2>1 DEF validateReceipt
    <3>2. \A p \in Permits : p.receipt # r
      BY <1>2, <1>4, <2>1, <3>1, UnboundUnpublished
    <3> QED BY <1>3, <2>1, <3>2
  <2>2. CASE r.slot # i
    BY <1>3, <1>4, <1>5, <1>9, <2>2 DEF validateReceipt
  <2> QED BY <2>1, <2>2
<1> QED BY <1>2, <1>4, <1>5, NothingPublished

\* Committing a permit publishes the next sequence number of its receipt.
LEMMA CommitPermitPublication ==
    ASSUME IInv, IInv', PublicationInv, NEW t \in Permits,
           commitPublicationAssumeValid(t)
    PROVE  PublicationInv'
<1>1. TypeOK /\ TypeOK'
  BY DEF IInv
<1>2. t \in PublicationPermit /\ t.receipt \in Receipts
      /\ t.receipt \in Receipt /\ t.sequence \in Nat
  BY <1>1, HandleKinds, PermitsOfIssued DEF PublicationPermit
<1>i. PICK i \in Slots : i = t.receipt.slot
  BY <1>2 DEF Receipt
<1>3. /\ validateReceipt(t.receipt) /\ slots[i].nextSequence = t.sequence
      /\ slots' = [slots EXCEPT ![i].publication = "idle",
                                ![i].nextSequence = t.sequence + 1]
      /\ published' = published \union {t}
      /\ issued' = issued
  BY <1>i DEF commitPublicationAssumeValid, validatePublicationPermit, Exchange
<1>4. /\ slots'[i].state = slots[i].state
      /\ slots'[i].nextSequence = t.sequence + 1
      /\ slots'[i].generation = slots[i].generation
      /\ slots'[i].claim = slots[i].claim
      /\ slots[i].state = "committed"
      /\ \A j \in Slots \ {i} : slots'[j] = slots[j]
  BY <1>1, <1>3, <1>i DEF TypeOK, Slot, validateReceipt
<1>5. PublishedPermits' /\ Receipts' = Receipts
  BY <1>3 DEF PublicationInv, PublishedPermits, Permits, Receipts
<1>6. UnusedSlots'
  BY <1>4 DEF PublicationInv, UnusedSlots
<1>7. SequencesOf(t.receipt) = 0 .. t.sequence - 1
  BY <1>2, <1>3, <1>i, PublishedOnceParts DEF PublicationInv, Gapless
<1>8. \A q \in published : q.receipt = t.receipt => q.sequence # t.sequence
  BY <1>2, <1>7 DEF SequencesOf, PublishedUnder
<1>9. Unrepeated'
  BY <1>3, <1>8, PublishedOnceParts DEF PublicationInv, Unrepeated
<1>10. \A r \in Receipts : r \in Receipt /\ r.slot \in Slots
  BY <1>1, HandleKinds DEF Receipt
<1>11. ASSUME NEW r \in Receipts', validateReceipt(r)' PROVE Gapless(r)'
  <2>1. validateReceipt(r)
    BY <1>4, <1>5, <1>10, <1>11 DEF validateReceipt
  <2>2. SequencesOf(r) = 0 .. slots[r.slot].nextSequence - 1
    BY <1>5, <2>1, PublishedOnceParts DEF PublicationInv, Gapless
  <2>3. CASE r.slot = i
    <3>1. r = t.receipt
      BY <1>2, <1>3, <1>5, <1>10, <1>i, <2>1, <2>3, HandleExt
         DEF validateReceipt
    <3>2. SequencesOf(r)' = SequencesOf(r) \union {t.sequence}
      BY <1>3, <3>1 DEF SequencesOf, PublishedUnder
    <3>3. SequencesOf(r)' = 0 .. t.sequence
      BY <1>2, <1>7, <3>1, <3>2
    <3> QED BY <1>2, <1>4, <2>3, <3>3 DEF Gapless
  <2>4. CASE r.slot # i
    <3>1. r # t.receipt /\ r.slot \in Slots
      BY <1>5, <1>10, <1>i, <2>4
    <3>2. PublishedUnder(r)' = PublishedUnder(r)
      BY <1>3, <3>1 DEF PublishedUnder
    <3>3. SequencesOf(r)' = SequencesOf(r)
      BY <3>2 DEF SequencesOf
    <3> QED BY <1>4, <2>2, <2>4, <3>1, <3>3 DEF Gapless
  <2> QED BY <2>3, <2>4
<1>12. \A r \in Receipts' : Gapless(r)'
  BY <1>11 DEF Gapless
<1> QED
  BY <1>5, <1>6, <1>9, <1>12, PublishedOncePartsNext DEF PublicationInv

-----------------------------------------------------------------------------
\* Every other call publishes nothing.
LEMMA NextPublication ==
    ASSUME 0 \notin SessionIds, IInv, PublicationInv, Next
    PROVE  PublicationInv'
<1>0. IInv'
  BY NextInv
<1>1. TypeOK /\ TypeOK' /\ StepCases
  BY <1>0, NextCases DEF IInv
<1>s. SessionIds \subseteq Nat
  BY InputTypes
<1>k. /\ \A t \in Reservations : t.slot \in Slots
      /\ \A t \in Receipts : t.slot \in Slots
      /\ \A t \in ChildLeases : t.parent.slot \in Slots
      /\ \A t \in Permits : t.receipt.slot \in Slots
  BY <1>1, HandleKinds DEF Reservation, Receipt, ChildLease, PublicationPermit
<1>c. ASSUME NEW t, t.slot \in Slots, ClearSlot(t) PROVE PublicationInv'
  <2>1. issued \subseteq issued' /\ Receipts' = Receipts
    BY <1>c, SameReceipts DEF ClearSlot
  <2>2. PICK i \in Slots : i = t.slot
    BY <1>c
  <2>3. /\ slots'[i].state = "free" /\ slots'[i].nextSequence = 0
        /\ \A j \in Slots \ {i} : slots'[j] = slots[j]
        /\ published' = published
    BY <1>1, <1>c, <2>2 DEF ClearSlot, FreeSlot, TypeOK
  <2> QED BY <1>1, <2>1, <2>3, SequenceKept
<1>l. ASSUME slots' = slots, published' = published, NEW old, NEW new,
             Exchange(old, new), \A t \in new : t.kind = "child"
      PROVE  PublicationInv'
  <2>1. issued \subseteq issued' /\ Receipts' = Receipts
    BY <1>l, SameReceipts
  <2>2. Permits \subseteq Permits' /\ UnusedSlots'
    BY <1>l, <2>1 DEF Permits, PublicationInv, UnusedSlots
  <2> QED BY <1>l, <2>1, <2>2, NothingPublished DEF validateReceipt
<1>3. CASE \E c \in RequestClaims : reserve(c)
  <2>1. PICK c \in RequestClaims, i \in Slots :
          /\ slots' = [slots EXCEPT ![i] =
                         [FreeSlot EXCEPT !.state = "reserved",
                                          !.generation = nextGeneration,
                                          !.claim = c]]
          /\ Exchange({}, {ReservationAt(i, nextGeneration, c)})
          /\ published' = published
    BY <1>3 DEF reserve
  <2>2. issued \subseteq issued' /\ Receipts' = Receipts
    BY <2>1, SameReceipts DEF ReservationAt
  <2>3. /\ slots'[i].state = "reserved" /\ slots'[i].nextSequence = 0
        /\ \A j \in Slots \ {i} : slots'[j] = slots[j]
    BY <1>1, <2>1 DEF TypeOK, FreeSlot
  <2> QED BY <1>1, <2>1, <2>2, <2>3, SequenceKept
<1>4. CASE \E t \in Reservations : commit(t)
  BY <1>0, <1>4, CommitPublication
<1>5. CASE \E t \in Reservations : cancel(t)
  BY <1>c, <1>k, <1>5 DEF cancel
<1>6. CASE \E t \in Receipts :
             /\ validateReceipt(t)
             /\ slots[t.slot].publication = "idle"
             /\ children[t.slot].state = "free"
             /\ ClearSlot(t)
  BY <1>c, <1>k, <1>6
<1>7. CASE \E t \in Receipts, ceiling \in Claim, c \in Claim :
             openChild(t, ceiling, c)
  <2>1. PICK t \in Receipts, ceiling \in Claim, c \in Claim :
          openChild(t, ceiling, c)
    BY <1>7
  <2> QED BY <1>l, <2>1 DEF openChild, ChildLeaseAt
<1>8. CASE \E t \in ChildLeases, c \in Claim :
             /\ validateChildLease(t)
             /\ slots[t.parent.slot].publication = "idle"
             /\ resizeChildLocked(t, c)
  <2>1. PICK t \in ChildLeases, c \in Claim : resizeChildLocked(t, c)
    BY <1>8
  <2> QED BY <1>l, <2>1 DEF resizeChildLocked, ChildLeaseAt
<1>9. CASE \E t \in ChildLeases : closeChild(t)
  <2>1. PICK t \in ChildLeases : closeChild(t)
    BY <1>9
  <2> QED BY <1>l, <2>1 DEF closeChild
<1>10. CASE \E t \in Receipts, e \in Nat, id \in SessionIds :
              bindPublicationSessionLocked(t, e, id)
  BY <1>0, <1>s, <1>10, BindPublication
<1>11. CASE \E t \in Receipts, e \in Nat, id \in SessionIds, n \in Nat :
              \/ beginPublicationLocked(t, e, id, n)
              \/ closePublicationSession(t, e, id, n)
  <2>1. PICK t \in Receipts, e \in Nat, id \in SessionIds, n \in Nat :
              \/ beginPublicationLocked(t, e, id, n)
              \/ closePublicationSession(t, e, id, n)
    BY <1>11
  <2>i. PICK i \in Slots : i = t.slot
    BY <1>k
  <2>2. /\ slots[i].state = "committed" /\ slots'[i].state = "committed"
        /\ slots'[i].generation = slots[i].generation
        /\ slots'[i].claim = slots[i].claim
        /\ slots'[i].nextSequence = slots[i].nextSequence
        /\ \A j \in Slots \ {i} : slots'[j] = slots[j]
        /\ published' = published
    BY <1>1, <2>1, <2>i DEF TypeOK, Slot, validateReceipt,
         beginPublicationLocked, closePublicationSession
  <2>3. issued \subseteq issued' /\ Receipts' = Receipts
    BY <2>1, SameReceipts DEF beginPublicationLocked, PermitAt,
         closePublicationSession, handleVars, Receipts
  <2> QED BY <1>1, <2>2, <2>3, SequenceKept
<1>13. CASE \E t \in Permits : commitPublicationAssumeValid(t)
  BY <1>0, <1>13, CommitPermitPublication
<1>14. CASE \E t \in Permits : abortPublication(t)
  <2>1. PICK t \in Permits : abortPublication(t)
    BY <1>14
  <2>i. PICK i \in Slots : i = t.receipt.slot
    BY <1>k
  <2>2. /\ slots[i].state = "committed" /\ slots'[i].state = "committed"
        /\ slots'[i].generation = slots[i].generation
        /\ slots'[i].claim = slots[i].claim
        /\ slots'[i].nextSequence = slots[i].nextSequence
        /\ \A j \in Slots \ {i} : slots'[j] = slots[j]
        /\ published' = published
    BY <1>1, <2>1, <2>i DEF TypeOK, Slot, validateReceipt,
         abortPublication, validatePublicationPermit
  <2>3. issued \subseteq issued' /\ Receipts' = Receipts
    BY <2>1, SameReceipts DEF abortPublication
  <2> QED BY <1>1, <2>2, <2>3, SequenceKept
<1> QED
  BY <1>1, <1>3, <1>4, <1>5, <1>6, <1>7, <1>8, <1>9, <1>10, <1>11, <1>13,
     <1>14 DEF StepCases

\* Each sequence number of a receipt is published at most once, and without a
\* gap, whatever permits were aborted, copied or presented again
\* (commitPublicationAssumeValid, abortPublication, bindPublicationSession).
THEOREM ExactlyOncePublication ==
    ASSUME 0 \notin SessionIds PROVE Spec => []PublishedOnce
<1>1. Init => PublicationInv
  BY DEF Init, PublicationInv, PublishedPermits, UnusedSlots, PublishedOnce,
         FreeSlot, Receipts
<1>2. IInv /\ PublicationInv /\ [Next]_vars => PublicationInv'
  <2>1. ASSUME PublicationInv, UNCHANGED vars PROVE PublicationInv'
    BY <2>1 DEF vars, PublicationInv, PublishedPermits, UnusedSlots,
         PublishedOnce, Permits, Receipts, validateReceipt
  <2> QED BY <2>1, NextPublication
<1>3. PublicationInv => PublishedOnce
  BY DEF PublicationInv
<1> QED BY <1>1, <1>2, <1>3, Invariance, PTL DEF Spec

-----------------------------------------------------------------------------
(* Consequences of the Bank's own invariant, and its limits.               *)

\* Every handle hangs on an issued receipt, below the generation counters.
THEOREM HandlesAreTraceable ==
    ASSUME 0 \notin SessionIds PROVE Spec => []HandlesTraceable
<1>1. IInv => HandlesTraceable
  BY DEF IInv
<1> QED BY <1>1, Invariance, PTL

\* A closed session's receipt carries no live permit, if callers draw their
\* session ids from the nonzero ones that bind accepts: a session id of zero
\* is the only way to break ClosedIsTerminal.
THEOREM ClosingIsTerminal ==
    ASSUME 0 \notin SessionIds PROVE Spec => []ClosedIsTerminal
<1>1. IInv => ClosedIsTerminal
  BY DEF IInv, TypeOK, Slot, HandlesTraceable, ClosedIsTerminal
<1> QED BY <1>1, Invariance, PTL

-----------------------------------------------------------------------------
(* Accounting.                                                             *)

\* What the records are charged in one class, and that used is the sum.
InClass(k) == [h \in Holders |-> Charges[h][k]]
Balanced == \A k \in Classes : used[k] = Sum(InClass(k), Holders)

\* There are finitely many records, and each is charged a claim.
LEMMA ChargesType ==
    ASSUME TypeOK
    PROVE  /\ IsFiniteSet(Holders)
           /\ \A h \in Holders : Charges[h] \in Claim
<1>1. IsFiniteSet(Slots)
  BY BankAssumption, FS_Interval DEF Slots
<1>2. IsFiniteSet({"slot", "child"})
  <2>1. IsFiniteSet({} \union {"slot"})
    BY FS_EmptySet, FS_AddElement
  <2>2. IsFiniteSet(({} \union {"slot"}) \union {"child"})
    BY <2>1, FS_AddElement
  <2>3. ({} \union {"slot"}) \union {"child"} = {"slot", "child"}
    OBVIOUS
  <2> QED BY <2>2, <2>3
<1>3. ASSUME NEW h \in Holders PROVE Charges[h] \in Claim
  <2>1. h[2] \in Slots
    BY DEF Holders
  <2>2. slots[h[2]].claim \in Claim /\ children[h[2]].claim \in Claim
    BY <2>1 DEF TypeOK, Slot, ChildSlot
  <2> QED BY <2>2 DEF Charges
<1> QED BY <1>1, <1>2, <1>3, FS_Product DEF Holders

\* The same, one step later.
LEMMA ChargesTypeNext ==
    ASSUME TypeOK'
    PROVE  \A h \in Holders : Charges'[h] \in Claim
<1> SUFFICES ASSUME NEW h \in Holders PROVE Charges'[h] \in Claim
  OBVIOUS
<1>1. h[2] \in Slots
  BY DEF Holders
<1>2. slots'[h[2]].claim \in Claim /\ children'[h[2]].claim \in Claim
  BY <1>1 DEF TypeOK, Slot, ChildSlot
<1> QED BY <1>2 DEF Charges

\* Less is charged to the host if less is charged in every class, and no
\* claim that is within one that fits is beyond the limits.
LEMMA FitsWithin ==
    ASSUME NEW a \in Claim, NEW b \in Claim, claimWithin(a, b), Fits(b)
    PROVE  Fits(a)
<1>1. \A k \in Classes : /\ a[k] \in Nat /\ b[k] \in Nat /\ Limit[k] \in Nat
                         /\ a[k] <= b[k] /\ b[k] <= Limit[k]
  BY ClassesAssumption DEF Claim, claimWithin, Fits
<1>2. ASSUME NEW k \in Classes PROVE a[k] <= Limit[k]
  <2>1. /\ a[k] \in Nat /\ b[k] \in Nat /\ Limit[k] \in Nat
        /\ a[k] <= b[k] /\ b[k] <= Limit[k]
    BY <1>1
  <2> QED
    BY ONLY <2>1
<1>3. \A k \in HostClasses : a[k] \in Nat /\ b[k] \in Nat /\ a[k] <= b[k]
  BY <1>1, ClassesAssumption
<1>4. IsFiniteSet(HostClasses)
  BY ClassesAssumption
<1>5. /\ hostBytes(a) = Sum(a, HostClasses)
      /\ hostBytes(b) = Sum(b, HostClasses)
  BY DEF hostBytes, Sum
<1>6. hostBytes(a) <= hostBytes(b) /\ hostBytes(a) \in Nat
      /\ hostBytes(b) \in Nat
  BY <1>3, <1>4, <1>5, SumMonotone, SumType
<1>7. hostBytes(b) <= HostLimit /\ HostLimit \in Nat
  BY ClassesAssumption DEF Fits
<1> QED BY <1>2, <1>6, <1>7 DEF Fits, claimWithin

\* A step of the ledger keeps the books balanced and within the limits.
LEMMA LedgerConserves ==
    ASSUME TypeOK, TypeOK', Balanced, Fits(used), Ledger!Next
    PROVE  Balanced' /\ Fits(used')
<1>1. PICK h \in Holders :
        /\ Charges' = [Charges EXCEPT ![h] = Charges'[h]]
        /\ used' = addClaims(subtractClaims(used, Charges[h]), Charges'[h])
        /\ Fits(used') \/ claimWithin(Charges'[h], Charges[h])
  BY SameClaims DEF Ledger!Next, Ledger!Adjust
<1>2. /\ IsFiniteSet(Holders) /\ \A g \in Holders : Charges[g] \in Claim
      /\ \A g \in Holders : Charges'[g] \in Claim
  BY ChargesType, ChargesTypeNext
<1>3. \A g \in Holders \ {h} : Charges'[g] = Charges[g]
  BY <1>1 DEF Charges
<1>4. ASSUME NEW k \in Classes
      PROVE  used'[k] = used[k] - Charges[h][k] + Charges'[h][k]
  BY <1>1 DEF addClaims, subtractClaims
<1>5. ASSUME NEW k \in Classes PROVE used'[k] = Sum(InClass(k)', Holders)
  <2>1. \A g \in Holders : /\ InClass(k)[g] = Charges[g][k]
                           /\ InClass(k)'[g] = Charges'[g][k]
                           /\ Charges[g][k] \in Nat /\ Charges'[g][k] \in Nat
    BY <1>2 DEF InClass, Claim
  <2>2. \A g \in Holders : /\ InClass(k)[g] \in Nat
                           /\ InClass(k)'[g] \in Nat
    BY <2>1
  <2>3. \A g \in Holders \ {h} : InClass(k)'[g] = InClass(k)[g]
    BY <1>3, <2>1
  <2>4. Sum(InClass(k)', Holders)
          = Sum(InClass(k), Holders) - InClass(k)[h] + InClass(k)'[h]
    BY <1>2, <2>2, <2>3, SumChange
  <2> QED BY <1>4, <2>1, <2>4 DEF Balanced
<1>6. CASE claimWithin(Charges'[h], Charges[h])
  <2>1. ASSUME NEW k \in Classes PROVE used'[k] <= used[k]
    <3>1. /\ used[k] \in Nat /\ Charges[h][k] \in Nat
          /\ Charges'[h][k] \in Nat /\ Charges'[h][k] <= Charges[h][k]
      BY <1>2, <1>6 DEF TypeOK, Claim, claimWithin
    <3> QED BY <1>4, <3>1
  <2>2. claimWithin(used', used) /\ used \in Claim /\ used' \in Claim
    BY <2>1 DEF claimWithin, TypeOK
  <2> QED BY <1>5, <2>2, FitsWithin DEF Balanced
<1> QED BY <1>1, <1>5, <1>6 DEF Balanced

\* An empty Bank is balanced, and no charge is within every limit.
LEMMA InitBalanced == Init => Balanced /\ Fits(used)
<1> SUFFICES ASSUME Init PROVE Balanced /\ Fits(used)
  OBVIOUS
<1>1. TypeOK /\ IsFiniteSet(Holders)
  BY InitInv, ChargesType DEF IInv
<1>2. \A h \in Holders, k \in Classes : Charges[h][k] = 0
  <2>1. \A i \in Slots : slots[i].claim = ZeroClaim
                         /\ children[i].claim = ZeroClaim
    BY DEF Init, FreeSlot, FreeChild
  <2>2. \A h \in Holders : Charges[h] = ZeroClaim
    BY <2>1 DEF Charges, Holders
  <2> QED BY <2>2 DEF ZeroClaim
<1>3. ASSUME NEW k \in Classes PROVE used[k] = Sum(InClass(k), Holders)
  <2>1. \A h \in Holders : InClass(k)[h] = 0
    BY <1>2 DEF InClass
  <2> QED BY <1>1, <2>1, SumOfZeros DEF Init, ZeroClaim
<1>4. \A k \in HostClasses : used[k] = 0
  BY ClassesAssumption DEF Init, ZeroClaim
<1>5. hostBytes(used) = 0
  BY <1>4, ClassesAssumption, SumOfZeros DEF hostBytes, Sum
<1>6. ASSUME NEW k \in Classes PROVE used[k] <= Limit[k]
  <2>1. used[k] = 0 /\ Limit[k] \in Nat
    BY ClassesAssumption DEF Init, ZeroClaim
  <2> QED BY <2>1
<1> QED BY <1>3, <1>5, <1>6, ClassesAssumption DEF Balanced, Fits, claimWithin

\* Bank.used is the sum of the claims of the occupied slots and the active
\* children after any sequence of calls, and no sequence takes it beyond the
\* aggregate limit or the limit of a class (fitsWithHost before every charge
\* that grows, checked subtraction before every other).
THEOREM Conservation ==
    ASSUME 0 \notin SessionIds PROVE Spec => []Conserved
<1>1. Init => FreeIsUncharged
  BY DEF Init, FreeIsUncharged, FreeSlot, FreeChild
<1>2. IInv /\ FreeIsUncharged /\ Balanced /\ Fits(used) /\ [Next]_vars =>
        FreeIsUncharged' /\ Balanced' /\ Fits(used)'
  <2>1. ASSUME IInv, FreeIsUncharged, Balanced, Fits(used), Next
        PROVE  FreeIsUncharged' /\ Balanced' /\ Fits(used)'
    <3>1. TypeOK /\ TypeOK'
      BY <2>1, NextInv DEF IInv
    <3>2. FreeIsUncharged' /\ (Ledger!Next \/ UNCHANGED <<Charges, used>>)
      BY <2>1, NextLedger
    <3>3. CASE Ledger!Next
      BY <2>1, <3>1, <3>2, <3>3, LedgerConserves
    <3>4. CASE UNCHANGED <<Charges, used>>
      BY <2>1, <3>2, <3>4 DEF Balanced, InClass
    <3> QED BY <3>2, <3>3, <3>4
  <2>2. ASSUME FreeIsUncharged, Balanced, Fits(used), UNCHANGED vars
        PROVE  FreeIsUncharged' /\ Balanced' /\ Fits(used)'
    BY <2>2 DEF vars, FreeIsUncharged, Balanced, InClass, Charges
  <2> QED BY <2>1, <2>2
<1>3. IInv /\ Balanced /\ Fits(used) => Conserved
  <2> SUFFICES ASSUME IInv, Balanced, Fits(used) PROVE Conserved
    OBVIOUS
  <2>1. used = [k \in Classes |-> used[k]]
    BY DEF IInv, TypeOK, Claim
  <2>2. used = [k \in Classes |-> Sum(InClass(k), Holders)]
    BY <2>1 DEF Balanced
  <2> QED BY <2>2 DEF Conserved, InClass, Sum
<1> QED BY <1>1, <1>2, <1>3, InitBalanced, Invariance, PTL DEF Spec
=============================================================================
