---------------------------- MODULE ResourceBank ----------------------------
(***************************************************************************)
(* The admission authority of the engine, core/resource_bank.zig: receipt  *)
(* slots, the optional allocator child of each slot, and the publication   *)
(* session that fences token publication to a committed receipt.           *)
(*                                                                         *)
(* Every public method takes the Bank mutex for its whole body, so each is *)
(* one atomic action.  What makes the Bank hard is that its callers hold   *)
(* handles BY VALUE (Reservation, Receipt, ChildLease, PublicationPermit): *)
(* a handle can be copied and presented again at any later time, by any    *)
(* thread, after the slot it names has been reused.  The variable issued   *)
(* therefore keeps every handle the Bank ever returned, and each action    *)
(* may be called with any of them.  A call that the code rejects changes   *)
(* nothing except saturating telemetry counters, which are left out, as    *)
(* are the peaks; it is the absence of a step here.                        *)
(*                                                                         *)
(* Owner and child keys are left out: they are caller-chosen data carried  *)
(* and compared with the rest of the handle, so dropping them only makes   *)
(* two handles easier to confuse.  The integrity hash covers every field   *)
(* of a handle plus a domain constant, modelled by the field kind.         *)
(***************************************************************************)
EXTENDS Claims, FiniteSets

CONSTANTS
    SlotCount,           \* slots.len
    RequestClaims,       \* the claims and ceilings that callers ask for
    RequestEpochs,       \* the request epochs that callers present
    SessionIds,          \* the session ids that callers present
    MaxGeneration,       \* maxInt(u64) for next_generation
    MaxChildGeneration,  \* maxInt(u64) for next_child_generation
    MaxPermitGeneration, \* maxInt(u64) for publication_permit_generation
    MaxSequence          \* maxInt(u64) for publication_next_sequence

ASSUME BankAssumption ==
    /\ SlotCount \in Nat \ {0}
    /\ RequestClaims \subseteq Claim
    /\ RequestEpochs \subseteq Nat
    /\ SessionIds \subseteq Nat
    /\ MaxGeneration \in Nat
    /\ MaxChildGeneration \in Nat
    /\ MaxPermitGeneration \in Nat
    /\ MaxSequence \in Nat

VARIABLES
    slots,               \* Bank.slots
    children,            \* Bank.child_slots
    used,                \* Bank.used
    nextGeneration,      \* Bank.next_generation
    nextChildGeneration, \* Bank.next_child_generation
    issued,              \* history: every handle ever returned to a caller
    spent,               \* history: the handles whose authority was consumed
    replayed,            \* history: the handles that were consumed twice
    published            \* history: the permits that were committed

childVars == <<children, nextChildGeneration>>
handleVars == <<issued, spent, replayed>>
vars == <<slots, children, used, nextGeneration, nextChildGeneration,
          issued, spent, replayed, published>>

Slots == 0 .. SlotCount - 1

FreeSlot == [state |-> "free", generation |-> 0, claim |-> ZeroClaim,
             requestEpoch |-> 0, sessionId |-> 0, nextSequence |-> 0,
             permitGeneration |-> 0, publication |-> "idle"]

FreeChild == [state |-> "free", generation |-> 0,
              ceiling |-> ZeroClaim, claim |-> ZeroClaim]

Slot == [state : {"free", "reserved", "committed"}, generation : Nat,
         claim : Claim, requestEpoch : Nat, sessionId : Nat,
         nextSequence : Nat, permitGeneration : Nat,
         publication : {"idle", "active"}]

ChildSlot == [state : {"free", "active"}, generation : Nat,
              ceiling : Claim, claim : Claim]

-----------------------------------------------------------------------------
(* Handles.  The domain constant hashed into the integrity of a            *)
(* Reservation differs from that of a Receipt; commit rewrites the slot's  *)
(* integrity, so a Reservation is valid only before it and a Receipt only  *)
(* after it.                                                               *)

ReservationAt(i, g, c) ==
    [kind |-> "reservation", slot |-> i, generation |-> g, claim |-> c]

ReceiptAt(i, g, c) ==
    [kind |-> "receipt", slot |-> i, generation |-> g, claim |-> c]

ChildLeaseAt(r, g, ceiling, c) ==
    [kind |-> "child", parent |-> r, generation |-> g,
     ceiling |-> ceiling, claim |-> c]

PermitAt(r, e, s, n, g) ==
    [kind |-> "permit", receipt |-> r, requestEpoch |-> e, sessionId |-> s,
     sequence |-> n, generation |-> g]

Reservation == [kind : {"reservation"}, slot : Slots, generation : Nat,
                claim : Claim]

Receipt == [kind : {"receipt"}, slot : Slots, generation : Nat,
            claim : Claim]

ChildLease == [kind : {"child"}, parent : Receipt, generation : Nat,
               ceiling : Claim, claim : Claim]

PublicationPermit == [kind : {"permit"}, receipt : Receipt,
                      requestEpoch : Nat, sessionId : Nat, sequence : Nat,
                      generation : Nat]

validateReservation(t) ==
    /\ t.kind = "reservation"
    /\ slots[t.slot].state = "reserved"
    /\ slots[t.slot].generation = t.generation
    /\ slots[t.slot].claim = t.claim

\* Mutant: the generation of the slot is not compared.
validateReceiptAnyGeneration(t) ==
    /\ t.kind = "receipt"
    /\ slots[t.slot].state = "committed"
    /\ slots[t.slot].claim = t.claim

validateReceipt(t) ==
    /\ t.kind = "receipt"
    /\ slots[t.slot].state = "committed"
    /\ slots[t.slot].generation = t.generation
    /\ slots[t.slot].claim = t.claim

\* Mutant: the generation of the child is not compared.
validateChildLeaseAnyGeneration(t) ==
    /\ t.kind = "child"
    /\ validateReceipt(t.parent)
    /\ children[t.parent.slot].state = "active"
    /\ children[t.parent.slot].ceiling = t.ceiling
    /\ children[t.parent.slot].claim = t.claim

validateChildLease(t) ==
    /\ t.kind = "child"
    /\ validateReceipt(t.parent)
    /\ children[t.parent.slot].state = "active"
    /\ children[t.parent.slot].generation = t.generation
    /\ children[t.parent.slot].ceiling = t.ceiling
    /\ children[t.parent.slot].claim = t.claim

validatePublicationPermit(t) ==
    /\ t.kind = "permit"
    /\ validateReceipt(t.receipt)
    /\ slots[t.receipt.slot].requestEpoch = t.requestEpoch
    /\ slots[t.receipt.slot].sessionId = t.sessionId
    /\ slots[t.receipt.slot].publication = "active"
    /\ slots[t.receipt.slot].nextSequence = t.sequence
    /\ slots[t.receipt.slot].permitGeneration = t.generation

\* The Bank would act on handle t if it were presented now.
Honoured(t) == \/ validateReservation(t)
               \/ validateReceipt(t)
               \/ validateChildLease(t)
               \/ validatePublicationPermit(t)

\* A successful call consumes the handles in old and returns those in new.
Exchange(old, new) ==
    /\ issued' = issued \union new
    /\ spent' = spent \union old
    /\ replayed' = replayed \union (old \intersect spent)

-----------------------------------------------------------------------------
(* Receipt slots.                                                          *)

Init ==
    /\ slots = [i \in Slots |-> FreeSlot]
    /\ children = [i \in Slots |-> FreeChild]
    /\ used = ZeroClaim
    /\ nextGeneration = 1
    /\ nextChildGeneration = 1
    /\ issued = {} /\ spent = {} /\ replayed = {} /\ published = {}

FirstFree(i) == /\ slots[i].state = "free"
                /\ \A j \in Slots : j < i => slots[j].state # "free"

reserve(c) ==
    /\ c # ZeroClaim
    /\ Fits(addClaims(used, c))
    /\ nextGeneration < MaxGeneration
    /\ \E i \in Slots :
        /\ FirstFree(i)
        /\ slots' = [slots EXCEPT ![i] =
                        [FreeSlot EXCEPT !.state = "reserved",
                                         !.generation = nextGeneration,
                                         !.claim = c]]
        /\ Exchange({}, {ReservationAt(i, nextGeneration, c)})
    /\ used' = addClaims(used, c)
    /\ nextGeneration' = nextGeneration + 1
    /\ UNCHANGED <<childVars, published>>

commit(t) ==
    /\ validateReservation(t)
    /\ slots' = [slots EXCEPT ![t.slot].state = "committed"]
    /\ Exchange({t}, {ReceiptAt(t.slot, t.generation, t.claim)})
    /\ UNCHANGED <<childVars, used, nextGeneration, published>>

\* Mutant: the claim stays charged.
ClearSlotStillCharged(t) ==
    /\ claimWithin(t.claim, used)
    /\ slots' = [slots EXCEPT ![t.slot] = FreeSlot]
    /\ Exchange({t}, {})
    /\ UNCHANGED <<used, childVars, nextGeneration, published>>

\* The slot is cleared and its claim uncharged.  subtractClaims fails rather
\* than wrap, which is a guard.
ClearSlot(t) ==
    /\ claimWithin(t.claim, used)
    /\ used' = subtractClaims(used, t.claim)
    /\ slots' = [slots EXCEPT ![t.slot] = FreeSlot]
    /\ Exchange({t}, {})
    /\ UNCHANGED <<childVars, nextGeneration, published>>

cancel(t) == validateReservation(t) /\ ClearSlot(t)

\* Mutant: a receipt is released under its allocator child.
releaseOverChild(t) ==
    /\ validateReceipt(t)
    /\ slots[t.slot].sessionId = 0
    /\ slots[t.slot].publication = "idle"
    /\ ClearSlot(t)

release(t) ==
    /\ validateReceipt(t)
    /\ slots[t.slot].sessionId = 0
    /\ slots[t.slot].publication = "idle"
    /\ children[t.slot].state = "free"
    /\ ClearSlot(t)

-----------------------------------------------------------------------------
(* The allocator child of a receipt: one mutable charge that is acquired   *)
(* before and dropped after the caller's own allocation.                   *)

\* The receipt has never entered a publication namespace.
Unbound(s) == /\ s.requestEpoch = 0
              /\ s.sessionId = 0
              /\ s.publication = "idle"

\* Mutant: a live permit is not noticed.
SessionAtAnyPermit(s, e, id, n) == /\ s.requestEpoch = e
                                   /\ s.sessionId = id
                                   /\ s.nextSequence = n

\* The caller presented the exact idle session and the Bank's next sequence.
SessionAt(s, e, id, n) == /\ s.publication = "idle"
                          /\ s.requestEpoch = e
                          /\ s.sessionId = id
                          /\ s.nextSequence = n

openChild(t, ceiling, c) ==
    /\ ceiling # ZeroClaim
    /\ claimWithin(c, ceiling)
    /\ validateReceipt(t)
    /\ children[t.slot].state = "free"
    /\ Unbound(slots[t.slot])
    /\ Fits(addClaims(used, c))
    /\ nextChildGeneration < MaxChildGeneration
    /\ children' = [children EXCEPT ![t.slot] =
                      [state |-> "active", generation |-> nextChildGeneration,
                       ceiling |-> ceiling, claim |-> c]]
    /\ used' = addClaims(used, c)
    /\ nextChildGeneration' = nextChildGeneration + 1
    /\ Exchange({}, {ChildLeaseAt(t, nextChildGeneration, ceiling, c)})
    /\ UNCHANGED <<slots, nextGeneration, published>>

\* Mutant: the new charge comes on top of the old one.
usedAfterResizeOnTop(t, c) == addClaims(used, c)

\* Mutant: the difference is applied with the wrong sign.
usedAfterResizeSwapped(t, c) == addClaims(subtractClaims(used, c), t.claim)

\* The old charge is returned before the new one is taken.
usedAfterResize(t, c) == addClaims(subtractClaims(used, t.claim), c)

\* A resize to the charge already held returns the same lease unchanged, so
\* only a different charge is a step.  It replaces the handle.
resizeChildLocked(t, c) ==
    /\ claimWithin(c, t.ceiling)
    /\ c # t.claim
    /\ claimWithin(t.claim, used)
    /\ Fits(usedAfterResize(t, c))
    /\ nextChildGeneration < MaxChildGeneration
    /\ children' = [children EXCEPT
                      ![t.parent.slot].generation = nextChildGeneration,
                      ![t.parent.slot].claim = c]
    /\ used' = usedAfterResize(t, c)
    /\ nextChildGeneration' = nextChildGeneration + 1
    /\ Exchange({t},
                {ChildLeaseAt(t.parent, nextChildGeneration, t.ceiling, c)})
    /\ UNCHANGED <<slots, nextGeneration, published>>

growChild(t, c) ==
    /\ validateChildLease(t)
    /\ Unbound(slots[t.parent.slot])
    /\ claimWithin(t.claim, c)
    /\ resizeChildLocked(t, c)

growChildForSession(t, e, id, n, c) ==
    /\ validateChildLease(t)
    /\ SessionAt(slots[t.parent.slot], e, id, n)
    /\ claimWithin(t.claim, c)
    /\ resizeChildLocked(t, c)

shrinkChildForSessionAfterFree(t, e, id, n, c) ==
    /\ validateChildLease(t)
    /\ SessionAt(slots[t.parent.slot], e, id, n)
    /\ claimWithin(c, t.claim)
    /\ resizeChildLocked(t, c)

shrinkChildAfterFree(t, c) ==
    /\ validateChildLease(t)
    /\ slots[t.parent.slot].publication = "idle"
    /\ slots[t.parent.slot].sessionId = 0
    /\ claimWithin(c, t.claim)
    /\ resizeChildLocked(t, c)

closeChild(t) ==
    /\ validateChildLease(t)
    /\ slots[t.parent.slot].sessionId = 0
    /\ slots[t.parent.slot].publication = "idle"
    /\ claimWithin(t.claim, used)
    /\ used' = subtractClaims(used, t.claim)
    /\ children' = [children EXCEPT ![t.parent.slot] = FreeChild]
    /\ Exchange({t}, {})
    /\ UNCHANGED <<slots, nextGeneration, nextChildGeneration, published>>

-----------------------------------------------------------------------------
(* The publication session of a receipt.  Each receipt carries at most one *)
(* session in its life; the request epoch stays behind as a tombstone.     *)

bindPublicationSessionLocked(t, e, id) ==
    /\ e # 0 /\ id # 0
    /\ validateReceipt(t)
    /\ slots[t.slot].sessionId = 0
    /\ slots[t.slot].requestEpoch = 0
    /\ slots' = [slots EXCEPT ![t.slot].requestEpoch = e,
                              ![t.slot].sessionId = id,
                              ![t.slot].nextSequence = 0,
                              ![t.slot].publication = "idle"]
    /\ UNCHANGED <<childVars, used, nextGeneration, handleVars, published>>

bindPublicationSession(t, e, id) == bindPublicationSessionLocked(t, e, id)

bindPublicationSessionWithChild(t, e, id) ==
    /\ validateChildLease(t)
    /\ bindPublicationSessionLocked(t.parent, e, id)

beginPublicationLocked(t, e, id, n) ==
    LET permit == PermitAt(t, e, id, n, slots[t.slot].permitGeneration + 1) IN
    /\ validateReceipt(t)
    /\ SessionAt(slots[t.slot], e, id, n)
    /\ slots[t.slot].permitGeneration < MaxPermitGeneration
    /\ slots' = [slots EXCEPT ![t.slot].permitGeneration = @ + 1,
                              ![t.slot].publication = "active"]
    /\ Exchange({}, {permit})
    /\ UNCHANGED <<childVars, used, nextGeneration, published>>

beginPublication(t, e, id, n) == beginPublicationLocked(t, e, id, n)

beginPublicationWithChild(t, e, id, n) ==
    /\ validateChildLease(t)
    /\ beginPublicationLocked(t.parent, e, id, n)

\* An invalid permit, or the last sequence number, traps the process.
commitPublicationAssumeValid(t) ==
    /\ validatePublicationPermit(t)
    /\ t.sequence < MaxSequence
    /\ slots' = [slots EXCEPT ![t.receipt.slot].publication = "idle",
                              ![t.receipt.slot].nextSequence = t.sequence + 1]
    /\ published' = published \union {t}
    /\ Exchange({t}, {})
    /\ UNCHANGED <<childVars, used, nextGeneration>>

\* Mutant: an abort moves the sequence on.
abortPublicationAdvancing(t) ==
    /\ validatePublicationPermit(t)
    /\ slots' = [slots EXCEPT ![t.receipt.slot].publication = "idle",
                              ![t.receipt.slot].nextSequence = @ + 1]
    /\ Exchange({t}, {})
    /\ UNCHANGED <<childVars, used, nextGeneration, published>>

abortPublication(t) ==
    /\ validatePublicationPermit(t)
    /\ slots' = [slots EXCEPT ![t.receipt.slot].publication = "idle"]
    /\ Exchange({t}, {})
    /\ UNCHANGED <<childVars, used, nextGeneration, published>>

\* Mutant: closing forgets the request epoch, so the receipt can be rebound.
closePublicationSessionForgetting(t, e, id, n) ==
    /\ validateReceipt(t)
    /\ SessionAt(slots[t.slot], e, id, n)
    /\ slots' = [slots EXCEPT ![t.slot].sessionId = 0,
                              ![t.slot].requestEpoch = 0]
    /\ UNCHANGED <<childVars, used, nextGeneration, handleVars, published>>

closePublicationSession(t, e, id, n) ==
    /\ validateReceipt(t)
    /\ SessionAt(slots[t.slot], e, id, n)
    /\ slots' = [slots EXCEPT ![t.slot].sessionId = 0]
    /\ UNCHANGED <<childVars, used, nextGeneration, handleVars, published>>

closePublicationSessionAndRelease(t, e, id, n) ==
    /\ e # 0 /\ id # 0
    /\ validateReceipt(t)
    /\ SessionAt(slots[t.slot], e, id, n)
    /\ children[t.slot].state = "free"
    /\ ClearSlot(t)

-----------------------------------------------------------------------------
Receipts == {t \in issued : t.kind = "receipt"}
Reservations == {t \in issued : t.kind = "reservation"}
ChildLeases == {t \in issued : t.kind = "child"}
Permits == {t \in issued : t.kind = "permit"}

Sequences == 0 .. MaxSequence

SlotStep == \/ \E c \in RequestClaims : reserve(c)
            \/ \E t \in Reservations : commit(t) \/ cancel(t)
            \/ \E t \in Receipts : release(t)

ChildStep ==
    \/ \E t \in Receipts, ceiling \in RequestClaims,
          c \in RequestClaims \union {ZeroClaim} : openChild(t, ceiling, c)
    \/ \E t \in ChildLeases, c \in RequestClaims \union {ZeroClaim} :
        \/ growChild(t, c)
        \/ shrinkChildAfterFree(t, c)
        \/ \E e \in RequestEpochs, id \in SessionIds, n \in Sequences :
              \/ growChildForSession(t, e, id, n, c)
              \/ shrinkChildForSessionAfterFree(t, e, id, n, c)
    \/ \E t \in ChildLeases : closeChild(t)

PublicationStep ==
    \/ \E t \in Receipts, e \in RequestEpochs, id \in SessionIds :
        bindPublicationSession(t, e, id)
    \/ \E t \in ChildLeases, e \in RequestEpochs, id \in SessionIds :
        bindPublicationSessionWithChild(t, e, id)
    \/ \E t \in Receipts, e \in RequestEpochs, id \in SessionIds,
          n \in Sequences :
        \/ beginPublication(t, e, id, n)
        \/ closePublicationSession(t, e, id, n)
        \/ closePublicationSessionAndRelease(t, e, id, n)
    \/ \E t \in ChildLeases, e \in RequestEpochs, id \in SessionIds,
          n \in Sequences : beginPublicationWithChild(t, e, id, n)
    \/ \E t \in Permits :
        commitPublicationAssumeValid(t) \/ abortPublication(t)

Next == SlotStep \/ ChildStep \/ PublicationStep

Spec == Init /\ [][Next]_vars

-----------------------------------------------------------------------------
(* Properties.                                                             *)

\* Every variable holds a value of its declared shape, and every handle in
\* the history is one of the four kinds that the Bank returns.
TypeOK ==
    /\ slots \in [Slots -> Slot]
    /\ children \in [Slots -> ChildSlot]
    /\ used \in Claim
    /\ nextGeneration \in Nat
    /\ nextChildGeneration \in Nat
    /\ issued \subseteq Reservation \union Receipt \union ChildLease
                          \union PublicationPermit
    /\ spent \subseteq issued
    /\ published \subseteq spent

\* No handle is ever accepted a second time by a call that consumes it:
\* reserve/cancel/commit, release, resize/close of a child and commit/abort
\* of a permit each happen at most once per handle, however many copies are
\* presented and whatever the slot was reused for in between ("A copied or
\* stale token cannot subtract usage twice").
ConsumedOnce == replayed = {}

\* The handles that the Bank would act on are exactly the ones it issued and
\* has not consumed.  From left to right no stale copy is ever honoured;
\* from right to left no charge is stranded: what is still charged can
\* always be named by the handle its owner holds.
HandlesExact == \A t \in issued : t \notin spent <=> Honoured(t)

\* The converse for the Bank's own records: every occupied slot, active child
\* and live permit is named by a handle that some caller was given.
AuthorityHeld ==
    \A i \in Slots :
        LET s == slots[i]
            c == children[i]
            r == ReceiptAt(i, s.generation, s.claim)
        IN  /\ s.state = "reserved" =>
                  ReservationAt(i, s.generation, s.claim) \in issued
            /\ s.state = "committed" => r \in issued
            /\ c.state = "active" =>
                  /\ s.state = "committed"
                  /\ ChildLeaseAt(r, c.generation, c.ceiling, c.claim)
                        \in issued
            /\ s.publication = "active" =>
                  /\ s.state = "committed"
                  /\ PermitAt(r, s.requestEpoch, s.sessionId,
                              s.nextSequence, s.permitGeneration) \in issued

\* Handles are traceable.  A child lease or permit hangs on a receipt that was
\* issued; generations are below the counters that will be used next, so no
\* future handle can equal a past one; a receipt never exists while its slot
\* is still reserved; and a live permit belongs to a bound session.
HandlesTraceable ==
    /\ \A t \in issued :
        /\ t.kind = "child" => t.parent \in Receipts
        /\ t.kind = "permit" => t.receipt \in Receipts
        /\ t.kind \in {"reservation", "receipt"} =>
              t.generation < nextGeneration
        /\ t.kind = "child" => t.generation < nextChildGeneration
        /\ t.kind = "permit" /\ validateReceipt(t.receipt) =>
              /\ t.generation <= slots[t.receipt.slot].permitGeneration
              /\ slots[t.receipt.slot].requestEpoch # 0
        /\ t.kind = "receipt" /\ slots[t.slot].generation = t.generation =>
              slots[t.slot].state # "reserved"
    /\ \A i \in Slots :
        /\ slots[i].publication = "active" => slots[i].sessionId # 0
        /\ slots[i].sessionId # 0 => slots[i].requestEpoch # 0

\* Who is charged what: a receipt slot and its child are separate holders.
Holders == {"slot", "child"} \X Slots

Charges == [h \in Holders |-> IF h[1] = "slot" THEN slots[h[2]].claim
                                              ELSE children[h[2]].claim]

\* The Bank implements the abstract ledger: each call changes the charge of
\* at most one holder, moves Bank.used by exactly that difference, and never
\* grows it beyond the limits.
Ledger == INSTANCE ChargeLedger WITH charge <- Charges, total <- used

ImplementsLedger == Ledger!Spec

\* Bank.used is at every moment the sum of the claims of the occupied slots
\* and the active children, as the snapshots re-derive it, and it is within
\* the aggregate and the per-class limits.
Conserved ==
    /\ used = [k \in Classes |->
                 SumFunctionOnSet([h \in Holders |-> Charges[h][k]], Holders)]
    /\ Fits(used)

\* Each (receipt, sequence) is published at most once, whatever permits were
\* aborted and retried, and the sequences published under a live receipt
\* have no gap: they are those below the Bank's next sequence.
PublishedOnce ==
    /\ \A p, q \in published :
          p.receipt = q.receipt /\ p.sequence = q.sequence => p = q
    /\ \A t \in Receipts :
          validateReceipt(t) =>
            {p.sequence : p \in {q \in published : q.receipt = t}}
                = 0 .. slots[t.slot].nextSequence - 1

\* While a permit is live, nothing about its receipt moves: neither the
\* receipt nor its allocator child can be released, resized or rebound, so
\* what the proposal was validated against is what is published.
FrozenUnderPermit ==
    [][\A i \in Slots :
         slots[i].publication = "active" =>
            /\ children'[i] = children[i]
            /\ slots'[i].state = "committed"
            /\ slots'[i].generation = slots[i].generation
            /\ slots'[i].sessionId = slots[i].sessionId
            /\ slots'[i].requestEpoch = slots[i].requestEpoch]_vars

\* "Closing is terminal for this receipt": once a session has been closed
\* its receipt never carries a live publication permit again.
ClosedIsTerminal ==
    \A i \in Slots :
        slots[i].requestEpoch # 0 /\ slots[i].sessionId = 0 =>
            slots[i].publication = "idle"
=============================================================================
