--------------------------- MODULE LeaseTreeHandles ---------------------------
(***************************************************************************)
(* Theorems about what a Bank with trees owes to those who hold its        *)
(* handles, for every number of slots, nodes and pins and all bounds of    *)
(* the counters.                                                           *)
(*                                                                         *)
(* Handles are plain values: what is shown first is that no copy is ever   *)
(* honoured again, and that nothing which is still held can only be named  *)
(* by a handle that nobody was given.  The records of the Bank name        *)
(* handles: a slot its receipt, a root its tree handle and the decision    *)
(* that is pending on it, a node and a pin their own.  At every moment     *)
(* these are exactly the handles that were issued and not yet consumed.    *)
(*                                                                         *)
(* The second part shows that the Bank can finish what it accepted.  A pin *)
(* sets aside a lease generation and a structural revision for its         *)
(* release, a decision the revisions of its remaining steps, and no other  *)
(* call takes them; the session of a pin cannot be left while the pin is   *)
(* held.  That what a decision gives back is charged follows from          *)
(* conservation: Bank.used is the sum of what receipts and trees hold.     *)
(***************************************************************************)
EXTENDS LeaseTreeProofs

-----------------------------------------------------------------------------
(* The handles that the records name.                                      *)

Committed(S, r) == /\ S[r.slot].state = "committed"
                   /\ S[r.slot].generation = r.generation
                   /\ S[r.slot].claim = r.claim

ReservationStands(S, t) == /\ S[t.slot].state = "reserved"
                           /\ S[t.slot].generation = t.generation
                           /\ S[t.slot].claim = t.claim

\* The session of a handle is that of the slot.
InSession(s, t) == /\ s.requestEpoch = t.requestEpoch
                   /\ s.sessionId = t.sessionId
                   /\ s.nextSequence = t.sequence

PermitStands(S, t) ==
    /\ Committed(S, t.receipt)
    /\ S[t.receipt.slot].publication = "active"
    /\ InSession(S[t.receipt.slot], t)
    /\ S[t.receipt.slot].permitGeneration = t.generation

TreeStands(S, R, t) == Committed(S, t.parent) /\ R[t.parent.slot] = t.root

DecisionStands(S, R, t) ==
    TreeStands(S, R, t) /\ InSession(S[t.parent.slot], t)

NodeStands(S, N, t) == /\ Committed(S, t.parent)
                       /\ N[t.index].state # "free"
                       /\ N[t.index].slot = t.parent.slot
                       /\ N[t.index].tree = t.tree
                       /\ N[t.index].generation = t.generation
                       /\ N[t.index].kind = t.nodeKind

PinStands(S, P, t) == Committed(S, t.parent) /\ P[t.index] = t.pin

\* A record names the handle t.
Stands(S, R, N, P, t) ==
    \/ t.kind = "reservation" /\ ReservationStands(S, t)
    \/ t.kind = "receipt" /\ Committed(S, t)
    \/ t.kind = "permit" /\ PermitStands(S, t)
    \/ t.kind = "tree" /\ TreeStands(S, R, t)
    \/ t.kind = "node" /\ NodeStands(S, N, t)
    \/ t.kind \in {"batch", "ticket", "free"} /\ DecisionStands(S, R, t)
    \/ t.kind = "pin" /\ PinStands(S, P, t)

StandsNow(t) == Stands(slots, roots, nodes, pins, t)

\* In each set of handles the kind decides which record is meant.
LEMMA StandsByKind ==
    ASSUME NEW S, NEW R, NEW N, NEW P
    PROVE  /\ \A t \in Reservation :
                 Stands(S, R, N, P, t) <=> ReservationStands(S, t)
           /\ \A t \in Receipt : Stands(S, R, N, P, t) <=> Committed(S, t)
           /\ \A t \in PublicationPermit :
                 Stands(S, R, N, P, t) <=> PermitStands(S, t)
           /\ \A t \in TreeToken :
                 Stands(S, R, N, P, t) <=> TreeStands(S, R, t)
           /\ \A t \in NodeToken :
                 Stands(S, R, N, P, t) <=> NodeStands(S, N, t)
           /\ \A t \in DecisionToken :
                 Stands(S, R, N, P, t) <=> DecisionStands(S, R, t)
           /\ \A t \in PinToken : Stands(S, R, N, P, t) <=> PinStands(S, P, t)
<1>1. ASSUME NEW t \in Reservation
      PROVE  Stands(S, R, N, P, t) <=> ReservationStands(S, t)
  <2>1. t.kind = "reservation"
    BY DEF Reservation
  <2> QED BY <2>1 DEF Stands
<1>2. ASSUME NEW t \in Receipt
      PROVE  Stands(S, R, N, P, t) <=> Committed(S, t)
  <2>1. t.kind = "receipt"
    BY DEF Receipt
  <2> QED BY <2>1 DEF Stands
<1>3. ASSUME NEW t \in PublicationPermit
      PROVE  Stands(S, R, N, P, t) <=> PermitStands(S, t)
  <2>1. t.kind = "permit"
    BY DEF PublicationPermit
  <2> QED BY <2>1 DEF Stands
<1>4. ASSUME NEW t \in TreeToken
      PROVE  Stands(S, R, N, P, t) <=> TreeStands(S, R, t)
  <2>1. t.kind = "tree"
    BY DEF TreeToken
  <2> QED BY <2>1 DEF Stands
<1>5. ASSUME NEW t \in NodeToken
      PROVE  Stands(S, R, N, P, t) <=> NodeStands(S, N, t)
  <2>1. t.kind = "node"
    BY DEF NodeToken
  <2> QED BY <2>1 DEF Stands
<1>6. ASSUME NEW t \in DecisionToken
      PROVE  Stands(S, R, N, P, t) <=> DecisionStands(S, R, t)
  <2>1. t.kind \in {"batch", "ticket", "free"}
    BY DEF DecisionToken
  <2> QED BY <2>1 DEF Stands
<1>7. ASSUME NEW t \in PinToken
      PROVE  Stands(S, R, N, P, t) <=> PinStands(S, P, t)
  <2>1. t.kind = "pin"
    BY DEF PinToken
  <2> QED BY <2>1 DEF Stands
<1> QED BY <1>1, <1>2, <1>3, <1>4, <1>5, <1>6, <1>7

-----------------------------------------------------------------------------
(* The invariant.                                                          *)

\* No record that is made from now on can name t: its generations and its
\* revision are behind the counters they are taken from.
Behind(t) ==
    /\ t \in Reservation \union Receipt => t.generation < nextGeneration
    /\ t \in Receipt =>
          ~ (/\ slots[t.slot].state = "reserved"
             /\ slots[t.slot].generation = t.generation)
    /\ t \in PublicationPermit =>
          /\ t.receipt \in issued
          /\ /\ slots[t.receipt.slot].state # "free"
             /\ slots[t.receipt.slot].generation = t.receipt.generation
             => t.generation <= slots[t.receipt.slot].permitGeneration
    /\ t \in TreeToken \union DecisionToken =>
          /\ t.root.identity < nextLeaseGeneration
          /\ /\ roots[t.parent.slot].state = "active"
             /\ roots[t.parent.slot].identity = t.root.identity
             => t.root.revision <= roots[t.parent.slot].revision
    /\ t \in NodeToken => t.generation < nextLeaseGeneration
    /\ t \in PinToken => t.pin.generation < nextLeaseGeneration

\* A permit is live only in a bound session with no decision on the tree.
SessionSound(i) ==
    slots[i].publication = "active" =>
        /\ slots[i].state = "committed" /\ slots[i].sessionId # 0
        /\ roots[i].pending.kind = "none"

HandlesSound ==
    /\ replayed = {} /\ spent \subseteq issued
    /\ \A t \in Token : t \in issued \ spent <=> StandsNow(t)
    /\ \A t \in issued : Behind(t)
    /\ \A i \in Slots : SessionSound(i)

\* The handles in K that the records name change as the history says.
Turns(old, new, K) ==
    \A t \in K : StandsNow(t)' <=> (StandsNow(t) /\ t \notin old) \/ t \in new

\* A step that consumes standing handles and returns new ones, which the
\* records name from now on, keeps the history exact.
LEMMA HandleStep ==
    ASSUME TreeInv, TreeInv', HandlesSound, NEW old, NEW new,
           Exchange(old, new), old \subseteq Token,
           \A t \in old : StandsNow(t), new \intersect issued = {},
           Turns(old, new, Token), \A t \in issued : Behind(t)',
           \A t \in new : Behind(t)', \A i \in Slots : SessionSound(i)'
    PROVE  HandlesSound'
<1>1. /\ issued' = issued \union new /\ spent' = spent \union old
      /\ replayed' = replayed \union (old \intersect spent)
  BY DEF Exchange
<1>2. old \subseteq issued /\ old \intersect spent = {}
  BY DEF HandlesSound
<1>3. replayed' = {} /\ spent' \subseteq issued'
  BY <1>1, <1>2 DEF HandlesSound
<1>4. ASSUME NEW t \in Token PROVE t \in issued' \ spent' <=> StandsNow(t)'
  <2>1. t \in issued \ spent <=> StandsNow(t)
    BY DEF HandlesSound
  <2>2. StandsNow(t)' <=> (StandsNow(t) /\ t \notin old) \/ t \in new
    BY DEF Turns
  <2>3. t \in new => t \notin spent /\ t \notin old
    BY <1>2 DEF HandlesSound
  <2> QED BY <1>1, <2>1, <2>2, <2>3
<1>5. \A t \in issued' : Behind(t)'
  BY <1>1
<1> QED BY <1>3, <1>4, <1>5 DEF HandlesSound

-----------------------------------------------------------------------------
(* Handles.                                                                *)

BankToken == Reservation \union Receipt \union PublicationPermit
OnTree == TreeToken \union NodeToken \union DecisionToken \union PinToken

\* The kind of a handle says which set it is in.
LEMMA KindsApart ==
    /\ \A t \in Reservation : t.kind = "reservation" /\ t.slot \in Slots
    /\ \A t \in Receipt : t.kind = "receipt" /\ t.slot \in Slots
    /\ \A t \in PublicationPermit : t.kind = "permit" /\ t.receipt \in Receipt
    /\ \A t \in TreeToken : t.kind = "tree" /\ t.parent \in Receipt
    /\ \A t \in NodeToken : t.kind = "node" /\ t.parent \in Receipt
    /\ \A t \in DecisionToken : t.kind \in {"batch", "ticket", "free"}
                                /\ t.parent \in Receipt
    /\ \A t \in PinToken : t.kind = "pin" /\ t.parent \in Receipt
<1>1. \A t \in Reservation : t.kind = "reservation" /\ t.slot \in Slots
  BY DEF Reservation
<1>2. \A t \in Receipt : t.kind = "receipt" /\ t.slot \in Slots
  BY DEF Receipt
<1>3. \A t \in PublicationPermit : t.kind = "permit" /\ t.receipt \in Receipt
  BY DEF PublicationPermit
<1>4. \A t \in TreeToken : t.kind = "tree" /\ t.parent \in Receipt
  BY DEF TreeToken
<1>5. \A t \in NodeToken : t.kind = "node" /\ t.parent \in Receipt
  BY DEF NodeToken
<1>6. \A t \in DecisionToken : t.kind \in {"batch", "ticket", "free"}
                               /\ t.parent \in Receipt
  BY DEF DecisionToken
<1>7. \A t \in PinToken : t.kind = "pin" /\ t.parent \in Receipt
  BY DEF PinToken
<1> QED BY <1>1, <1>2, <1>3, <1>4, <1>5, <1>6, <1>7

\* So handles of receipts and handles on trees are different handles.
LEMMA BankOrTree == BankToken \intersect OnTree = {}
BY KindsApart DEF BankToken, OnTree

\* Two handles on trees with the same fields are the same handle.
LEMMA TokenExt ==
    /\ \A t, u \in TreeToken : t.parent = u.parent /\ t.root = u.root => t = u
    /\ \A t, u \in NodeToken :
          ( /\ t.parent = u.parent /\ t.tree = u.tree /\ t.index = u.index
            /\ t.generation = u.generation /\ t.nodeKind = u.nodeKind )
             => t = u
    /\ \A t, u \in DecisionToken :
          ( /\ t.kind = u.kind /\ t.parent = u.parent /\ t.root = u.root
            /\ t.requestEpoch = u.requestEpoch /\ t.sessionId = u.sessionId
            /\ t.sequence = u.sequence )
             => t = u
    /\ \A t, u \in PinToken :
          t.parent = u.parent /\ t.index = u.index /\ t.pin = u.pin => t = u
<1>1. \A t, u \in TreeToken : t.parent = u.parent /\ t.root = u.root => t = u
  BY DEF TreeToken
<1>2. \A t, u \in NodeToken :
          ( /\ t.parent = u.parent /\ t.tree = u.tree /\ t.index = u.index
            /\ t.generation = u.generation /\ t.nodeKind = u.nodeKind )
             => t = u
  BY DEF NodeToken
<1>3. \A t, u \in DecisionToken :
          ( /\ t.kind = u.kind /\ t.parent = u.parent /\ t.root = u.root
            /\ t.requestEpoch = u.requestEpoch /\ t.sessionId = u.sessionId
            /\ t.sequence = u.sequence )
             => t = u
  BY DEF DecisionToken
<1>4. \A t, u \in PinToken :
          t.parent = u.parent /\ t.index = u.index /\ t.pin = u.pin => t = u
  BY DEF PinToken
<1> QED BY <1>1, <1>2, <1>3, <1>4

\* A committed slot has one receipt.
LEMMA OneReceipt ==
    ASSUME NEW S, NEW r \in Receipt, NEW u \in Receipt, r.slot = u.slot,
           Committed(S, r), Committed(S, u)
    PROVE  r = u
BY HandleExt DEF Committed

-----------------------------------------------------------------------------
(* The counters only move on.                                              *)

SlotOnward(i) ==
    \/ /\ slots'[i].generation = slots[i].generation
       /\ slots'[i].state = "reserved" => slots[i].state = "reserved"
       /\ slots[i].state = "free" => slots'[i].state = "free"
       /\ slots[i].permitGeneration <= slots'[i].permitGeneration
    \/ slots'[i].state = "free"
    \/ slots'[i].generation >= nextGeneration

RootOnward(i) ==
    \/ roots'[i].state = "free"
    \/ /\ roots[i].state = "active"
       /\ roots'[i].identity = roots[i].identity
       /\ roots[i].revision <= roots'[i].revision
    \/ roots'[i].identity >= nextLeaseGeneration

Onward == /\ nextGeneration <= nextGeneration'
          /\ nextLeaseGeneration <= nextLeaseGeneration'
          /\ \A i \in Slots : SlotOnward(i) /\ RootOnward(i)

\* So what is behind them stays behind them.
LEMMA BehindStays ==
    ASSUME TreeInv, TreeInv', HandlesSound, Onward, issued \subseteq issued',
           NEW t \in issued
    PROVE  Behind(t)'
<1>1. /\ t \in Token /\ Behind(t)
      /\ nextGeneration \in Nat /\ nextGeneration' \in Nat
      /\ nextLeaseGeneration \in Nat /\ nextLeaseGeneration' \in Nat
      /\ slots \in [Slots -> Slot] /\ slots' \in [Slots -> Slot]
      /\ roots \in [Slots -> Root] /\ roots' \in [Slots -> Root]
  BY TreeAssumption DEF TreeInv, TreeTypes, HandlesSound
<1>2. t \in Reservation \union Receipt => t.generation < nextGeneration'
  <2>1. t \in Reservation \union Receipt => t.generation \in Nat
    BY DEF Reservation, Receipt
  <2> QED BY <1>1, <2>1 DEF Behind, Onward
<1>3. ASSUME t \in Receipt
      PROVE  ~ (/\ slots'[t.slot].state = "reserved"
                /\ slots'[t.slot].generation = t.generation)
  <2>1. t.slot \in Slots /\ t.generation \in Nat
    BY <1>3 DEF Receipt
  <2>2. /\ t.generation < nextGeneration
        /\ ~ (/\ slots[t.slot].state = "reserved"
              /\ slots[t.slot].generation = t.generation)
    BY <1>1, <1>3 DEF Behind
  <2>3. SlotOnward(t.slot)
    BY <2>1 DEF Onward
  <2> QED BY <1>1, <2>1, <2>2, <2>3 DEF SlotOnward
<1>4. ASSUME t \in PublicationPermit
      PROVE  /\ t.receipt \in issued'
             /\ /\ slots'[t.receipt.slot].state # "free"
                /\ slots'[t.receipt.slot].generation = t.receipt.generation
                => t.generation <= slots'[t.receipt.slot].permitGeneration
  <2>1. /\ t.receipt \in Receipt /\ t.receipt.slot \in Slots
        /\ t.receipt.generation \in Nat /\ t.generation \in Nat
    BY <1>4 DEF PublicationPermit, Receipt
  <2>2. t.receipt \in issued /\ Behind(t.receipt)
    BY <1>1, <1>4 DEF Behind, HandlesSound
  <2>3. t.receipt.generation < nextGeneration
    BY <2>1, <2>2 DEF Behind
  <2>4. /\ slots[t.receipt.slot].state # "free"
        /\ slots[t.receipt.slot].generation = t.receipt.generation
        => t.generation <= slots[t.receipt.slot].permitGeneration
    BY <1>1, <1>4 DEF Behind
  <2>5. SlotOnward(t.receipt.slot)
    BY <2>1 DEF Onward
  <2>6. /\ slots[t.receipt.slot] \in Slot /\ slots'[t.receipt.slot] \in Slot
    BY <1>1, <2>1
  <2>7. /\ slots[t.receipt.slot].permitGeneration \in Nat
        /\ slots'[t.receipt.slot].permitGeneration \in Nat
        /\ slots'[t.receipt.slot].generation \in Nat
    BY <2>6 DEF Slot
  <2> QED BY <1>1, <2>1, <2>2, <2>3, <2>4, <2>5, <2>7 DEF SlotOnward
<1>5. ASSUME t \in TreeToken \union DecisionToken
      PROVE  /\ t.root.identity < nextLeaseGeneration'
             /\ /\ roots'[t.parent.slot].state = "active"
                /\ roots'[t.parent.slot].identity = t.root.identity
                => t.root.revision <= roots'[t.parent.slot].revision
  <2>1. t.parent.slot \in Slots /\ t.root \in Root
    BY <1>5 DEF TreeToken, DecisionToken, Receipt, ActiveRoot
  <2>2. t.root.identity \in Nat /\ t.root.revision \in Nat
    BY <2>1 DEF Root
  <2>3. /\ t.root.identity < nextLeaseGeneration
        /\ /\ roots[t.parent.slot].state = "active"
           /\ roots[t.parent.slot].identity = t.root.identity
           => t.root.revision <= roots[t.parent.slot].revision
    BY <1>1, <1>5 DEF Behind
  <2>4. RootOnward(t.parent.slot)
    BY <2>1 DEF Onward
  <2>5. roots[t.parent.slot] \in Root /\ roots'[t.parent.slot] \in Root
    BY <1>1, <2>1
  <2>6. /\ roots[t.parent.slot].revision \in Nat
        /\ roots'[t.parent.slot].revision \in Nat
        /\ roots'[t.parent.slot].identity \in Nat
    BY <2>5 DEF Root
  <2>7. t.root.identity < nextLeaseGeneration'
    BY <1>1, <2>2, <2>3 DEF Onward
  <2> QED BY <1>1, <2>2, <2>3, <2>4, <2>6, <2>7 DEF RootOnward
<1>6. t \in NodeToken => t.generation < nextLeaseGeneration'
  <2>1. t \in NodeToken => t.generation \in Nat
    BY DEF NodeToken
  <2> QED BY <1>1, <2>1 DEF Behind, Onward
<1>7. t \in PinToken => t.pin.generation < nextLeaseGeneration'
  <2>1. t \in PinToken => t.pin.generation \in Nat
    BY DEF PinToken, Pin
  <2> QED BY <1>1, <2>1 DEF Behind, Onward
<1> QED BY <1>2, <1>3, <1>4, <1>5, <1>6, <1>7 DEF Behind

-----------------------------------------------------------------------------
(* A step on one slot and its tree.                                        *)

\* The handles of receipts, reservations and permits of slot i.
AtSlot(i) == {t \in Reservation \union Receipt : t.slot = i}
               \union {t \in PublicationPermit : t.receipt.slot = i}

\* Those of its tree.
AtTree(i) == {t \in OnTree : t.parent.slot = i}

HandlesAt(i) == AtSlot(i) \union AtTree(i)

\* A step on slot i keeps the handles sound if it settles the handles of that
\* slot and its tree, and moves the counters on.
LEMMA SlotStepHandles ==
    ASSUME TreeInv, TreeInv', HandlesSound, NEW i \in Slots,
           \A k \in Slots \ {i} : slots'[k] = slots[k] /\ roots'[k] = roots[k],
           NodesOnly(i), PinsOnly(i), NEW old, NEW new,
           old \subseteq HandlesAt(i), new \subseteq HandlesAt(i),
           Exchange(old, new), \A t \in old : StandsNow(t),
           new \intersect issued = {}, Turns(old, new, HandlesAt(i)),
           nextGeneration <= nextGeneration',
           nextLeaseGeneration <= nextLeaseGeneration',
           SlotOnward(i), RootOnward(i), \A t \in new : Behind(t)',
           SessionSound(i)'
    PROVE  HandlesSound'
<1>1. ASSUME NEW r \in Receipt, r.slot # i
      PROVE  /\ Committed(slots', r) <=> Committed(slots, r)
             /\ slots'[r.slot] = slots[r.slot] /\ roots'[r.slot] = roots[r.slot]
  BY <1>1, KindsApart DEF Committed
<1>2. ASSUME NEW t \in BankToken, t \notin AtSlot(i)
      PROVE  StandsNow(t)' <=> StandsNow(t)
  <2>1. CASE t \in Reservation
    <3>1. t.slot \in Slots \ {i}
      BY <1>2, <2>1, KindsApart DEF AtSlot
    <3> QED BY <2>1, <3>1, StandsByKind DEF StandsNow, ReservationStands
  <2>2. CASE t \in Receipt
    <3>1. t.slot # i
      BY <1>2, <2>2 DEF AtSlot
    <3> QED BY <1>1, <2>2, <3>1, StandsByKind DEF StandsNow
  <2>3. CASE t \in PublicationPermit
    <3>1. t.receipt \in Receipt /\ t.receipt.slot # i
      BY <1>2, <2>3, KindsApart DEF AtSlot
    <3> QED BY <1>1, <2>3, <3>1, StandsByKind DEF StandsNow, PermitStands
  <2> QED BY <1>2, <2>1, <2>2, <2>3 DEF BankToken
<1>3. ASSUME NEW t \in OnTree, t.parent.slot # i
      PROVE  StandsNow(t)' <=> StandsNow(t)
  <2>0. t.parent \in Receipt
    BY KindsApart DEF OnTree
  <2>1. CASE t \in TreeToken
    BY <1>1, <1>3, <2>0, <2>1, StandsByKind DEF StandsNow, TreeStands
  <2>2. CASE t \in DecisionToken
    BY <1>1, <1>3, <2>0, <2>2, StandsByKind
       DEF StandsNow, DecisionStands, TreeStands
  <2>3. CASE t \in NodeToken
    <3>1. t.index \in Nodes
      BY <2>3 DEF NodeToken
    <3>2. \/ nodes'[t.index] = nodes[t.index]
          \/ InTree(nodes[t.index], i) /\ InTree(nodes'[t.index], i)
      BY <3>1 DEF NodesOnly
    <3>3. NodeStands(slots', nodes', t) <=> NodeStands(slots, nodes, t)
      BY <1>1, <1>3, <2>0, <3>2 DEF NodeStands, InTree
    <3> QED BY <2>3, <3>3, StandsByKind DEF StandsNow
  <2>4. CASE t \in PinToken
    <3>1. /\ t.index \in PinSlots /\ t.pin.state = "active"
          /\ t.pin.slot = t.parent.slot
      BY <2>4 DEF PinToken
    <3>2. \/ pins'[t.index] = pins[t.index]
          \/ InTree(pins[t.index], i) /\ InTree(pins'[t.index], i)
      BY <3>1 DEF PinsOnly
    <3>3. PinStands(slots', pins', t) <=> PinStands(slots, pins, t)
      BY <1>1, <1>3, <2>0, <3>1, <3>2 DEF PinStands, InTree
    <3> QED BY <2>4, <3>3, StandsByKind DEF StandsNow
  <2> QED BY <1>3, <2>1, <2>2, <2>3, <2>4 DEF OnTree
<1>4. Turns(old, new, Token)
  <2>1. Token \subseteq BankToken \union OnTree
    BY DEF Token, BankToken, OnTree
  <2>2. ASSUME NEW t \in Token, t \notin HandlesAt(i)
        PROVE  StandsNow(t)' <=> StandsNow(t)
    BY <1>2, <1>3, <2>1, <2>2 DEF HandlesAt, AtTree
  <2> QED BY <2>2 DEF Turns
<1>5. Onward
  <2>1. ASSUME NEW k \in Slots PROVE SlotOnward(k) /\ RootOnward(k)
    <3>1. k # i => slots'[k] = slots[k] /\ roots'[k] = roots[k]
      OBVIOUS
    <3>2. slots[k] \in Slot /\ roots[k] \in Root
      BY DEF TreeInv, TreeTypes
    <3>3. /\ slots[k].permitGeneration \in Nat
          /\ roots[k].state \in {"free", "active"} /\ roots[k].revision \in Nat
      BY <3>2 DEF Slot, Root
    <3> QED BY <3>1, <3>3 DEF SlotOnward, RootOnward
  <2> QED BY <2>1 DEF Onward
<1>6. \A t \in issued : Behind(t)'
  <2>1. issued \subseteq issued'
    BY DEF Exchange
  <2> QED BY <1>5, <2>1, BehindStays
<1>7. ASSUME NEW k \in Slots PROVE SessionSound(k)'
  <2>1. SessionSound(k)
    BY DEF HandlesSound
  <2>2. k # i => slots'[k] = slots[k] /\ roots'[k] = roots[k]
    OBVIOUS
  <2> QED BY <2>1, <2>2 DEF SessionSound
<1>8. old \subseteq Token
  BY DEF HandlesAt, AtSlot, AtTree, OnTree, Token
<1> QED BY <1>4, <1>6, <1>7, <1>8, HandleStep

-----------------------------------------------------------------------------
(* Steps that leave the trees alone.                                       *)

\* The receipt of slot i, and the session its tree's decision was taken for.
SameReceipt(i) == /\ slots'[i].state = slots[i].state
                  /\ slots'[i].generation = slots[i].generation
                  /\ slots'[i].claim = slots[i].claim

SameSession(i) == /\ slots'[i].requestEpoch = slots[i].requestEpoch
                  /\ slots'[i].sessionId = slots[i].sessionId
                  /\ slots'[i].nextSequence = slots[i].nextSequence

\* The handles on trees stand as before if a slot changes that has no tree, or
\* keeps its receipt and, while a decision is pending, its session.
LEMMA TreeHandlesStand ==
    ASSUME TreeInv, roots' = roots, nodes' = nodes, pins' = pins,
           NEW i \in Slots, \A k \in Slots \ {i} : slots'[k] = slots[k],
           \/ roots[i].state = "free"
           \/ /\ SameReceipt(i)
              /\ roots[i].pending.kind = "none" \/ SameSession(i),
           NEW old, NEW new, old \subseteq BankToken, new \subseteq BankToken
    PROVE  Turns(old, new, OnTree)
<1>1. ASSUME NEW r \in Receipt, r.slot # i \/ roots[i].state # "free"
      PROVE  Committed(slots', r) <=> Committed(slots, r)
  BY <1>1, KindsApart DEF Committed, SameReceipt
<1>2. ASSUME NEW t \in TreeToken
      PROVE  TreeStands(slots', roots', t) <=> TreeStands(slots, roots, t)
  <2>1. t.parent \in Receipt /\ t.root.state = "active"
    BY DEF TreeToken, ActiveRoot
  <2> QED BY <1>1, <2>1 DEF TreeStands
<1>3. ASSUME NEW t \in DecisionToken
      PROVE  DecisionStands(slots', roots', t) <=>
             DecisionStands(slots, roots, t)
  <2>1. /\ t.parent \in Receipt /\ t.root.state = "active"
        /\ t.parent.slot \in Slots
    BY DEF DecisionToken, ActiveRoot, Receipt
  <2>2. t.root.pending.kind # "none"
    BY DEF DecisionToken, DecisionOn
  <2>3. TreeStands(slots', roots', t) <=> TreeStands(slots, roots, t)
    BY <1>1, <2>1 DEF TreeStands
  <2>4. TreeStands(slots, roots, t) => roots[t.parent.slot] = t.root
    BY DEF TreeStands
  <2>5. ASSUME TreeStands(slots, roots, t)
        PROVE  InSession(slots'[t.parent.slot], t) <=>
               InSession(slots[t.parent.slot], t)
    BY <2>1, <2>2, <2>4, <2>5 DEF InSession, SameSession
  <2> QED BY <2>3, <2>5 DEF DecisionStands
<1>4. ASSUME NEW t \in NodeToken
      PROVE  NodeStands(slots', nodes', t) <=> NodeStands(slots, nodes, t)
  <2>1. t.parent \in Receipt /\ t.parent.slot \in Slots /\ t.index \in Nodes
    BY DEF NodeToken, Receipt
  <2>2. roots[i].state = "free" => NodesOf(i) = {}
    BY DEF TreeInv, TreeSound, RootSound
  <2>3. ASSUME nodes[t.index].state # "free",
               nodes[t.index].slot = t.parent.slot
        PROVE  t.parent.slot # i \/ roots[i].state # "free"
    BY <2>1, <2>2, <2>3 DEF NodesOf
  <2> QED BY <1>1, <2>1, <2>3 DEF NodeStands
<1>5. ASSUME NEW t \in PinToken
      PROVE  PinStands(slots', pins', t) <=> PinStands(slots, pins, t)
  <2>1. /\ t.parent \in Receipt /\ t.parent.slot \in Slots
        /\ t.index \in PinSlots /\ t.pin.state = "active"
        /\ t.pin.slot = t.parent.slot
    BY DEF PinToken, Receipt
  <2>2. roots[i].state = "free" => PinsOf(i) = {}
    BY DEF TreeInv, TreeSound, PinsSound
  <2>3. ASSUME pins[t.index] = t.pin
        PROVE  t.parent.slot # i \/ roots[i].state # "free"
    BY <2>1, <2>2, <2>3 DEF PinsOf
  <2> QED BY <1>1, <2>1, <2>3 DEF PinStands
<1>6. ASSUME NEW t \in OnTree PROVE StandsNow(t)' <=> StandsNow(t)
  BY <1>2, <1>3, <1>4, <1>5, <1>6, StandsByKind DEF OnTree, StandsNow
<1>7. \A t \in OnTree : t \notin old /\ t \notin new
  BY BankOrTree
<1> QED BY <1>6, <1>7 DEF Turns

\* A step on slot i that leaves the trees alone keeps the handles sound if it
\* settles the handles of that slot.
LEMMA BankStep ==
    ASSUME TreeInv, TreeInv', HandlesSound, UNCHANGED treeVars,
           NEW i \in Slots, \A k \in Slots \ {i} : slots'[k] = slots[k],
           \/ roots[i].state = "free"
           \/ /\ SameReceipt(i)
              /\ roots[i].pending.kind = "none" \/ SameSession(i),
           NEW old, NEW new, old \subseteq AtSlot(i), new \subseteq AtSlot(i),
           Exchange(old, new), \A t \in old : StandsNow(t),
           new \intersect issued = {}, Turns(old, new, AtSlot(i)),
           nextGeneration <= nextGeneration', SlotOnward(i),
           \A t \in new : Behind(t)', SessionSound(i)'
    PROVE  HandlesSound'
<1>1. /\ roots' = roots /\ nodes' = nodes /\ pins' = pins
      /\ nextLeaseGeneration' = nextLeaseGeneration
  BY DEF treeVars, generationVars
<1>2. old \subseteq BankToken /\ new \subseteq BankToken
  BY DEF AtSlot, BankToken
<1>3. Turns(old, new, OnTree)
  BY <1>1, <1>2, TreeHandlesStand
<1>4. Turns(old, new, HandlesAt(i))
  BY <1>3 DEF Turns, HandlesAt, AtTree
<1>5. NodesOnly(i) /\ PinsOnly(i) /\ RootOnward(i)
  <2>1. roots[i] \in Root
    BY DEF TreeInv, TreeTypes
  <2>2. roots[i].state \in {"free", "active"} /\ roots[i].revision \in Nat
    BY <2>1 DEF Root
  <2> QED BY <1>1, <2>2 DEF NodesOnly, PinsOnly, RootOnward
<1>6. nextLeaseGeneration \in Nat
  BY TreeAssumption DEF TreeInv, TreeTypes
<1> QED BY <1>1, <1>4, <1>5, <1>6, SlotStepHandles DEF HandlesAt

\* What stands at slot i, before a step and after it.
LEMMA SlotStands ==
    ASSUME NEW i
    PROVE  /\ \A t \in Reservation : t.slot = i =>
                /\ StandsNow(t) <=> /\ slots[i].state = "reserved"
                                    /\ slots[i].generation = t.generation
                                    /\ slots[i].claim = t.claim
                /\ StandsNow(t)' <=> /\ slots'[i].state = "reserved"
                                     /\ slots'[i].generation = t.generation
                                     /\ slots'[i].claim = t.claim
           /\ \A t \in Receipt : t.slot = i =>
                /\ StandsNow(t) <=> /\ slots[i].state = "committed"
                                    /\ slots[i].generation = t.generation
                                    /\ slots[i].claim = t.claim
                /\ StandsNow(t)' <=> /\ slots'[i].state = "committed"
                                     /\ slots'[i].generation = t.generation
                                     /\ slots'[i].claim = t.claim
           /\ \A t \in PublicationPermit : t.receipt.slot = i =>
                /\ StandsNow(t) <=> PermitStands(slots, t)
                /\ StandsNow(t)' <=> PermitStands(slots', t)
                /\ StandsNow(t) => slots[i].publication = "active"
                                   /\ slots[i].state = "committed"
                /\ StandsNow(t)' => slots'[i].publication = "active"
                                    /\ slots'[i].state = "committed"
<1>1. ASSUME NEW t \in Reservation
      PROVE  /\ StandsNow(t) <=> ReservationStands(slots, t)
             /\ StandsNow(t)' <=> ReservationStands(slots', t)
  BY StandsByKind DEF StandsNow
<1>2. ASSUME NEW t \in Receipt
      PROVE  /\ StandsNow(t) <=> Committed(slots, t)
             /\ StandsNow(t)' <=> Committed(slots', t)
  BY StandsByKind DEF StandsNow
<1>3. ASSUME NEW t \in PublicationPermit
      PROVE  /\ StandsNow(t) <=> PermitStands(slots, t)
             /\ StandsNow(t)' <=> PermitStands(slots', t)
  BY StandsByKind DEF StandsNow
<1> QED BY <1>1, <1>2, <1>3 DEF ReservationStands, Committed, PermitStands

\* A slot in the type has the fields of a slot.
LEMMA SlotFields ==
    ASSUME TreeInv, NEW i \in Slots
    PROVE  /\ slots[i].state \in {"free", "reserved", "committed"}
           /\ slots[i].generation \in Nat /\ slots[i].claim \in Claim
           /\ slots[i].requestEpoch \in Nat /\ slots[i].sessionId \in Nat
           /\ slots[i].nextSequence \in Nat
           /\ slots[i].permitGeneration \in Nat
           /\ slots[i].publication \in {"idle", "active"}
           /\ roots[i].state \in {"free", "active"}
           /\ roots[i].state = "free" => roots[i].pending.kind = "none"
           /\ nextGeneration \in Nat
<1>1. slots[i] \in Slot /\ roots[i] \in Root /\ nextGeneration \in Nat
  BY DEF TreeInv, TreeTypes
<1>2. roots[i].state = "free" => roots[i].pending.kind = "none"
  BY DEF TreeInv, TreeSound, RootSound, FreeRoot, NothingPending
<1> QED BY <1>1, <1>2 DEF Slot, Root

\* reserve returns a reservation of a generation that never was.
LEMMA ReserveHandles ==
    ASSUME TreeInv, TreeInv', HandlesSound, NEW c \in RequestClaims,
           reserve(c), UNCHANGED treeVars
    PROVE  HandlesSound'
<1>1. PICK i \in Slots :
        /\ slots[i].state = "free"
        /\ slots' = [slots EXCEPT ![i] =
                        [FreeSlot EXCEPT !.state = "reserved",
                                         !.generation = nextGeneration,
                                         !.claim = c]]
        /\ Exchange({}, {ReservationAt(i, nextGeneration, c)})
  BY DEF reserve, FirstFree
<1>u. PICK u : u = ReservationAt(i, nextGeneration, c)
  OBVIOUS
<1>2. /\ nextGeneration \in Nat /\ nextGeneration' = nextGeneration + 1
      /\ c \in Claim /\ slots \in [Slots -> Slot]
  BY BankAssumption DEF reserve, TreeInv, TreeTypes
<1>3. /\ slots'[i].state = "reserved" /\ slots'[i].claim = c
      /\ slots'[i].generation = nextGeneration
      /\ slots'[i].publication = "idle"
      /\ \A k \in Slots \ {i} : slots'[k] = slots[k]
  BY <1>1, <1>2 DEF FreeSlot
<1>4. /\ u \in Reservation /\ u.slot = i /\ u.generation = nextGeneration
      /\ u.claim = c
  BY <1>u, <1>2, HandleTypes DEF ReservationAt
<1>5. u \notin issued
  <2>1. u \in issued => u.generation < nextGeneration
    BY <1>4 DEF HandlesSound, Behind
  <2> QED BY <1>2, <1>4, <2>1
<1>6. Turns({}, {u}, AtSlot(i))
  <2>1. ASSUME NEW t \in Reservation, t.slot = i
        PROVE  StandsNow(t)' <=> StandsNow(t) \/ t = u
    <3>1. StandsNow(t)' <=> t.generation = nextGeneration /\ t.claim = c
      BY <1>3, <2>1, SlotStands
    <3>2. ~StandsNow(t)
      BY <1>1, <2>1, SlotStands
    <3> QED BY <1>4, <2>1, <3>1, <3>2, HandleExt
  <2>2. ASSUME NEW t \in Receipt, t.slot = i
        PROVE  ~StandsNow(t)' /\ ~StandsNow(t) /\ t # u
    <3>1. t.kind # u.kind
      BY <1>4, <2>2, KindsApart
    <3> QED BY <1>1, <1>3, <2>2, <3>1, SlotStands
  <2>3. ASSUME NEW t \in PublicationPermit, t.receipt.slot = i
        PROVE  ~StandsNow(t)' /\ ~StandsNow(t) /\ t # u
    <3>1. t.kind # u.kind
      BY <1>4, <2>3, KindsApart
    <3> QED BY <1>1, <1>3, <2>3, <3>1, SlotStands
  <2> QED BY <2>1, <2>2, <2>3 DEF Turns, AtSlot
<1>7. Behind(u)'
  <2>1. u \notin Receipt /\ u \notin PublicationPermit /\ u \notin TreeToken
        /\ u \notin DecisionToken /\ u \notin NodeToken /\ u \notin PinToken
    BY <1>4, KindsApart
  <2> QED BY <1>2, <1>4, <2>1 DEF Behind
<1>8. /\ u \in AtSlot(i) /\ SlotOnward(i) /\ SessionSound(i)'
      /\ nextGeneration <= nextGeneration'
  BY <1>2, <1>3, <1>4 DEF AtSlot, SlotOnward, SessionSound
<1>9. roots[i].state = "free"
  BY <1>1, NoTreeWithoutReceipt DEF FreeRoot
<1> QED BY <1>u, <1>1, <1>3, <1>5, <1>6, <1>7, <1>8, <1>9, BankStep

\* commit exchanges a reservation for a receipt of the same generation, which
\* nobody was given while the slot was reserved.
LEMMA CommitHandles ==
    ASSUME TreeInv, TreeInv', HandlesSound, NEW t \in Reservations, commit(t),
           UNCHANGED treeVars
    PROVE  HandlesSound'
<1>1. t \in Reservation /\ t.kind = "reservation" /\ t.slot \in Slots
  BY TokenKinds, KindsApart DEF TreeInv
<1>2. PICK i \in Slots : i = t.slot
  BY <1>1
<1>u. PICK u : u = ReceiptAt(t.slot, t.generation, t.claim)
  OBVIOUS
<1>3. /\ slots \in [Slots -> Slot] /\ t.generation \in Nat /\ t.claim \in Claim
      /\ slots[i].state = "reserved" /\ slots[i].generation = t.generation
      /\ slots[i].claim = t.claim
      /\ slots' = [slots EXCEPT ![i].state = "committed"]
      /\ nextGeneration' = nextGeneration /\ Exchange({t}, {u})
  BY <1>1, <1>2, <1>u
     DEF TreeInv, TreeTypes, commit, validateReservation, Reservation
<1>4. slots[i] \in Slot
  BY <1>3
<1>5. /\ slots'[i].state = "committed" /\ slots'[i].generation = t.generation
      /\ slots'[i].claim = t.claim
      /\ slots'[i].publication = slots[i].publication
      /\ slots'[i].permitGeneration = slots[i].permitGeneration
      /\ \A k \in Slots \ {i} : slots'[k] = slots[k]
  BY <1>3, <1>4 DEF Slot
<1>6. /\ u \in Receipt /\ u.kind = "receipt" /\ u.slot = i
      /\ u.generation = t.generation /\ u.claim = t.claim
  BY <1>2, <1>3, <1>u, HandleTypes DEF ReceiptAt
<1>7. u \notin issued
  BY <1>2, <1>3, <1>6 DEF HandlesSound, Behind
<1>8. slots[i].publication # "active"
  BY <1>3 DEF HandlesSound, SessionSound
<1>9. Turns({t}, {u}, AtSlot(i))
  <2>1. ASSUME NEW x \in Reservation, x.slot = i
        PROVE  ~StandsNow(x)' /\ (StandsNow(x) => x = t) /\ x # u
    <3>1. x # u
      BY <1>6, KindsApart
    <3>2. StandsNow(x) => x.generation = t.generation /\ x.claim = t.claim
      BY <1>3, <2>1, SlotStands
    <3>3. ~StandsNow(x)'
      BY <1>5, <2>1, SlotStands
    <3> QED BY <1>1, <1>2, <2>1, <3>1, <3>2, <3>3, HandleExt
  <2>2. ASSUME NEW x \in Receipt, x.slot = i
        PROVE  (StandsNow(x)' <=> x = u) /\ ~StandsNow(x)
    <3>1. StandsNow(x)' <=> x.generation = t.generation /\ x.claim = t.claim
      BY <1>5, <2>2, SlotStands
    <3>2. ~StandsNow(x)
      BY <1>3, <2>2, SlotStands
    <3> QED BY <1>6, <2>2, <3>1, <3>2, HandleExt
  <2>3. ASSUME NEW x \in PublicationPermit, x.receipt.slot = i
        PROVE  ~StandsNow(x)' /\ ~StandsNow(x) /\ x # u
    <3>1. x # u
      BY <1>6, KindsApart
    <3> QED BY <1>5, <1>8, <2>3, <3>1, SlotStands
  <2> QED BY <2>1, <2>2, <2>3 DEF Turns, AtSlot
<1>10. \A x \in {u} : Behind(x)'
  <2>1. /\ u \notin PublicationPermit /\ u \notin TreeToken
        /\ u \notin DecisionToken /\ u \notin NodeToken /\ u \notin PinToken
    BY <1>6, KindsApart
  <2>2. t.generation < nextGeneration
    BY <1>1 DEF HandlesSound, Behind, Reservations
  <2>3. slots'[u.slot].state = "committed"
    BY <1>5, <1>6
  <2> QED BY <1>3, <1>6, <2>1, <2>2, <2>3 DEF Behind
<1>11. /\ t \in AtSlot(i) /\ u \in AtSlot(i) /\ SlotOnward(i)
       /\ SessionSound(i)' /\ nextGeneration <= nextGeneration'
  <2>1. slots[i].permitGeneration \in Nat /\ nextGeneration \in Nat
    BY SlotFields
  <2> QED BY <1>1, <1>2, <1>3, <1>5, <1>6, <1>8, <2>1
          DEF AtSlot, SlotOnward, SessionSound
<1>12. roots[i].state = "free"
  BY <1>3, NoTreeWithoutReceipt DEF FreeRoot
<1>13. StandsNow(t)
  BY <1>1, <1>2, <1>3, SlotStands
<1> QED BY <1>3, <1>5, <1>7, <1>9, <1>10, <1>11, <1>12, <1>13, BankStep

\* The one receipt or reservation of a slot without tree and permit ends when
\* the slot is cleared.
LEMMA ClearHandles ==
    ASSUME TreeInv, TreeInv', HandlesSound,
           NEW t \in Reservation \union Receipt, StandsNow(t), ClearSlot(t),
           roots[t.slot].state = "free", slots[t.slot].publication = "idle",
           UNCHANGED treeVars
    PROVE  HandlesSound'
<1>1. t.slot \in Slots
  BY KindsApart
<1>2. PICK i \in Slots : i = t.slot
  BY <1>1
<1>3. /\ slots \in [Slots -> Slot] /\ slots[i].publication = "idle"
      /\ slots' = [slots EXCEPT ![i] = FreeSlot]
      /\ nextGeneration' = nextGeneration /\ Exchange({t}, {})
  BY <1>2 DEF TreeInv, TreeTypes, ClearSlot
<1>4. /\ slots'[i].state = "free" /\ slots'[i].publication = "idle"
      /\ \A k \in Slots \ {i} : slots'[k] = slots[k]
  BY <1>3 DEF FreeSlot
<1>5. Turns({t}, {}, AtSlot(i))
  <2>1. ASSUME NEW x \in Reservation, x.slot = i
        PROVE  ~StandsNow(x)' /\ (StandsNow(x) => x = t)
    <3>1. ~StandsNow(x)'
      BY <1>4, <2>1, SlotStands
    <3>2. ASSUME StandsNow(x) PROVE x = t
      <4>1. /\ slots[i].state = "reserved"
            /\ x.generation = slots[i].generation /\ x.claim = slots[i].claim
        BY <2>1, <3>2, SlotStands
      <4>2. t \in Reservation /\ t.slot = i
        BY <1>2, <4>1, SlotStands
      <4>3. t.generation = slots[i].generation /\ t.claim = slots[i].claim
        BY <4>2, SlotStands
      <4> QED BY <1>2, <2>1, <4>1, <4>2, <4>3, HandleExt
    <3> QED BY <3>1, <3>2
  <2>2. ASSUME NEW x \in Receipt, x.slot = i
        PROVE  ~StandsNow(x)' /\ (StandsNow(x) => x = t)
    <3>1. ~StandsNow(x)'
      BY <1>4, <2>2, SlotStands
    <3>2. ASSUME StandsNow(x) PROVE x = t
      <4>1. /\ slots[i].state = "committed"
            /\ x.generation = slots[i].generation /\ x.claim = slots[i].claim
        BY <2>2, <3>2, SlotStands
      <4>2. t \in Receipt
        BY <1>2, <4>1, SlotStands
      <4>3. t.generation = slots[i].generation /\ t.claim = slots[i].claim
        BY <1>2, <4>2, SlotStands
      <4> QED BY <1>2, <2>2, <4>1, <4>2, <4>3, HandleExt
    <3> QED BY <3>1, <3>2
  <2>3. ASSUME NEW x \in PublicationPermit, x.receipt.slot = i
        PROVE  ~StandsNow(x)' /\ ~StandsNow(x)
    <3>1. slots[i].publication # "active" /\ slots'[i].publication # "active"
      BY <1>3, <1>4
    <3> QED BY <2>3, <3>1, SlotStands
  <2> QED BY <2>1, <2>2, <2>3 DEF Turns, AtSlot
<1>6. /\ t \in AtSlot(i) /\ SlotOnward(i) /\ SessionSound(i)'
      /\ nextGeneration <= nextGeneration' /\ roots[i].state = "free"
  <2>1. nextGeneration \in Nat
    BY SlotFields
  <2> QED BY <1>2, <1>3, <1>4, <2>1 DEF AtSlot, SlotOnward, SessionSound
<1> QED BY <1>3, <1>4, <1>5, <1>6, BankStep

\* Binding, restoring or closing an idle session concerns no handle.
LEMMA SessionHandles ==
    ASSUME TreeInv, TreeInv', HandlesSound, UNCHANGED treeVars,
           NEW i \in Slots, \A k \in Slots \ {i} : slots'[k] = slots[k],
           SameReceipt(i), slots[i].publication = "idle",
           slots'[i].publication = "idle",
           slots[i].permitGeneration <= slots'[i].permitGeneration,
           roots[i].pending.kind = "none",
           UNCHANGED <<nextGeneration, handleVars>>
    PROVE  HandlesSound'
<1>1. /\ issued' = issued /\ spent' = spent /\ replayed' = replayed
      /\ nextGeneration' = nextGeneration
  BY DEF handleVars
<1>2. Exchange({}, {})
  BY <1>1 DEF Exchange
<1>3. /\ slots'[i].state = slots[i].state
      /\ slots'[i].generation = slots[i].generation
      /\ slots'[i].claim = slots[i].claim
      /\ slots[i].publication # "active" /\ slots'[i].publication # "active"
  BY DEF SameReceipt
<1>4. Turns({}, {}, AtSlot(i))
  <2>1. ASSUME NEW x \in Reservation, x.slot = i
        PROVE  StandsNow(x)' <=> StandsNow(x)
    BY <1>3, <2>1, SlotStands
  <2>2. ASSUME NEW x \in Receipt, x.slot = i
        PROVE  StandsNow(x)' <=> StandsNow(x)
    BY <1>3, <2>2, SlotStands
  <2>3. ASSUME NEW x \in PublicationPermit, x.receipt.slot = i
        PROVE  ~StandsNow(x)' /\ ~StandsNow(x)
    BY <1>3, <2>3, SlotStands
  <2> QED BY <2>1, <2>2, <2>3 DEF Turns, AtSlot
<1>5. SlotOnward(i) /\ SessionSound(i)' /\ nextGeneration <= nextGeneration'
  <2>1. nextGeneration \in Nat
    BY SlotFields
  <2> QED BY <1>1, <1>3, <2>1 DEF SlotOnward, SessionSound
<1> QED BY <1>2, <1>4, <1>5, BankStep

\* bind and close of a session are such steps; so is the restore of one.
LEMMA BindHandles ==
    ASSUME TreeInv, TreeInv', HandlesSound, NEW r \in Receipt, NEW e, NEW id,
           NEW n, UNCHANGED treeVars, roots[r.slot].pending.kind = "none",
           \/ bindPublicationSessionLocked(r, e, id)
           \/ closePublicationSession(r, e, id, n)
    PROVE  HandlesSound'
<1>1. PICK i \in Slots : i = r.slot
  BY KindsApart
<1>2. /\ slots \in [Slots -> Slot] /\ slots[i] \in Slot
      /\ UNCHANGED <<nextGeneration, handleVars>>
  BY DEF TreeInv, TreeTypes, bindPublicationSessionLocked,
         closePublicationSession
<1>3. slots[i].publication = "idle"
  <2>1. slots[i].publication = "idle" \/ slots[i].sessionId = 0
    BY <1>1 DEF bindPublicationSessionLocked, closePublicationSession,
                SessionAt
  <2>2. slots[i].publication \in {"idle", "active"}
    BY SlotFields
  <2> QED BY <2>1, <2>2 DEF HandlesSound, SessionSound
<1>4. /\ \A k \in Slots \ {i} : slots'[k] = slots[k]
      /\ slots'[i].state = slots[i].state
      /\ slots'[i].generation = slots[i].generation
      /\ slots'[i].claim = slots[i].claim
      /\ slots'[i].publication = "idle"
      /\ slots'[i].permitGeneration = slots[i].permitGeneration
  <2>1. CASE bindPublicationSessionLocked(r, e, id)
    BY <1>1, <1>2, <2>1 DEF bindPublicationSessionLocked, Slot
  <2>2. CASE closePublicationSession(r, e, id, n)
    BY <1>1, <1>2, <1>3, <2>2 DEF closePublicationSession, Slot
  <2> QED BY <2>1, <2>2
<1>5. slots[i].permitGeneration <= slots'[i].permitGeneration
  <2>1. slots[i].permitGeneration \in Nat
    BY SlotFields
  <2> QED BY <1>4, <2>1
<1> QED BY <1>1, <1>2, <1>3, <1>4, <1>5, SessionHandles DEF SameReceipt

\* A fenced restore moves the permit generation, but only up from zero.
LEMMA RestoreHandles ==
    ASSUME TreeInv, TreeInv', HandlesSound, NEW t \in Trees, NEW e, NEW id,
           NEW n, NEW g \in Nat, bindRestoredPublicationSession(t, e, id, n, g)
    PROVE  HandlesSound'
<1>1. /\ validateLeaseTree(t) /\ t.root.pending.kind = "none"
      /\ Unbound(slots[t.parent.slot]) /\ UNCHANGED treeVars
      /\ UNCHANGED <<nextGeneration, handleVars>>
  BY DEF bindRestoredPublicationSession
<1>2. t.parent.slot \in Slots /\ roots[t.parent.slot] = t.root
  BY <1>1, TreeAccepted
<1>3. PICK i \in Slots : i = t.parent.slot
  BY <1>2
<1>4. /\ slots \in [Slots -> Slot] /\ slots[i] \in Slot
      /\ slots[i].publication = "idle" /\ slots[i].permitGeneration \in Nat
  BY <1>1, <1>3, SlotFields, SMTT(60) DEF Unbound, TreeInv, TreeTypes
<1>5. /\ \A k \in Slots \ {i} : slots'[k] = slots[k]
      /\ slots'[i].state = slots[i].state
      /\ slots'[i].generation = slots[i].generation
      /\ slots'[i].claim = slots[i].claim
      /\ slots'[i].publication = "idle"
      /\ \/ slots'[i].permitGeneration = slots[i].permitGeneration
         \/ slots[i].permitGeneration = 0 /\ slots'[i].permitGeneration = g
  BY <1>3, <1>4 DEF bindRestoredPublicationSession, Slot
<1>6. slots[i].permitGeneration <= slots'[i].permitGeneration
  BY <1>4, <1>5
<1> QED BY <1>1, <1>2, <1>3, <1>4, <1>5, <1>6, SessionHandles DEF SameReceipt

\* Two live permits of a slot are one permit.
LEMMA OneLivePermit ==
    ASSUME NEW S, NEW t \in PublicationPermit, NEW u \in PublicationPermit,
           t.receipt.slot = u.receipt.slot, PermitStands(S, t),
           PermitStands(S, u)
    PROVE  t = u
<1>1. t.receipt \in Receipt /\ u.receipt \in Receipt
  BY KindsApart
<1>2. t.receipt = u.receipt
  BY <1>1, OneReceipt DEF PermitStands
<1> QED BY <1>2, HandleExt DEF PermitStands, InSession

\* begin returns a permit above all that were issued for its receipt.
LEMMA BeginHandles ==
    ASSUME TreeInv, TreeInv', HandlesSound, NEW r \in Receipt, r \in issued,
           NEW e \in Nat, NEW id \in Nat \ {0}, NEW n \in Nat,
           UNCHANGED treeVars, roots[r.slot].pending.kind = "none",
           beginPublicationLocked(r, e, id, n)
    PROVE  HandlesSound'
<1>1. PICK i \in Slots : i = r.slot
  BY KindsApart
<1>u. PICK u : u = PermitAt(r, e, id, n, slots[i].permitGeneration + 1)
  OBVIOUS
<1>2. /\ slots \in [Slots -> Slot] /\ slots[i] \in Slot
      /\ slots[i].permitGeneration \in Nat /\ Committed(slots, r)
      /\ slots[i].publication = "idle" /\ slots[i].requestEpoch = e
      /\ slots[i].sessionId = id /\ slots[i].nextSequence = n
      /\ slots' = [slots EXCEPT ![i].permitGeneration = @ + 1,
                                ![i].publication = "active"]
      /\ Exchange({}, {u}) /\ nextGeneration' = nextGeneration
  BY <1>1, <1>u, SlotFields
     DEF TreeInv, TreeTypes, beginPublicationLocked, validateReceipt,
         Committed, SessionAt
<1>3. /\ \A k \in Slots \ {i} : slots'[k] = slots[k]
      /\ slots'[i].state = slots[i].state
      /\ slots'[i].generation = slots[i].generation
      /\ slots'[i].claim = slots[i].claim
      /\ slots'[i].publication = "active"
      /\ slots'[i].requestEpoch = e /\ slots'[i].sessionId = id
      /\ slots'[i].nextSequence = n
      /\ slots'[i].permitGeneration = slots[i].permitGeneration + 1
  BY <1>2 DEF Slot
<1>4. /\ u \in PublicationPermit /\ u.receipt = r /\ u.requestEpoch = e
      /\ u.sessionId = id /\ u.sequence = n /\ u.kind = "permit"
      /\ u.generation = slots[i].permitGeneration + 1
  BY <1>2, <1>u DEF PermitAt, PublicationPermit
<1>5. u \notin issued
  <2>1. ASSUME u \in issued PROVE u.generation <= slots[i].permitGeneration
    <3>1. Behind(u)
      BY <2>1 DEF HandlesSound
    <3> QED BY <1>1, <1>2, <1>4, <3>1 DEF Behind, Committed
  <2> QED BY <1>2, <1>4, <2>1
<1>6. PermitStands(slots', u)
  BY <1>1, <1>2, <1>3, <1>4 DEF PermitStands, Committed, InSession
<1>7. Turns({}, {u}, AtSlot(i))
  <2>1. ASSUME NEW x \in Reservation, x.slot = i
        PROVE  (StandsNow(x)' <=> StandsNow(x)) /\ x # u
    <3>1. x # u
      BY <1>4, KindsApart
    <3> QED BY <1>3, <2>1, <3>1, SlotStands
  <2>2. ASSUME NEW x \in Receipt, x.slot = i
        PROVE  (StandsNow(x)' <=> StandsNow(x)) /\ x # u
    <3>1. x # u
      BY <1>4, KindsApart
    <3> QED BY <1>3, <2>2, <3>1, SlotStands
  <2>3. ASSUME NEW x \in PublicationPermit, x.receipt.slot = i
        PROVE  ~StandsNow(x) /\ (StandsNow(x)' <=> x = u)
    <3>1. slots[i].publication # "active"
      BY <1>2
    <3>2. ~StandsNow(x)
      BY <2>3, <3>1, SlotStands
    <3>3. StandsNow(x)' <=> PermitStands(slots', x)
      BY StandsByKind DEF StandsNow
    <3>4. PermitStands(slots', x) => x = u
      BY <1>1, <1>4, <1>6, <2>3, OneLivePermit
    <3> QED BY <1>6, <3>2, <3>3, <3>4
  <2> QED BY <2>1, <2>2, <2>3 DEF Turns, AtSlot
<1>8. \A x \in {u} : Behind(x)'
  <2>1. /\ u \notin Reservation /\ u \notin Receipt /\ u \notin TreeToken
        /\ u \notin DecisionToken /\ u \notin NodeToken /\ u \notin PinToken
    BY <1>4, KindsApart
  <2>2. r \in issued' /\ u.generation <= slots'[i].permitGeneration
    BY <1>2, <1>3, <1>4 DEF Exchange
  <2> QED BY <1>1, <1>4, <2>1, <2>2 DEF Behind
<1>9. /\ u \in AtSlot(i) /\ SlotOnward(i) /\ SessionSound(i)'
      /\ nextGeneration <= nextGeneration'
  <2>1. nextGeneration \in Nat
    BY SlotFields
  <2>2. roots'[i].pending.kind = "none"
    BY <1>1 DEF treeVars
  <2>3. slots[i].state = "committed" /\ r.slot = i
    BY <1>1, <1>2 DEF Committed
  <2> QED BY <1>2, <1>3, <1>4, <2>1, <2>2, <2>3
          DEF AtSlot, SlotOnward, SessionSound
<1> QED BY <1>1, <1>2, <1>3, <1>5, <1>7, <1>8, <1>9, BankStep DEF SameReceipt

\* commit and abort end the one live permit of a slot.
LEMMA PermitHandles ==
    ASSUME TreeInv, TreeInv', HandlesSound, NEW t \in Permits,
           commitPublicationAssumeValid(t) \/ abortPublication(t),
           UNCHANGED treeVars
    PROVE  HandlesSound'
<1>1. t \in PublicationPermit /\ t.receipt.slot \in Slots
      /\ t.receipt \in Receipt
  BY TokenKinds, KindsApart DEF TreeInv
<1>2. PICK i \in Slots : i = t.receipt.slot
  BY <1>1
<1>3. /\ slots \in [Slots -> Slot] /\ slots[i] \in Slot
      /\ validatePublicationPermit(t)
      /\ \A k \in Slots \ {i} : slots'[k] = slots[k]
      /\ nextGeneration' = nextGeneration /\ Exchange({t}, {})
  BY <1>2 DEF TreeInv, TreeTypes, commitPublicationAssumeValid,
              abortPublication
<1>4. PermitStands(slots, t) /\ slots[i].publication = "active"
  BY <1>2, <1>3 DEF validatePublicationPermit, validateReceipt, PermitStands,
                    Committed, InSession
<1>5. /\ slots'[i].state = slots[i].state
      /\ slots'[i].generation = slots[i].generation
      /\ slots'[i].claim = slots[i].claim
      /\ slots'[i].publication = "idle"
      /\ slots'[i].permitGeneration = slots[i].permitGeneration
  BY <1>2, <1>3 DEF commitPublicationAssumeValid, abortPublication, Slot
<1>6. Turns({t}, {}, AtSlot(i))
  <2>1. ASSUME NEW x \in Reservation, x.slot = i
        PROVE  (StandsNow(x)' <=> StandsNow(x)) /\ x # t
    <3>1. x # t
      BY <1>1, KindsApart
    <3> QED BY <1>5, <2>1, <3>1, SlotStands
  <2>2. ASSUME NEW x \in Receipt, x.slot = i
        PROVE  (StandsNow(x)' <=> StandsNow(x)) /\ x # t
    <3>1. x # t
      BY <1>1, KindsApart
    <3> QED BY <1>5, <2>2, <3>1, SlotStands
  <2>3. ASSUME NEW x \in PublicationPermit, x.receipt.slot = i
        PROVE  ~StandsNow(x)' /\ (StandsNow(x) => x = t)
    <3>1. slots'[i].publication # "active"
      BY <1>5
    <3>2. ~StandsNow(x)'
      BY <2>3, <3>1, SlotStands
    <3>3. StandsNow(x) => PermitStands(slots, x)
      BY StandsByKind DEF StandsNow
    <3> QED BY <1>1, <1>2, <1>4, <2>3, <3>2, <3>3, OneLivePermit
  <2> QED BY <2>1, <2>2, <2>3 DEF Turns, AtSlot
<1>7. /\ t \in AtSlot(i) /\ SlotOnward(i) /\ SessionSound(i)'
      /\ nextGeneration <= nextGeneration'
  <2>1. nextGeneration \in Nat /\ slots[i].permitGeneration \in Nat
    BY SlotFields
  <2> QED BY <1>1, <1>2, <1>3, <1>5, <2>1
          DEF AtSlot, SlotOnward, SessionSound
<1>8. roots[i].pending.kind = "none"
  BY <1>4 DEF HandlesSound, SessionSound
<1>9. StandsNow(t)
  BY <1>1, <1>4, StandsByKind DEF StandsNow
<1> QED BY <1>3, <1>5, <1>6, <1>7, <1>8, <1>9, BankStep DEF SameReceipt

\* The receipt operations keep the handles sound.
LEMMA ReceiptStepHandles ==
    ASSUME TreeInv, TreeInv', HandlesSound, 0 \notin SessionIds, ReceiptStep
    PROVE  HandlesSound'
<1>1. UNCHANGED treeVars
  BY DEF ReceiptStep
<1>2. /\ Reservations \subseteq Reservation /\ Receipts \subseteq Receipt
      /\ Receipts \subseteq issued
  BY TokenKinds DEF TreeInv, Receipts
<1>3. ASSUME NEW t \in Receipts, ~hasActiveLeaseTree(t.slot)
      PROVE  /\ t \in Receipt /\ t.slot \in Slots
             /\ roots[t.slot].state = "free"
             /\ roots[t.slot].pending.kind = "none"
  BY <1>2, <1>3, SlotFields, KindsApart DEF hasActiveLeaseTree
<1>4. ASSUME NEW t \in Receipts, validateReceipt(t)
      PROVE  StandsNow(t)
  BY <1>2, <1>4, SlotStands DEF validateReceipt
<1>5. ASSUME NEW t \in Receipts, ~hasActiveLeaseTree(t.slot),
             validateReceipt(t), slots[t.slot].publication = "idle",
             ClearSlot(t)
      PROVE  HandlesSound'
  BY <1>1, <1>3, <1>4, <1>5, ClearHandles
<1>6. CASE \E c \in RequestClaims : reserve(c)
  BY <1>1, <1>6, ReserveHandles
<1>7. CASE \E t \in Reservations : commit(t) \/ cancel(t)
  <2>1. PICK t \in Reservations : commit(t) \/ cancel(t)
    BY <1>7
  <2>2. t \in Reservation /\ t.slot \in Slots
    BY <1>2, KindsApart
  <2>3. CASE commit(t)
    BY <1>1, <2>3, CommitHandles
  <2>4. CASE cancel(t)
    <3>1. validateReservation(t) /\ ClearSlot(t)
      BY <2>4 DEF cancel
    <3>2. StandsNow(t) /\ slots[t.slot].state = "reserved"
      BY <2>2, <3>1, SlotStands DEF validateReservation
    <3>3. roots[t.slot].state = "free"
      BY <2>2, <3>2, NoTreeWithoutReceipt DEF FreeRoot
    <3>4. slots[t.slot].publication = "idle"
      BY <2>2, <3>2, SlotFields DEF HandlesSound, SessionSound
    <3> QED BY <1>1, <2>2, <3>1, <3>2, <3>3, <3>4, ClearHandles
  <2> QED BY <2>1, <2>3, <2>4
<1>8. ASSUME NEW t \in Receipts, ~hasActiveLeaseTree(t.slot),
             \/ release(t)
             \/ \E e \in RequestEpochs, id \in SessionIds :
                  bindPublicationSession(t, e, id)
             \/ \E e \in RequestEpochs, id \in SessionIds, n \in Sequences :
                  \/ beginPublication(t, e, id, n)
                  \/ closePublicationSessionAndRelease(t, e, id, n)
      PROVE  HandlesSound'
  <2>1. CASE release(t)
    BY <1>5, <1>8, <2>1 DEF release
  <2>2. ASSUME NEW e \in RequestEpochs, NEW id \in SessionIds,
               bindPublicationSession(t, e, id)
        PROVE  HandlesSound'
    <3>1. bindPublicationSessionLocked(t, e, id)
      BY <2>2 DEF bindPublicationSession
    <3> QED BY <1>1, <1>3, <1>8, <3>1, BindHandles
  <2>3. ASSUME NEW e \in RequestEpochs, NEW id \in SessionIds,
               NEW n \in Sequences, beginPublication(t, e, id, n)
        PROVE  HandlesSound'
    <3>1. beginPublicationLocked(t, e, id, n)
      BY <2>3 DEF beginPublication
    <3>2. e \in Nat /\ id \in Nat \ {0} /\ n \in Nat
      BY CallersPresentNumbers
    <3> QED BY <1>1, <1>2, <1>3, <1>8, <3>1, <3>2, BeginHandles
  <2>4. ASSUME NEW e \in RequestEpochs, NEW id \in SessionIds,
               NEW n \in Sequences,
               closePublicationSessionAndRelease(t, e, id, n)
        PROVE  HandlesSound'
    BY <1>5, <1>8, <2>4 DEF closePublicationSessionAndRelease, SessionAt
  <2> QED BY <1>8, <2>1, <2>2, <2>3, <2>4
<1>9. ASSUME NEW t \in Receipts, NEW e \in RequestEpochs, NEW id \in SessionIds,
             NEW n \in Sequences, ~leaseTreeBlocksSessionClose(t.slot),
             closePublicationSession(t, e, id, n)
      PROVE  HandlesSound'
  <2>1. t \in Receipt /\ t.slot \in Slots
    BY <1>2, KindsApart
  <2>2. roots[t.slot].pending.kind = "none"
    BY <1>9, <2>1, SlotFields
       DEF leaseTreeBlocksSessionClose, hasActiveLeaseTree
  <2> QED BY <1>1, <1>9, <2>1, <2>2, BindHandles
<1>10. CASE \E t \in Permits :
              commitPublicationAssumeValid(t) \/ abortPublication(t)
  BY <1>1, <1>10, PermitHandles
<1> QED BY <1>6, <1>7, <1>8, <1>9, <1>10 DEF ReceiptStep

\* So do the publication operations over a tree.
LEMMA BindTreeHandles ==
    ASSUME TreeInv, TreeInv', HandlesSound, NEW t \in Trees, NEW e \in Nat,
           NEW id \in Nat \ {0}, NEW n \in Nat,
           \/ bindPublicationSessionWithLeaseTree(t, e, id)
           \/ beginPublicationWithLeaseTree(t, e, id, n)
    PROVE  HandlesSound'
<1>1. /\ validateLeaseTree(t) /\ t.root.pending.kind = "none"
      /\ UNCHANGED treeVars
      /\ \/ bindPublicationSessionLocked(t.parent, e, id)
         \/ beginPublicationLocked(t.parent, e, id, n)
  BY DEF bindPublicationSessionWithLeaseTree, beginPublicationWithLeaseTree
<1>2. PICK r : r = t.parent
  OBVIOUS
<1>3. /\ r \in Receipt /\ roots[r.slot].pending.kind = "none"
      /\ \/ bindPublicationSessionLocked(r, e, id)
         \/ beginPublicationLocked(r, e, id, n)
  BY <1>1, <1>2, TreeAccepted
<1>4. r \in issued
  <2>1. StandsNow(r)
    BY <1>1, <1>2, <1>3, SlotStands DEF validateLeaseTree, validateReceipt
  <2> QED BY <1>3, <2>1 DEF HandlesSound, Token
<1> QED BY <1>1, <1>3, <1>4, BindHandles, BeginHandles

-----------------------------------------------------------------------------
(* What a root names.                                                      *)

\* The tree handle of the root of slot i, and the decision pending on it.
RootHandles(S, R, i) ==
    {t \in TreeToken : t.parent.slot = i /\ TreeStands(S, R, t)}
      \union {t \in DecisionToken : t.parent.slot = i /\ DecisionStands(S, R, t)}

\* The handle that was returned for the decision pending on a root.
DecisionOf(r, root, s) ==
    IF root.pending.kind = "none" THEN {}
    ELSE {DecisionAt(DecisionOn(root.pending.kind), r, root, s)}

\* A handle of a decision has the fields it is made of.
LEMMA DecisionFields ==
    ASSUME NEW r \in Receipt, NEW root \in ActiveRoot, NEW s \in Slot,
           root.pending.kind # "none"
    PROVE  /\ DecisionOn(root.pending.kind) \in {"batch", "ticket", "free"}
           /\ DecisionAt(DecisionOn(root.pending.kind), r, root, s)
                 \in DecisionToken
<1>1. root \in Root
  BY DEF ActiveRoot
<1>2. root.pending.kind \in {"none", "allocation", "retire", "free"}
  BY <1>1 DEF Root, Pending
<1>3. DecisionOn(root.pending.kind) \in {"batch", "ticket", "free"}
  BY <1>2 DEF DecisionOn
<1> DEFINE kind == DecisionOn(root.pending.kind)
<1>4. s.requestEpoch \in Nat /\ s.sessionId \in Nat /\ s.nextSequence \in Nat
  BY DEF Slot
<1>5. kind = DecisionOn(root.pending.kind) /\ kind \in {"batch", "ticket", "free"}
  BY <1>3
<1> HIDE DEF kind
<1>6. DecisionAt(kind, r, root, s) \in DecisionToken
  BY <1>4, <1>5 DEF DecisionAt, DecisionToken
<1> QED BY <1>3, <1>6 DEF kind

\* A root of a committed receipt names those two handles and no other.
LEMMA RootNames ==
    ASSUME NEW S, NEW R, NEW r \in Receipt, Committed(S, r),
           R[r.slot] \in ActiveRoot, S[r.slot] \in Slot
    PROVE  RootHandles(S, R, r.slot) =
             {TreeAt(r, R[r.slot])} \union DecisionOf(r, R[r.slot], S[r.slot])
<1> DEFINE root == R[r.slot]
           s == S[r.slot]
<1>1. TreeAt(r, root) \in TreeToken /\ TreeStands(S, R, TreeAt(r, root))
  BY DEF TreeAt, TreeToken, TreeStands
<1>2. ASSUME NEW t \in TreeToken, t.parent.slot = r.slot, TreeStands(S, R, t)
      PROVE  t = TreeAt(r, root)
  <2>1. t.parent = r
    BY <1>2, KindsApart, OneReceipt DEF TreeStands
  <2> QED BY <1>1, <1>2, <2>1, TokenExt DEF TreeAt, TreeStands
<1>3. ASSUME NEW t \in DecisionToken, t.parent.slot = r.slot,
             DecisionStands(S, R, t)
      PROVE  t \in DecisionOf(r, root, s)
  <2>1. t.parent = r /\ t.root = root
    BY <1>3, KindsApart, OneReceipt DEF DecisionStands, TreeStands
  <2>2. t.kind = DecisionOn(root.pending.kind) /\ root.pending.kind # "none"
    BY <2>1 DEF DecisionToken, DecisionOn
  <2>3. DecisionAt(t.kind, r, root, s) \in DecisionToken
    BY <2>2, DecisionFields
  <2>4. t = DecisionAt(t.kind, r, root, s)
    <3>1. InSession(s, t)
      BY <1>3, <2>1 DEF DecisionStands
    <3> QED BY <2>1, <2>3, <3>1, TokenExt DEF DecisionAt, InSession
  <2> QED BY <2>2, <2>4 DEF DecisionOf
<1>4. ASSUME NEW t \in DecisionOf(r, root, s)
      PROVE  t \in DecisionToken /\ t.parent.slot = r.slot
             /\ DecisionStands(S, R, t)
  <2>1. /\ root.pending.kind # "none"
        /\ t = DecisionAt(DecisionOn(root.pending.kind), r, root, s)
    BY <1>4 DEF DecisionOf
  <2>2. t \in DecisionToken
    BY <2>1, DecisionFields
  <2>3. /\ t.parent = r /\ t.root = root /\ t.requestEpoch = s.requestEpoch
        /\ t.sessionId = s.sessionId /\ t.sequence = s.nextSequence
    BY <2>1 DEF DecisionAt
  <2> QED BY <2>2, <2>3 DEF DecisionStands, TreeStands, InSession
<1>5. TreeAt(r, root).parent.slot = r.slot
  BY DEF TreeAt
<1> HIDE DEF root, s
<1>6. RootHandles(S, R, r.slot) = {TreeAt(r, root)} \union DecisionOf(r, root, s)
  BY <1>1, <1>2, <1>3, <1>4, <1>5 DEF RootHandles
<1> QED BY <1>6 DEF root, s

\* Without a committed receipt or an active root there is none.
LEMMA RootNamesNothing ==
    ASSUME NEW S, NEW R, NEW i,
           S[i].state # "committed" \/ R[i].state # "active"
    PROVE  RootHandles(S, R, i) = {}
BY DEF RootHandles, DecisionStands, TreeStands, Committed, TreeToken,
       DecisionToken, ActiveRoot

\* The root of slot i is new, has moved on, or is gone.
RootMoves(i) ==
    \/ roots'[i].state = "free"
    \/ /\ nextLeaseGeneration <= roots'[i].identity
       /\ roots'[i].identity < nextLeaseGeneration'
    \/ /\ roots[i].state = "active" /\ roots'[i].identity = roots[i].identity
       /\ roots[i].identity < nextLeaseGeneration
       /\ roots'[i].revision = roots[i].revision + 1

\* Then nobody was given the handles that it names now.
LEMMA RootsFresh ==
    ASSUME TreeInv, TreeInv', HandlesSound, NEW i \in Slots, RootMoves(i),
           nextLeaseGeneration <= nextLeaseGeneration'
    PROVE  /\ RootHandles(slots', roots', i) \intersect issued = {}
           /\ \A t \in RootHandles(slots', roots', i) : Behind(t)'
           /\ RootOnward(i)
<1>1. /\ roots[i] \in Root /\ roots'[i] \in Root
      /\ nextLeaseGeneration \in Nat /\ nextLeaseGeneration' \in Nat
  BY TreeAssumption DEF TreeInv, TreeTypes
<1>2. /\ roots[i].identity \in Nat /\ roots'[i].identity \in Nat
      /\ roots[i].revision \in Nat /\ roots'[i].revision \in Nat
  BY <1>1 DEF Root
<1>3. ASSUME NEW t \in RootHandles(slots', roots', i)
      PROVE  /\ t \in TreeToken \union DecisionToken /\ t.parent.slot = i
             /\ t.root = roots'[i] /\ roots'[i].state = "active"
  BY <1>3 DEF RootHandles, DecisionStands, TreeStands, TreeToken,
              DecisionToken, ActiveRoot
<1>4. ASSUME NEW t \in RootHandles(slots', roots', i), t \in issued
      PROVE  FALSE
  <2>1. Behind(t) /\ t \in TreeToken \union DecisionToken /\ t.parent.slot = i
        /\ t.root = roots'[i] /\ roots'[i].state = "active"
    BY <1>3, <1>4 DEF HandlesSound
  <2>2. /\ t.root.identity < nextLeaseGeneration
        /\ /\ roots[i].state = "active"
           /\ roots[i].identity = t.root.identity
           => t.root.revision <= roots[i].revision
    BY <2>1 DEF Behind
  <2> QED BY <1>1, <1>2, <2>1, <2>2 DEF RootMoves
<1>5. ASSUME NEW t \in RootHandles(slots', roots', i)
      PROVE  Behind(t)'
  <2>1. /\ t \in TreeToken \union DecisionToken /\ t.parent.slot = i
        /\ t.root = roots'[i] /\ roots'[i].state = "active"
    BY <1>3, <1>5
  <2>2. /\ t \notin Reservation /\ t \notin Receipt
        /\ t \notin PublicationPermit /\ t \notin NodeToken
        /\ t \notin PinToken
    BY <2>1, KindsApart
  <2>3. roots'[i].identity < nextLeaseGeneration'
    BY <1>1, <1>2, <2>1 DEF RootMoves
  <2> QED BY <1>2, <2>1, <2>2, <2>3 DEF Behind
<1>6. RootOnward(i)
  BY <1>1, <1>2 DEF RootMoves, RootOnward
<1> QED BY <1>4, <1>5, <1>6

-----------------------------------------------------------------------------
(* What nodes and pins name.                                               *)

PinHandles(r, P) == {PinAt(r, p, pins[p]) : p \in P}

\* Nodes of the tree in slot i go and come; the others keep their handles.
NodesTurn(i, gone, grown) ==
    /\ gone \subseteq NodesOf(i) /\ grown \subseteq FreeNodes
    /\ \A j \in gone : nodes'[j].state = "free"
    /\ \A j \in grown : /\ nodes'[j].state # "free" /\ nodes'[j].slot = i
                        /\ nextLeaseGeneration <= nodes'[j].generation
                        /\ nodes'[j].generation < nextLeaseGeneration'
    /\ \A j \in Nodes \ (gone \union grown) :
         \/ nodes'[j] = nodes[j]
         \/ /\ j \in NodesOf(i) /\ nodes'[j].state # "free"
            /\ nodes'[j].slot = i /\ nodes'[j].tree = nodes[j].tree
            /\ nodes'[j].generation = nodes[j].generation
            /\ nodes'[j].kind = nodes[j].kind

PinsTurn(i, gone, grown) ==
    /\ gone \subseteq PinsOf(i) /\ grown \subseteq PinSlots
    /\ \A p \in gone : pins'[p].state = "free"
    /\ \A p \in grown : /\ pins[p].state = "free"
                        /\ pins'[p].state = "active" /\ pins'[p].slot = i
                        /\ nextLeaseGeneration <= pins'[p].generation
                        /\ pins'[p].generation < nextLeaseGeneration'
    /\ \A p \in PinSlots \ (gone \union grown) : pins'[p] = pins[p]

\* They concern no other tree.
LEMMA TurnsStayInTree ==
    ASSUME NEW i, NEW G, NEW H, NEW P, NEW Q,
           NodesTurn(i, G, H), PinsTurn(i, P, Q)
    PROVE  NodesOnly(i) /\ PinsOnly(i)
<1>1. NodesOnly(i)
  <2>1. ASSUME NEW j \in Nodes
        PROVE  \/ nodes'[j] = nodes[j]
               \/ InTree(nodes[j], i) /\ InTree(nodes'[j], i)
    BY DEF NodesTurn, NodesOf, FreeNodes, InTree
  <2> QED BY <2>1 DEF NodesOnly
<1>2. PinsOnly(i)
  <2>1. ASSUME NEW p \in PinSlots
        PROVE  \/ pins'[p] = pins[p]
               \/ InTree(pins[p], i) /\ InTree(pins'[p], i)
    BY DEF PinsTurn, PinsOf, InTree
  <2> QED BY <2>1 DEF PinsOnly
<1> QED BY <1>1, <1>2

\* The handles of the nodes that go end, those of the nodes that come begin.
LEMMA NodeHandlesTurn ==
    ASSUME TreeInv, TreeInv', HandlesSound, NEW r \in Receipt, NEW i \in Slots,
           i = r.slot, Committed(slots, r), slots' = slots, NEW G, NEW H,
           NodesTurn(i, G, H)
    PROVE  LET old == LeafHandles(r, G)
               new == {NodeAt(r, j, nodes'[j]) : j \in H}
           IN  /\ old \subseteq NodeToken /\ new \subseteq NodeToken
               /\ \A t \in old \union new : t.parent = r
               /\ \A t \in old : StandsNow(t)
               /\ new \intersect issued = {} /\ \A t \in new : Behind(t)'
               /\ Turns(old, new, {t \in NodeToken : t.parent.slot = i})
<1> DEFINE old == LeafHandles(r, G)
           new == {NodeAt(r, j, nodes'[j]) : j \in H}
<1>1. /\ nodes \in [Nodes -> Node] /\ nodes' \in [Nodes -> Node]
      /\ nextLeaseGeneration \in Nat /\ nextLeaseGeneration' \in Nat
      /\ G \subseteq Nodes /\ H \subseteq Nodes
      /\ \A j \in G : nodes[j].state # "free" /\ nodes[j].slot = i
      /\ \A j \in H : nodes[j].state = "free"
  BY TreeAssumption DEF TreeInv, TreeTypes, NodesTurn, NodesOf, FreeNodes
<1>2. ASSUME NEW t \in old
      PROVE  /\ t \in NodeToken /\ t.parent = r /\ StandsNow(t)
             /\ t.index \in G
  <2>1. PICK j \in G : t = NodeAt(r, j, nodes[j])
    BY <1>2 DEF LeafHandles
  <2>2. t \in NodeToken
    BY <1>1, <2>1, NodeHandleType
  <2>3. NodeStands(slots, nodes, t)
    BY <1>1, <2>1 DEF NodeStands, NodeAt
  <2> QED BY <2>1, <2>2, <2>3, StandsByKind DEF StandsNow, NodeAt
<1>3. ASSUME NEW t \in new
      PROVE  /\ t \in NodeToken /\ t.parent = r /\ t.index \in H
             /\ NodeStands(slots', nodes', t)
             /\ nextLeaseGeneration <= t.generation
             /\ t.generation < nextLeaseGeneration'
  <2>1. PICK j \in H : t = NodeAt(r, j, nodes'[j])
    BY <1>3
  <2>2. t \in NodeToken
    BY <1>1, <2>1, NodeHandleType
  <2>3. NodeStands(slots', nodes', t)
    BY <1>1, <2>1 DEF NodeStands, NodeAt, NodesTurn, Committed
  <2> QED BY <2>1, <2>2, <2>3 DEF NodeAt, NodesTurn
<1>4. new \intersect issued = {}
  <2>1. ASSUME NEW t \in new, t \in issued PROVE FALSE
    <3>1. Behind(t) /\ t \in NodeToken
      BY <1>3, <2>1 DEF HandlesSound
    <3>2. t.generation < nextLeaseGeneration /\ t.generation \in Nat
      BY <3>1 DEF Behind, NodeToken
    <3> QED BY <1>1, <1>3, <2>1, <3>2
  <2> QED BY <2>1
<1>5. ASSUME NEW t \in new PROVE Behind(t)'
  <2>1. t \in NodeToken /\ t.generation < nextLeaseGeneration'
    BY <1>3, <1>5
  <2>2. /\ t \notin Reservation /\ t \notin Receipt
        /\ t \notin PublicationPermit /\ t \notin TreeToken
        /\ t \notin DecisionToken /\ t \notin PinToken
    BY <2>1, KindsApart
  <2> QED BY <2>1, <2>2 DEF Behind
<1>6. ASSUME NEW t \in NodeToken, t.parent.slot = i
      PROVE  StandsNow(t)' <=> (StandsNow(t) /\ t \notin old) \/ t \in new
  <2>1. /\ StandsNow(t) <=> NodeStands(slots, nodes, t)
        /\ StandsNow(t)' <=> NodeStands(slots', nodes', t)
        /\ t.index \in Nodes /\ t.parent \in Receipt
    BY StandsByKind DEF StandsNow, NodeToken
  <2>2. Committed(slots, t.parent) => t.parent = r
    BY <1>6, <2>1, OneReceipt
  <2>3. CASE t.index \in G
    <3>1. ~StandsNow(t)' /\ t \notin new
      BY <1>1, <1>3, <2>1, <2>3 DEF NodesTurn, NodeStands
    <3>2. ASSUME StandsNow(t) PROVE t \in old
      <4>1. /\ t.parent = r /\ nodes[t.index].tree = t.tree
            /\ nodes[t.index].generation = t.generation
            /\ nodes[t.index].kind = t.nodeKind
        BY <2>1, <2>2, <3>2 DEF NodeStands
      <4>2. NodeAt(r, t.index, nodes[t.index]) \in NodeToken
        BY <1>1, <2>1, NodeHandleType
      <4>3. t = NodeAt(r, t.index, nodes[t.index])
        BY <4>1, <4>2, TokenExt DEF NodeAt
      <4> QED BY <2>3, <4>3 DEF LeafHandles
    <3> QED BY <3>1, <3>2
  <2>4. CASE t.index \in H
    <3>1. ~StandsNow(t)
      BY <1>1, <2>1, <2>4 DEF NodeStands
    <3>2. ASSUME StandsNow(t)' PROVE t \in new
      <4>1. /\ t.parent = r /\ nodes'[t.index].tree = t.tree
            /\ nodes'[t.index].generation = t.generation
            /\ nodes'[t.index].kind = t.nodeKind
        BY <2>1, <2>2, <3>2 DEF NodeStands, Committed
      <4>2. NodeAt(r, t.index, nodes'[t.index]) \in NodeToken
        BY <1>1, <2>1, NodeHandleType
      <4>3. t = NodeAt(r, t.index, nodes'[t.index])
        BY <4>1, <4>2, TokenExt DEF NodeAt
      <4> QED BY <2>4, <4>3
    <3> QED BY <1>3, <2>1, <3>1, <3>2
  <2>5. CASE t.index \notin G \union H
    <3>1. t \notin old /\ t \notin new
      BY <1>2, <1>3, <2>5
    <3>2. NodeStands(slots', nodes', t) <=> NodeStands(slots, nodes, t)
      BY <1>6, <2>1, <2>5 DEF NodesTurn, NodeStands, NodesOf, Committed
    <3> QED BY <2>1, <3>1, <3>2
  <2> QED BY <2>3, <2>4, <2>5
<1> HIDE DEF old, new
<1>7. Turns(old, new, {t \in NodeToken : t.parent.slot = i})
  BY <1>6 DEF Turns
<1> QED BY <1>2, <1>3, <1>4, <1>5, <1>7 DEF old, new

\* So do those of pins.
LEMMA PinHandlesTurn ==
    ASSUME TreeInv, TreeInv', HandlesSound, NEW r \in Receipt, NEW i \in Slots,
           i = r.slot, Committed(slots, r), slots' = slots, NEW P, NEW Q,
           PinsTurn(i, P, Q)
    PROVE  LET old == PinHandles(r, P)
               new == {PinAt(r, p, pins'[p]) : p \in Q}
           IN  /\ old \subseteq PinToken /\ new \subseteq PinToken
               /\ \A t \in old \union new : t.parent = r
               /\ \A t \in old : StandsNow(t)
               /\ new \intersect issued = {} /\ \A t \in new : Behind(t)'
               /\ Turns(old, new, {t \in PinToken : t.parent.slot = i})
<1> DEFINE old == PinHandles(r, P)
           new == {PinAt(r, p, pins'[p]) : p \in Q}
<1>1. /\ pins \in [PinSlots -> Pin] /\ pins' \in [PinSlots -> Pin]
      /\ nextLeaseGeneration \in Nat /\ nextLeaseGeneration' \in Nat
      /\ P \subseteq PinSlots /\ Q \subseteq PinSlots
      /\ \A p \in P : pins[p].state = "active" /\ pins[p].slot = i
      /\ \A p \in Q : pins[p].state = "free"
  BY TreeAssumption DEF TreeInv, TreeTypes, PinsTurn, PinsOf
<1>2. ASSUME NEW t \in old
      PROVE  /\ t \in PinToken /\ t.parent = r /\ StandsNow(t)
             /\ t.index \in P
  <2>1. PICK p \in P : t = PinAt(r, p, pins[p])
    BY <1>2 DEF PinHandles
  <2>2. t \in PinToken
    BY <1>1, <2>1 DEF PinAt, PinToken
  <2>3. PinStands(slots, pins, t)
    BY <1>1, <2>1 DEF PinStands, PinAt
  <2> QED BY <2>1, <2>2, <2>3, StandsByKind DEF StandsNow, PinAt
<1>3. ASSUME NEW t \in new
      PROVE  /\ t \in PinToken /\ t.parent = r /\ t.index \in Q
             /\ PinStands(slots', pins', t)
             /\ nextLeaseGeneration <= t.pin.generation
             /\ t.pin.generation < nextLeaseGeneration'
  <2>1. PICK p \in Q : t = PinAt(r, p, pins'[p])
    BY <1>3
  <2>2. t \in PinToken
    BY <1>1, <2>1 DEF PinAt, PinToken, PinsTurn
  <2>3. PinStands(slots', pins', t)
    BY <1>1, <2>1 DEF PinStands, PinAt, Committed
  <2> QED BY <2>1, <2>2, <2>3 DEF PinAt, PinsTurn
<1>4. new \intersect issued = {}
  <2>1. ASSUME NEW t \in new, t \in issued PROVE FALSE
    <3>1. Behind(t) /\ t \in PinToken
      BY <1>3, <2>1 DEF HandlesSound
    <3>2. t.pin.generation < nextLeaseGeneration /\ t.pin.generation \in Nat
      BY <3>1 DEF Behind, PinToken, Pin
    <3> QED BY <1>1, <1>3, <2>1, <3>2
  <2> QED BY <2>1
<1>5. ASSUME NEW t \in new PROVE Behind(t)'
  <2>1. t \in PinToken /\ t.pin.generation < nextLeaseGeneration'
    BY <1>3, <1>5
  <2>2. /\ t \notin Reservation /\ t \notin Receipt
        /\ t \notin PublicationPermit /\ t \notin TreeToken
        /\ t \notin DecisionToken /\ t \notin NodeToken
    BY <2>1, KindsApart
  <2> QED BY <2>1, <2>2 DEF Behind
<1>6. ASSUME NEW t \in PinToken, t.parent.slot = i
      PROVE  StandsNow(t)' <=> (StandsNow(t) /\ t \notin old) \/ t \in new
  <2>1. /\ StandsNow(t) <=> PinStands(slots, pins, t)
        /\ StandsNow(t)' <=> PinStands(slots', pins', t)
        /\ t.index \in PinSlots /\ t.parent \in Receipt
        /\ t.pin.state = "active"
    BY StandsByKind DEF StandsNow, PinToken
  <2>2. Committed(slots, t.parent) => t.parent = r
    BY <1>6, <2>1, OneReceipt
  <2>3. CASE t.index \in P
    <3>1. ~StandsNow(t)' /\ t \notin new
      BY <1>1, <1>3, <2>1, <2>3 DEF PinsTurn, PinStands
    <3>2. ASSUME StandsNow(t) PROVE t \in old
      <4>1. t.parent = r /\ pins[t.index] = t.pin
        BY <2>1, <2>2, <3>2 DEF PinStands
      <4>2. PinAt(r, t.index, pins[t.index]) \in PinToken
        BY <1>1, <2>3 DEF PinAt, PinToken
      <4>3. t = PinAt(r, t.index, pins[t.index])
        BY <4>1, <4>2, TokenExt DEF PinAt
      <4> QED BY <2>3, <4>3 DEF PinHandles
    <3> QED BY <3>1, <3>2
  <2>4. CASE t.index \in Q
    <3>1. ~StandsNow(t)
      BY <1>1, <2>1, <2>4 DEF PinStands
    <3>2. ASSUME StandsNow(t)' PROVE t \in new
      <4>1. t.parent = r /\ pins'[t.index] = t.pin
        BY <2>1, <2>2, <3>2 DEF PinStands, Committed
      <4>2. PinAt(r, t.index, pins'[t.index]) \in PinToken
        BY <1>1, <2>4 DEF PinAt, PinToken, PinsTurn
      <4>3. t = PinAt(r, t.index, pins'[t.index])
        BY <4>1, <4>2, TokenExt DEF PinAt
      <4> QED BY <2>4, <4>3
    <3> QED BY <1>3, <2>1, <3>1, <3>2
  <2>5. CASE t.index \notin P \union Q
    <3>1. t \notin old /\ t \notin new
      BY <1>2, <1>3, <2>5
    <3>2. PinStands(slots', pins', t) <=> PinStands(slots, pins, t)
      BY <1>6, <2>1, <2>5 DEF PinsTurn, PinStands, Committed
    <3> QED BY <2>1, <3>1, <3>2
  <2> QED BY <2>3, <2>4, <2>5
<1> HIDE DEF old, new
<1>7. Turns(old, new, {t \in PinToken : t.parent.slot = i})
  BY <1>6 DEF Turns
<1> QED BY <1>2, <1>3, <1>4, <1>5, <1>7 DEF old, new

-----------------------------------------------------------------------------
(* Steps that leave the slots alone.                                       *)

\* A step on the tree of slot i keeps the handles sound if it ends those that
\* the root named and begins those that it names now, and settles those of
\* nodes and pins.
LEMMA TreeChangeHandles ==
    ASSUME TreeInv, TreeInv', HandlesSound, NEW r \in Receipt, NEW i \in Slots,
           i = r.slot, Committed(slots, r), slots' = slots,
           \A k \in Slots \ {i} : roots'[k] = roots[k],
           nextGeneration' = nextGeneration,
           nextLeaseGeneration <= nextLeaseGeneration', RootMoves(i),
           roots'[i].pending.kind = "none" \/ slots[i].publication = "idle",
           NEW G, NEW H, NodesTurn(i, G, H), NEW P, NEW Q, PinsTurn(i, P, Q),
           Exchange(RootHandles(slots, roots, i) \union LeafHandles(r, G)
                      \union PinHandles(r, P),
                    RootHandles(slots', roots', i)
                      \union {NodeAt(r, j, nodes'[j]) : j \in H}
                      \union {PinAt(r, p, pins'[p]) : p \in Q})
    PROVE  HandlesSound'
<1> DEFINE oldR == RootHandles(slots, roots, i)
           newR == RootHandles(slots', roots', i)
           oldN == LeafHandles(r, G)
           newN == {NodeAt(r, j, nodes'[j]) : j \in H}
           oldP == PinHandles(r, P)
           newP == {PinAt(r, p, pins'[p]) : p \in Q}
           old == oldR \union oldN \union oldP
           new == newR \union newN \union newP
<1>1. Exchange(old, new) /\ NodesOnly(i) /\ PinsOnly(i)
  BY TurnsStayInTree
<1>2. /\ oldN \subseteq NodeToken /\ newN \subseteq NodeToken
      /\ \A t \in oldN \union newN : t.parent = r
      /\ \A t \in oldN : StandsNow(t)
      /\ newN \intersect issued = {} /\ \A t \in newN : Behind(t)'
      /\ Turns(oldN, newN, {t \in NodeToken : t.parent.slot = i})
  BY NodeHandlesTurn
<1>3. /\ oldP \subseteq PinToken /\ newP \subseteq PinToken
      /\ \A t \in oldP \union newP : t.parent = r
      /\ \A t \in oldP : StandsNow(t)
      /\ newP \intersect issued = {} /\ \A t \in newP : Behind(t)'
      /\ Turns(oldP, newP, {t \in PinToken : t.parent.slot = i})
  BY PinHandlesTurn
<1>4. /\ newR \intersect issued = {} /\ \A t \in newR : Behind(t)'
      /\ RootOnward(i)
  BY RootsFresh
<1>5. /\ \A t \in oldR \union newR : /\ t \in TreeToken \union DecisionToken
                                     /\ t.parent.slot = i
      /\ \A t \in TreeToken \union DecisionToken : t.parent.slot = i =>
           /\ StandsNow(t) <=> t \in oldR
           /\ StandsNow(t)' <=> t \in newR
  <2>1. \A t \in TreeToken : /\ StandsNow(t) <=> TreeStands(slots, roots, t)
                             /\ StandsNow(t)' <=> TreeStands(slots', roots', t)
    BY StandsByKind DEF StandsNow
  <2>2. \A t \in DecisionToken :
          /\ StandsNow(t) <=> DecisionStands(slots, roots, t)
          /\ StandsNow(t)' <=> DecisionStands(slots', roots', t)
    BY StandsByKind DEF StandsNow
  <2>3. \A t \in TreeToken : t \notin DecisionToken
    BY KindsApart
  <2> QED BY <2>1, <2>2, <2>3 DEF RootHandles
<1> HIDE DEF oldR, newR, oldN, newN, oldP, newP
<1>6. \A t \in OnTree :
        /\ t \in TreeToken \union DecisionToken =>
              t \notin NodeToken /\ t \notin PinToken
        /\ t \in NodeToken => t \notin PinToken
  BY KindsApart DEF OnTree
<1>7. old \subseteq AtTree(i) /\ new \subseteq AtTree(i)
  BY <1>2, <1>3, <1>5 DEF AtTree, OnTree
<1>8. \A t \in old : StandsNow(t)
  BY <1>2, <1>3, <1>5
<1>9. new \intersect issued = {} /\ \A t \in new : Behind(t)'
  BY <1>2, <1>3, <1>4
<1>10. ASSUME NEW t \in AtTree(i)
       PROVE  StandsNow(t)' <=> (StandsNow(t) /\ t \notin old) \/ t \in new
  <2>1. t \in OnTree /\ t.parent.slot = i
    BY <1>10 DEF AtTree
  <2>2. CASE t \in TreeToken \union DecisionToken
    BY <1>2, <1>3, <1>5, <1>6, <2>1, <2>2
  <2>3. CASE t \in NodeToken
    <3>1. StandsNow(t)' <=> (StandsNow(t) /\ t \notin oldN) \/ t \in newN
      BY <1>2, <2>1, <2>3 DEF Turns
    <3> QED BY <1>3, <1>5, <1>6, <2>1, <2>3, <3>1
  <2>4. CASE t \in PinToken
    <3>1. StandsNow(t)' <=> (StandsNow(t) /\ t \notin oldP) \/ t \in newP
      BY <1>3, <2>1, <2>4 DEF Turns
    <3> QED BY <1>2, <1>5, <1>6, <2>1, <2>4, <3>1
  <2> QED BY <2>1, <2>2, <2>3, <2>4 DEF OnTree
<1> HIDE DEF old, new
<1>11. ASSUME NEW t \in AtSlot(i)
       PROVE  (StandsNow(t)' <=> StandsNow(t)) /\ t \notin old /\ t \notin new
  <2>1. t \in BankToken
    BY <1>11 DEF AtSlot, BankToken
  <2>2. t \notin old /\ t \notin new
    BY <1>7, <2>1, BankOrTree DEF AtTree
  <2>3. StandsNow(t)' <=> StandsNow(t)
    <3>1. \A u \in Reservation : StandsNow(u)' <=> StandsNow(u)
      BY StandsByKind DEF StandsNow
    <3>2. \A u \in Receipt : StandsNow(u)' <=> StandsNow(u)
      BY StandsByKind DEF StandsNow
    <3>3. \A u \in PublicationPermit : StandsNow(u)' <=> StandsNow(u)
      BY StandsByKind DEF StandsNow
    <3> QED BY <2>1, <3>1, <3>2, <3>3 DEF BankToken
  <2> QED BY <2>2, <2>3
<1>12. Turns(old, new, HandlesAt(i))
  BY <1>10, <1>11 DEF Turns, HandlesAt
<1>13. /\ SlotOnward(i) /\ nextGeneration <= nextGeneration'
       /\ SessionSound(i)'
  <2>1. slots[i].permitGeneration \in Nat /\ nextGeneration \in Nat
        /\ slots[i].publication \in {"idle", "active"}
    BY SlotFields
  <2>2. SessionSound(i)
    BY DEF HandlesSound
  <2> QED BY <2>1, <2>2 DEF SlotOnward, SessionSound
<1>14. old \subseteq HandlesAt(i) /\ new \subseteq HandlesAt(i)
  BY <1>7 DEF HandlesAt
<1>15. \A k \in Slots \ {i} : slots'[k] = slots[k] /\ roots'[k] = roots[k]
  OBVIOUS
<1> QED BY <1>1, <1>4, <1>8, <1>9, <1>12, <1>13, <1>14, <1>15,
           SlotStepHandles

\* The identity of a live tree was taken from the counter.
LEMMA LiveIdentity ==
    ASSUME TreeInv, HandlesSound, NEW r \in Receipt, Committed(slots, r),
           roots[r.slot] \in ActiveRoot
    PROVE  roots[r.slot].identity < nextLeaseGeneration
<1>1. PICK t : t = TreeAt(r, roots[r.slot])
  OBVIOUS
<1>2. t \in TreeToken /\ TreeStands(slots, roots, t) /\ t.root = roots[r.slot]
  BY <1>1 DEF TreeAt, TreeToken, TreeStands
<1>3. StandsNow(t)
  BY <1>2, StandsByKind DEF StandsNow
<1>4. Behind(t)
  BY <1>2, <1>3 DEF HandlesSound, Token
<1> QED BY <1>2, <1>4 DEF Behind

\* The same for the steps that move the root on.
LEMMA AdvanceHandles ==
    ASSUME TreeInv, TreeInv', HandlesSound, NEW r \in Receipt, NEW i \in Slots,
           i = r.slot, Committed(slots, r), slots' = slots,
           nextGeneration' = nextGeneration,
           nextLeaseGeneration <= nextLeaseGeneration',
           roots[i] \in ActiveRoot, NEW root \in ActiveRoot, NEW g \in Nat,
           root.identity = roots[i].identity,
           root.revision = roots[i].revision,
           root.pending.kind = "none" \/ slots[i].publication = "idle",
           NEW G, NEW H, NodesTurn(i, G, H), NEW P, NEW Q, PinsTurn(i, P, Q),
           NEW old, NEW new, AdvanceTree(r, root, g, old, new),
           old = DecisionOf(r, roots[i], slots[i]) \union LeafHandles(r, G)
                   \union PinHandles(r, P),
           new = DecisionOf(r, Advanced(root, g), slots[i])
                   \union {NodeAt(r, j, nodes'[j]) : j \in H}
                   \union {PinAt(r, p, pins'[p]) : p \in Q}
    PROVE  HandlesSound'
<1> DEFINE next == [root EXCEPT !.generation = g, !.revision = @ + 1]
<1>1. /\ next = Advanced(root, g) /\ roots' = [roots EXCEPT ![i] = next]
      /\ Exchange({TreeAt(r, roots[i])} \union old,
                  {TreeAt(r, next)} \union new)
  BY DEF AdvanceTree, Advanced
<1> HIDE DEF next
<1>2. /\ roots \in [Slots -> Root] /\ slots[i] \in Slot /\ root \in Root
  BY DEF TreeInv, TreeTypes, ActiveRoot
<1>3. /\ roots'[i] = Advanced(root, g)
      /\ \A k \in Slots \ {i} : roots'[k] = roots[k]
  BY <1>1, <1>2
<1>4. /\ Advanced(root, g) \in ActiveRoot
      /\ Advanced(root, g).pending = root.pending
      /\ Advanced(root, g).identity = root.identity
      /\ Advanced(root, g).revision = root.revision + 1
  BY <1>2, AdvancedType, AdvancedFields
<1>5. RootHandles(slots, roots, i) =
        {TreeAt(r, roots[i])} \union DecisionOf(r, roots[i], slots[i])
  BY <1>2, RootNames
<1>6. RootHandles(slots', roots', i) =
        {TreeAt(r, next)} \union DecisionOf(r, Advanced(root, g), slots[i])
  <2>1. Committed(slots', r) /\ roots'[r.slot] \in ActiveRoot
        /\ slots'[r.slot] \in Slot
    BY <1>2, <1>3, <1>4 DEF Committed
  <2>2. RootHandles(slots', roots', r.slot) =
          {TreeAt(r, roots'[r.slot])}
            \union DecisionOf(r, roots'[r.slot], slots'[r.slot])
    BY <2>1, RootNames
  <2> QED BY <1>1, <1>3, <2>2
<1>7. Exchange(RootHandles(slots, roots, i) \union LeafHandles(r, G)
                 \union PinHandles(r, P),
               RootHandles(slots', roots', i)
                 \union {NodeAt(r, j, nodes'[j]) : j \in H}
                 \union {PinAt(r, p, pins'[p]) : p \in Q})
  <2>1. {TreeAt(r, roots[i])} \union old =
          RootHandles(slots, roots, i) \union LeafHandles(r, G)
            \union PinHandles(r, P)
    BY <1>5
  <2>2. {TreeAt(r, next)} \union new =
          RootHandles(slots', roots', i)
            \union {NodeAt(r, j, nodes'[j]) : j \in H}
            \union {PinAt(r, p, pins'[p]) : p \in Q}
    BY <1>6
  <2> QED BY <1>1, <2>1, <2>2
<1>8. RootMoves(i)
  <2>1. roots[i].identity < nextLeaseGeneration
    BY LiveIdentity
  <2>2. roots[i].state = "active"
    BY DEF ActiveRoot
  <2> QED BY <1>3, <1>4, <2>1, <2>2 DEF RootMoves
<1>9. roots'[i].pending.kind = "none" \/ slots[i].publication = "idle"
  BY <1>3, <1>4
<1> QED BY <1>3, <1>7, <1>8, <1>9, TreeChangeHandles

-----------------------------------------------------------------------------
(* The actions on trees.                                                   *)

\* Nothing that goes or comes needs a handle.
LEMMA NoLeases ==
    ASSUME NEW r
    PROVE  /\ LeafHandles(r, {}) = {} /\ PinHandles(r, {}) = {}
           /\ {NodeAt(r, j, nodes'[j]) : j \in {}} = {}
           /\ {PinAt(r, p, pins'[p]) : p \in {}} = {}
BY DEF LeafHandles, PinHandles

\* Pins that nobody touches.
LEMMA PinsStay == ASSUME NEW i, pins' = pins PROVE PinsTurn(i, {}, {})
BY DEF PinsTurn

\* What is known of a receipt whose tree was accepted.
LEMMA TreeHeld ==
    ASSUME TreeInv, NEW t \in Trees, validateLeaseTree(t),
           t.root.pending.kind = "none"
    PROVE  /\ t.parent \in Receipt /\ t.parent.slot \in Slots
           /\ Committed(slots, t.parent)
           /\ roots[t.parent.slot] = t.root /\ t.root \in ActiveRoot
           /\ DecisionOf(t.parent, roots[t.parent.slot],
                         slots[t.parent.slot]) = {}
BY TreeAccepted DEF validateLeaseTree, validateReceipt, Committed, DecisionOf

\* The decision that was accepted is the one the root names.
LEMMA DecisionHeld ==
    ASSUME TreeInv, NEW t \in Batches \union Tickets \union FreePermits,
           validateDecision(t)
    PROVE  /\ Committed(slots, t.parent)
           /\ DecisionOf(t.parent, roots[t.parent.slot],
                         slots[t.parent.slot]) = {t}
           /\ slots[t.parent.slot].publication = "idle"
<1> DEFINE i == t.parent.slot
<1>1. /\ t.parent \in Receipt /\ roots[i] = t.root /\ t.root \in ActiveRoot
      /\ slots[i] \in Slot /\ t.kind = DecisionOn(t.root.pending.kind)
  BY DecisionAccepted
<1>2. /\ Committed(slots, t.parent) /\ slots[i].publication = "idle"
      /\ InSession(slots[i], t)
  BY DEF validateDecision, validateReceipt, Committed, SessionAt, InSession
<1>3. t \in DecisionToken
  BY TokenKinds DEF TreeInv
<1>4. t.root.pending.kind # "none"
  BY <1>3 DEF DecisionToken, DecisionOn
<1>5. DecisionAt(t.kind, t.parent, t.root, slots[i]) \in DecisionToken
  BY <1>1, <1>4, DecisionFields
<1>6. DecisionAt(t.kind, t.parent, t.root, slots[i]) = t
  BY <1>2, <1>3, <1>5, TokenExt DEF DecisionAt, InSession
<1>7. DecisionOf(t.parent, roots[i], slots[i]) = {t}
  BY <1>1, <1>4, <1>6 DEF DecisionOf
<1> QED BY <1>2, <1>7

\* The first handle of a new tree carries an identity that never was.
LEMMA OpenTreeHandles ==
    ASSUME TreeInv, TreeInv', HandlesSound, NEW t \in Receipts,
           NEW c \in Ceilings, NEW f \in FundingModes,
           openLeaseTreeWithFundingMode(t, c, f)
    PROVE  HandlesSound'
<1>1. PICK root : root = [FreeRoot EXCEPT !.state = "active",
                                 !.identity = nextLeaseGeneration,
                                 !.generation = nextLeaseGeneration + 1,
                                 !.revision = 1,
                                 !.ceiling = c,
                                 !.funding = f]
  OBVIOUS
<1>2. /\ validateReceipt(t) /\ ~hasActiveLeaseTree(t.slot)
      /\ reserveLeaseGenerations(2)
      /\ roots' = [roots EXCEPT ![t.slot] = root]
      /\ Exchange({}, {TreeAt(t, root)})
      /\ UNCHANGED <<bankVars, nodes, pins>>
  BY <1>1 DEF openLeaseTreeWithFundingMode
<1>3. t \in Receipt /\ t.slot \in Slots /\ Committed(slots, t)
  BY <1>2, TokenKinds, KindsApart DEF TreeInv, validateReceipt, Committed
<1>4. PICK i \in Slots : i = t.slot
  BY <1>3
<1>5. /\ slots' = slots /\ nodes' = nodes /\ pins' = pins
      /\ nextGeneration' = nextGeneration
      /\ nextLeaseGeneration' = nextLeaseGeneration + 2
      /\ nextLeaseGeneration \in Nat
      /\ roots'[i] = root /\ \A k \in Slots \ {i} : roots'[k] = roots[k]
  BY <1>2, <1>4, TreeAssumption
     DEF bankVars, reserveLeaseGenerations, TreeInv, TreeTypes
<1>6. /\ root.state = "active" /\ root.identity = nextLeaseGeneration
      /\ root.pending.kind = "none"
  BY <1>1 DEF FreeRoot, NothingPending
<1>7. root \in ActiveRoot /\ slots'[i] \in Slot
  BY <1>5, <1>6 DEF TreeInv, TreeTypes, ActiveRoot
<1>8. RootHandles(slots, roots, i) = {}
  BY <1>2, <1>4, RootNamesNothing DEF hasActiveLeaseTree
<1>9. RootHandles(slots', roots', i) = {TreeAt(t, root)}
  <2>1. Committed(slots', t)
    BY <1>3, <1>5 DEF Committed
  <2>2. RootHandles(slots', roots', i) =
          {TreeAt(t, roots'[i])} \union DecisionOf(t, roots'[i], slots'[i])
    BY <1>3, <1>4, <1>5, <1>7, <2>1, RootNames
  <2> QED BY <1>5, <1>6, <2>2 DEF DecisionOf
<1>10. NodesTurn(i, {}, {}) /\ PinsTurn(i, {}, {})
  BY <1>5, PinsStay DEF NodesTurn
<1>11. RootMoves(i)
  BY <1>5, <1>6 DEF RootMoves
<1>12. Exchange(RootHandles(slots, roots, i) \union LeafHandles(t, {})
                  \union PinHandles(t, {}),
                RootHandles(slots', roots', i)
                  \union {NodeAt(t, j, nodes'[j]) : j \in {}}
                  \union {PinAt(t, p, pins'[p]) : p \in {}})
  BY <1>2, <1>8, <1>9, NoLeases
<1>13. /\ nextLeaseGeneration <= nextLeaseGeneration'
       /\ roots'[i].pending.kind = "none"
  BY <1>5, <1>6
<1> QED BY <1>3, <1>4, <1>5, <1>10, <1>11, <1>12, <1>13, TreeChangeHandles

\* The handle of a new scope carries a generation that never was.
LEMMA OpenScopeHandles ==
    ASSUME TreeInv, TreeInv', HandlesSound, NEW t \in Trees, NEW key \in Keys,
           NEW c \in Ceilings, openLeaseScope(t, key, c)
    PROVE  HandlesSound'
<1>1. PICK i : i = t.parent.slot
  OBVIOUS
<1>2. PICK g : g = nextLeaseGeneration
  OBVIOUS
<1>3. PICK node : node = [FreeNode EXCEPT !.state = "live", !.slot = i,
                                    !.tree = t.root.identity,
                                    !.generation = g,
                                    !.key = key, !.ceiling = c]
  OBVIOUS
<1>4. /\ validateLeaseTree(t) /\ t.root.pending.kind = "none"
      /\ reserveLeaseGenerations(2) /\ UNCHANGED <<bankVars, pins>>
  BY DEF openLeaseScope
<1>5. PICK j \in FreeNodes :
        /\ nodes' = [nodes EXCEPT ![j] = node]
        /\ AdvanceTree(t.parent, t.root, g + 1, {},
                       {NodeAt(t.parent, j, node)})
  BY <1>1, <1>2, <1>3 DEF openLeaseScope
<1>6. /\ t.parent \in Receipt /\ i \in Slots /\ Committed(slots, t.parent)
      /\ roots[i] = t.root /\ t.root \in ActiveRoot
      /\ DecisionOf(t.parent, roots[i], slots[i]) = {}
  BY <1>1, <1>4, TreeHeld
<1>7. /\ slots' = slots /\ pins' = pins /\ nextGeneration' = nextGeneration
      /\ nextLeaseGeneration' = g + 2 /\ g \in Nat
      /\ nodes \in [Nodes -> Node] /\ j \in Nodes
  BY <1>2, <1>4, <1>5, TreeAssumption
     DEF bankVars, reserveLeaseGenerations, TreeInv, TreeTypes, FreeNodes
<1>8. /\ nodes'[j] = node /\ \A k \in Nodes \ {j} : nodes'[k] = nodes[k]
      /\ node.state = "live" /\ node.slot = i /\ node.generation = g
  BY <1>3, <1>5, <1>7 DEF FreeNode
<1>9. NodesTurn(i, {}, {j}) /\ PinsTurn(i, {}, {})
  BY <1>2, <1>5, <1>7, <1>8, PinsStay DEF NodesTurn
<1>10. DecisionOf(t.parent, Advanced(t.root, g + 1), slots[i]) = {}
  BY <1>4, <1>6, <1>7, AdvancedType DEF DecisionOf
<1>11. /\ {} = DecisionOf(t.parent, roots[i], slots[i])
                \union LeafHandles(t.parent, {}) \union PinHandles(t.parent, {})
       /\ {NodeAt(t.parent, j, node)} =
             DecisionOf(t.parent, Advanced(t.root, g + 1), slots[i])
                \union {NodeAt(t.parent, k, nodes'[k]) : k \in {j}}
                \union {PinAt(t.parent, p, pins'[p]) : p \in {}}
  BY <1>6, <1>8, <1>10, NoLeases
<1>12. g + 1 \in Nat /\ nextLeaseGeneration <= nextLeaseGeneration'
  BY <1>2, <1>7
<1>13. PICK new : new = {NodeAt(t.parent, j, node)}
  OBVIOUS
<1>14. PICK old : old = {}
  OBVIOUS
<1> QED BY <1>1, <1>4, <1>5, <1>6, <1>7, <1>9, <1>11, <1>12, <1>13, <1>14,
           AdvanceHandles

\* A decision that only moves its leaves ends with the handle it was taken by.
LEMMA SettleHandles ==
    ASSUME TreeInv, TreeInv', HandlesSound,
           NEW t \in Batches \union Tickets \union FreePermits,
           validateDecision(t), NEW i \in Slots, i = t.parent.slot,
           NEW state \in {"live", "quiescing", "free_authorized"},
           NEW pending \in Nat, SettleLeaves(i, state, pending),
           NEW root \in ActiveRoot, root.identity = t.root.identity,
           root.revision = t.root.revision, NEW g \in Nat, NEW old, old = {t},
           NEW new, new = DecisionOf(t.parent, Advanced(root, g), slots[i]),
           AdvanceTree(t.parent, root, g, old, new),
           UNCHANGED <<bankVars, pins, generationVars>>
    PROVE  HandlesSound'
<1>1. /\ t.parent \in Receipt /\ roots[i] = t.root /\ t.root \in ActiveRoot
      /\ Committed(slots, t.parent)
      /\ DecisionOf(t.parent, roots[i], slots[i]) = {t}
      /\ slots[i].publication = "idle"
  BY DecisionAccepted, DecisionHeld
<1>2. /\ slots' = slots /\ pins' = pins /\ nextGeneration' = nextGeneration
      /\ nextLeaseGeneration' = nextLeaseGeneration
      /\ nextLeaseGeneration \in Nat /\ nodes \in [Nodes -> Node]
  BY TreeAssumption DEF bankVars, generationVars, TreeInv, TreeTypes
<1>3. NodesTurn(i, {}, {}) /\ PinsTurn(i, {}, {})
  <2>1. ASSUME NEW j \in Nodes
        PROVE  \/ nodes'[j] = nodes[j]
               \/ /\ j \in NodesOf(i) /\ nodes'[j].state # "free"
                  /\ nodes'[j].slot = i /\ nodes'[j].tree = nodes[j].tree
                  /\ nodes'[j].generation = nodes[j].generation
                  /\ nodes'[j].kind = nodes[j].kind
    <3>1. CASE j \notin PendingOf(i)
      BY <3>1 DEF SettleLeaves
    <3>2. CASE j \in PendingOf(i)
      <4> DEFINE m == [nodes[j] EXCEPT !.state = state, !.pending = pending]
      <4>1. j \in NodesOf(i) /\ nodes[j].slot = i /\ nodes[j] \in Node
        BY <1>2, <3>2 DEF PendingOf, LeavesOf, NodesOf
      <4>2. nodes'[j] = m
        BY <3>2 DEF SettleLeaves
      <4>3. /\ m.state = state /\ m.slot = nodes[j].slot
            /\ m.tree = nodes[j].tree /\ m.generation = nodes[j].generation
            /\ m.kind = nodes[j].kind
        BY ONLY <4>1 DEF Node
      <4> HIDE DEF m
      <4> QED BY <4>1, <4>2, <4>3
    <3> QED BY <3>1, <3>2
  <2> QED BY <1>2, <2>1, PinsStay DEF NodesTurn
<1>4. /\ old = DecisionOf(t.parent, roots[i], slots[i])
                \union LeafHandles(t.parent, {}) \union PinHandles(t.parent, {})
      /\ new = DecisionOf(t.parent, Advanced(root, g), slots[i])
                \union {NodeAt(t.parent, k, nodes'[k]) : k \in {}}
                \union {PinAt(t.parent, p, pins'[p]) : p \in {}}
  BY <1>1, NoLeases
<1>5. /\ nextLeaseGeneration <= nextLeaseGeneration'
      /\ root.identity = roots[i].identity /\ root.revision = roots[i].revision
      /\ roots[i] \in ActiveRoot
  BY <1>1, <1>2
<1> QED BY <1>1, <1>2, <1>3, <1>4, <1>5, AdvanceHandles, ZenonT(60)

\* What a root without a pending decision names besides its tree handle.
LEMMA NothingNamed ==
    ASSUME NEW r, NEW root \in ActiveRoot, root.pending.kind = "none",
           NEW g \in Nat, NEW s
    PROVE  DecisionOf(r, Advanced(root, g), s) = {}
<1>1. Advanced(root, g).pending.kind = "none"
  BY AdvancedType
<1> QED BY <1>1 DEF DecisionOf

\* A batch or ticket that is decided for good ends with the decision.
LEMMA DecidedHandles ==
    ASSUME TreeInv, TreeInv', HandlesSound, NEW t \in Batches \union Tickets,
           \/ commitAllocationsAfterAllocate(t) \/ cancelRetire(t)
           \/ \E tree, e, id, n, last :
                commitFundedAllocationsAndActivateRestoredPublication(
                    tree, t, e, id, n, last)
    PROVE  HandlesSound'
<1>1. PICK root :
        /\ \/ root = [t.root EXCEPT !.pending = NothingPending]
           \/ root = [t.root EXCEPT !.pending = NothingPending,
                                    !.activated = TRUE]
        /\ validateDecision(t) /\ SettleLeaves(t.parent.slot, "live", 0)
        /\ AdvanceTree(t.parent, root, t.root.pending.completion, {t}, {})
        /\ UNCHANGED <<bankVars, pins, generationVars>>
  <2>1. CASE commitAllocationsAfterAllocate(t) \/ cancelRetire(t)
    <3>1. PICK root : root = [t.root EXCEPT !.pending = NothingPending]
      OBVIOUS
    <3> QED BY <2>1, <3>1 DEF commitAllocationsAfterAllocate, cancelRetire
  <2>2. CASE \E tree, e, id, n, last :
               commitFundedAllocationsAndActivateRestoredPublication(
                   tree, t, e, id, n, last)
    <3>1. PICK root : root = [t.root EXCEPT !.pending = NothingPending,
                                            !.activated = TRUE]
      OBVIOUS
    <3> QED BY <2>2, <3>1
            DEF commitFundedAllocationsAndActivateRestoredPublication
  <2> QED BY <2>1, <2>2
<1>2. /\ t.parent \in Receipt /\ t.parent.slot \in Slots
      /\ t.root \in ActiveRoot /\ t.root.pending.completion \in Nat
  BY <1>1, DecisionAccepted DEF Pending
<1>3. /\ root \in ActiveRoot /\ root.pending = NothingPending
      /\ root.identity = t.root.identity /\ root.revision = t.root.revision
  <2>1. CASE root = [t.root EXCEPT !.pending = NothingPending]
    BY <1>2, <2>1, BlankTypes, RootDecides
  <2>2. CASE root = [t.root EXCEPT !.pending = NothingPending,
                                   !.activated = TRUE]
    BY <1>2, <2>2, BlankTypes, RootActivates
  <2> QED BY <1>1, <2>1, <2>2
<1>4. PICK g \in Nat : g = t.root.pending.completion
  BY <1>2
<1>5. PICK i \in Slots : i = t.parent.slot
  BY <1>2
<1>6. PICK new : new = {}
  OBVIOUS
<1>7. new = DecisionOf(t.parent, Advanced(root, g), slots[i])
  BY <1>3, <1>6, NothingNamed DEF NothingPending
<1>8. PICK old : old = {t}
  OBVIOUS
<1>9. /\ AdvanceTree(t.parent, root, g, old, new)
      /\ SettleLeaves(i, "live", 0)
  BY <1>1, <1>4, <1>5, <1>6, <1>8
<1> QED BY <1>1, <1>3, <1>5, <1>7, <1>8, <1>9, SettleHandles

\* A ticket that is authorized becomes a free permit, which nobody has yet.
LEMMA AuthorizeHandles ==
    ASSUME TreeInv, TreeInv', HandlesSound, NEW t \in Tickets, authorizeFree(t)
    PROVE  HandlesSound'
<1>1. PICK p : p = t.root.pending
  OBVIOUS
<1>2. PICK q : q = [p EXCEPT !.kind = "free", !.generation = p.freePermit,
                             !.completion = p.freeCompletion,
                             !.freePermit = 0, !.freeCompletion = 0]
  OBVIOUS
<1>3. PICK root : root = [t.root EXCEPT !.pending = q]
  OBVIOUS
<1>4. PICK settled : settled = [root EXCEPT !.generation = p.completion,
                                            !.revision = @ + 1]
  OBVIOUS
<1>5. PICK i : i = t.parent.slot
  OBVIOUS
<1>6. PICK new : new = {DecisionAt("free", t.parent, settled, slots[i])}
  OBVIOUS
<1>7. PICK old : old = {t}
  OBVIOUS
<1>8. /\ t.kind = "ticket" /\ validateDecision(t)
      /\ SettleLeaves(i, "free_authorized", p.freePermit)
      /\ AdvanceTree(t.parent, root, p.completion, old, new)
      /\ UNCHANGED <<bankVars, pins, generationVars>>
  BY <1>1, <1>2, <1>3, <1>4, <1>5, <1>6, <1>7 DEF authorizeFree
<1>9. /\ t.parent \in Receipt /\ i \in Slots /\ t.root \in ActiveRoot
      /\ p \in Pending /\ p.kind = "retire"
  BY <1>1, <1>5, <1>8, DecisionAccepted DEF DecisionOn, Pending
<1>10. q \in Pending /\ q.kind = "free"
  BY <1>2, <1>9 DEF Pending
<1>11. p.completion \in Nat /\ p.freePermit \in Nat
  BY <1>9 DEF Pending
<1>12. /\ root \in ActiveRoot /\ root.pending = q
       /\ root.identity = t.root.identity /\ root.revision = t.root.revision
  BY <1>3, <1>9, <1>10, RootDecides
<1>13. settled = Advanced(root, p.completion) /\ settled.pending = q
  <2>1. settled = Advanced(root, p.completion)
    BY <1>4 DEF Advanced
  <2> QED BY <1>11, <1>12, <2>1, AdvancedType
<1>14. new = DecisionOf(t.parent, Advanced(root, p.completion), slots[i])
  BY <1>6, <1>10, <1>13 DEF DecisionOf, DecisionOn
<1> QED BY <1>5, <1>7, <1>8, <1>9, <1>11, <1>12, <1>14, SettleHandles

\* Aborted and freed leaves take their handles with them.
LEMMA DropHandles ==
    ASSUME TreeInv, TreeInv', HandlesSound,
           NEW t \in Batches \union FreePermits,
           abortAllocationsAfterFree(t) \/ commitFreeAfterAllocatorFree(t)
    PROVE  HandlesSound'
<1>1. PICK i : i = t.parent.slot
  OBVIOUS
<1>2. PICK left : left = subtractClaims(t.root.current, t.root.pending.claim)
  OBVIOUS
<1>3. PICK root : root = [t.root EXCEPT !.pending = NothingPending,
                                        !.current = left]
  OBVIOUS
<1>4. PICK g : g = t.root.pending.completion
  OBVIOUS
<1>5. PICK old : old = {t} \union LeafHandles(t.parent, PendingOf(i))
  OBVIOUS
<1>6. PICK new : new = {}
  OBVIOUS
<1>7. /\ validateDecision(t) /\ DropLeaves(i) /\ t.kind \in {"batch", "free"}
      /\ AdvanceTree(t.parent, root, g, old, new)
      /\ UNCHANGED <<slots, nextGeneration, pins, generationVars>>
  BY <1>1, <1>2, <1>3, <1>4, <1>5, <1>6
     DEF abortAllocationsAfterFree, commitFreeAfterAllocatorFree
<1>8. /\ t.parent \in Receipt /\ i \in Slots /\ roots[i] = t.root
      /\ t.root \in ActiveRoot /\ t.root \in Root /\ TreeSound(i)
      /\ t.root.pending \in Pending
      /\ t.kind = DecisionOn(t.root.pending.kind)
  BY <1>1, <1>7, DecisionAccepted
<1>9. /\ Committed(slots, t.parent) /\ slots[i].publication = "idle"
      /\ DecisionOf(t.parent, roots[i], slots[i]) = {t}
  BY <1>1, <1>7, DecisionHeld
<1>10. /\ slots' = slots /\ pins' = pins /\ nextGeneration' = nextGeneration
       /\ nextLeaseGeneration' = nextLeaseGeneration
       /\ nextLeaseGeneration \in Nat /\ nodes \in [Nodes -> Node]
  BY <1>7, TreeAssumption DEF generationVars, TreeInv, TreeTypes
<1>11. left \in Claim
  <2>1. t.root.pending.kind # "none"
    BY <1>7, <1>8 DEF DecisionOn
  <2>2. /\ t.root.pending.claim = Total(nodes, PendingOf(i))
        /\ t.root.current = Total(nodes, LeavesOf(i))
    BY <1>8, <2>1 DEF TreeSound, RootSound, SumsSound, ActiveRoot
  <2>3. LeavesOf(i) \in SUBSET Nodes /\ PendingOf(i) \in SUBSET LeavesOf(i)
    BY DEF LeavesOf, NodesOf, PendingOf
  <2>4. claimWithin(Total(nodes, PendingOf(i)), Total(nodes, LeavesOf(i)))
    BY <1>10, <2>3, NodesRest
  <2>5. t.root.current \in Claim /\ t.root.pending.claim \in Claim
    BY <1>8 DEF Root, Pending
  <2> QED BY <1>2, <2>2, <2>4, <2>5, SubtractWithin
<1>12. /\ root \in ActiveRoot /\ root.pending = NothingPending
       /\ root.identity = t.root.identity /\ root.revision = t.root.revision
  <2>1. t.root \in ActiveRoot /\ left \in Claim /\ NothingPending \in Pending
    BY <1>8, <1>11, BlankTypes
  <2>2. root = Carrying(t.root, NothingPending, left)
    BY <1>3 DEF Carrying
  <2> QED BY <2>1, <2>2, RootCarries
<1>13. g \in Nat
  BY <1>4, <1>8 DEF Pending
<1>14. PICK G : G = PendingOf(i)
  OBVIOUS
<1>15. NodesTurn(i, G, {}) /\ PinsTurn(i, {}, {})
  <2>1. G \subseteq NodesOf(i) /\ \A j \in NodesOf(i) : nodes[j].slot = i
                                    /\ nodes[j].state # "free" /\ j \in Nodes
    BY <1>14 DEF PendingOf, LeavesOf, NodesOf
  <2>2. \A j \in G : nodes'[j].state = "free"
    BY <1>7, <1>14, <2>1 DEF DropLeaves, FreeNode
  <2>3. ASSUME NEW j \in Nodes \ G
        PROVE  \/ nodes'[j] = nodes[j]
               \/ /\ j \in NodesOf(i) /\ nodes'[j].state # "free"
                  /\ nodes'[j].slot = i /\ nodes'[j].tree = nodes[j].tree
                  /\ nodes'[j].generation = nodes[j].generation
                  /\ nodes'[j].kind = nodes[j].kind
    <3>1. CASE j \in NodesOf(i) /\ nodes[j].kind = "scope"
      <4> DEFINE share == subtractClaims(nodes[j].subtree,
                             ClaimOf(LeavesBelow(j) \intersect PendingOf(i)))
                 m == [nodes[j] EXCEPT !.subtree = share]
      <4>1. nodes[j] \in Node
        BY <1>10
      <4>2. nodes'[j] = m
        BY <1>7, <1>14, <2>3, <3>1 DEF DropLeaves
      <4> HIDE DEF share
      <4>3. /\ m.state = nodes[j].state /\ m.slot = nodes[j].slot
            /\ m.tree = nodes[j].tree /\ m.generation = nodes[j].generation
            /\ m.kind = nodes[j].kind
        BY ONLY <4>1 DEF Node
      <4> HIDE DEF m
      <4> QED BY <2>1, <3>1, <4>2, <4>3
    <3>2. CASE ~(j \in NodesOf(i) /\ nodes[j].kind = "scope")
      BY <1>7, <1>14, <2>3, <3>2 DEF DropLeaves
    <3> QED BY <3>1, <3>2
  <2> QED BY <1>10, <2>1, <2>2, <2>3, PinsStay DEF NodesTurn
<1>16. /\ old = DecisionOf(t.parent, roots[i], slots[i])
                 \union LeafHandles(t.parent, G) \union PinHandles(t.parent, {})
       /\ new = DecisionOf(t.parent, Advanced(root, g), slots[i])
                 \union {NodeAt(t.parent, k, nodes'[k]) : k \in {}}
                 \union {PinAt(t.parent, p, pins'[p]) : p \in {}}
  <2>1. DecisionOf(t.parent, Advanced(root, g), slots[i]) = {}
    BY <1>12, <1>13, NothingNamed DEF NothingPending
  <2> QED BY <1>5, <1>6, <1>9, <1>14, <2>1, NoLeases
<1>17. /\ nextLeaseGeneration <= nextLeaseGeneration'
       /\ root.identity = roots[i].identity /\ root.revision = roots[i].revision
       /\ roots[i] \in ActiveRoot
  BY <1>8, <1>10, <1>12
<1> QED BY <1>1, <1>7, <1>8, <1>9, <1>10, <1>12, <1>13, <1>15, <1>16, <1>17,
           AdvanceHandles

\* Leaves that are counted as pinned, or no longer, keep their handles.
LEMMA CountedNodesStay ==
    ASSUME TreeInv, NEW i \in Slots, NEW members \in SUBSET NodesOf(i),
           \A j \in Nodes :
             nodes'[j] = IF j \in members
                         THEN Counting(nodes[j], nodes'[j].pinCount)
                         ELSE nodes[j]
    PROVE  NodesTurn(i, {}, {})
<1>1. ASSUME NEW j \in Nodes, j \in members
      PROVE  /\ j \in NodesOf(i) /\ nodes'[j].state # "free"
             /\ nodes'[j].slot = i /\ nodes'[j].tree = nodes[j].tree
             /\ nodes'[j].generation = nodes[j].generation
             /\ nodes'[j].kind = nodes[j].kind
  <2> DEFINE m == Counting(nodes[j], nodes'[j].pinCount)
  <2>1. nodes[j] \in Node /\ nodes[j].state # "free" /\ nodes[j].slot = i
    BY <1>1 DEF NodesOf, TreeInv, TreeTypes
  <2>2. nodes'[j] = m
    BY <1>1
  <2>3. \A c : LET n == Counting(nodes[j], c) IN
                 /\ n.state = nodes[j].state /\ n.slot = nodes[j].slot
                 /\ n.tree = nodes[j].tree
                 /\ n.generation = nodes[j].generation
                 /\ n.kind = nodes[j].kind
    BY ONLY <2>1 DEF Node, Counting
  <2>4. /\ m.state = nodes[j].state /\ m.slot = nodes[j].slot
        /\ m.tree = nodes[j].tree /\ m.generation = nodes[j].generation
        /\ m.kind = nodes[j].kind
    BY <2>3
  <2> HIDE DEF m
  <2> QED BY <1>1, <2>1, <2>2, <2>4
<1> QED BY <1>1 DEF NodesTurn

\* The handle of a pin carries a generation that never was.
LEMMA AcquireHandles ==
    ASSUME TreeInv, TreeInv', HandlesSound, NEW t \in Trees,
           NEW scope \in NodeHandles, NEW e \in Nat, NEW id \in Nat,
           NEW n \in Nat, NEW leaves \in SUBSET NodeHandles,
           acquireLeasePinsForSession(t, scope, e, id, n, leaves)
    PROVE  HandlesSound'
<1>1. PICK i : i = t.parent.slot
  OBVIOUS
<1>2. PICK g : g = nextLeaseGeneration
  OBVIOUS
<1>3. PICK members : members = {l.index : l \in leaves}
  OBVIOUS
<1>4. PICK pin :
        pin = [state |-> "active", slot |-> i, tree |-> t.root.identity,
               generation |-> g, treeGeneration |-> g + 1,
               requestEpoch |-> e, sessionId |-> id, sequence |-> n,
               scope |-> scope.index, members |-> members]
  OBVIOUS
<1>5. /\ validateLeaseTree(t) /\ t.root.pending.kind = "none"
      /\ \A l \in leaves : /\ validateLeaseNode(l) /\ l.parent = t.parent
      /\ nextLeaseGeneration' = g + 3
      /\ nodes' = [j \in Nodes |-> IF j \in members
                                   THEN [nodes[j] EXCEPT !.pinCount = @ + 1]
                                   ELSE nodes[j]]
      /\ UNCHANGED bankVars
  BY <1>2, <1>3 DEF acquireLeasePinsForSession
<1>6. PICK p \in PinSlots :
        /\ pins[p].state = "free" /\ pins' = [pins EXCEPT ![p] = pin]
        /\ AdvanceTree(t.parent, t.root, g + 1, {}, {PinAt(t.parent, p, pin)})
  BY <1>1, <1>2, <1>3, <1>4 DEF acquireLeasePinsForSession
<1>7. /\ t.parent \in Receipt /\ i \in Slots /\ Committed(slots, t.parent)
      /\ roots[i] = t.root /\ t.root \in ActiveRoot
      /\ DecisionOf(t.parent, roots[i], slots[i]) = {}
  BY <1>1, <1>5, TreeHeld
<1>8. /\ slots' = slots /\ nextGeneration' = nextGeneration /\ g \in Nat
      /\ nodes \in [Nodes -> Node] /\ pins \in [PinSlots -> Pin]
  BY <1>2, <1>5, TreeAssumption DEF bankVars, TreeInv, TreeTypes
<1>9. NodesTurn(i, {}, {})
  <2>1. members \subseteq NodesOf(i)
    BY <1>1, <1>3, <1>5, NodeAccepted
  <2>2. \A j \in Nodes :
          nodes'[j] = IF j \in members
                      THEN Counting(nodes[j], nodes[j].pinCount + 1)
                      ELSE nodes[j]
    BY <1>5 DEF Counting
  <2>3. \A j \in members : nodes'[j].pinCount = nodes[j].pinCount + 1
    <3>1. ASSUME NEW j \in members
          PROVE  nodes'[j].pinCount = nodes[j].pinCount + 1
      <4>1. nodes[j] \in Node /\ j \in Nodes
        BY <1>8, <2>1 DEF NodesOf
      <4>2. \A c : Counting(nodes[j], c).pinCount = c
        BY <4>1 DEF Node, Counting
      <4> QED BY <2>2, <4>1, <4>2
    <3> QED BY <3>1
  <2>4. \A j \in Nodes :
          nodes'[j] = IF j \in members
                      THEN Counting(nodes[j], nodes'[j].pinCount)
                      ELSE nodes[j]
    BY <2>2, <2>3
  <2> QED BY <1>7, <2>1, <2>4, CountedNodesStay
<1>10. /\ pins'[p] = pin /\ \A q \in PinSlots \ {p} : pins'[q] = pins[q]
       /\ pin.state = "active" /\ pin.slot = i /\ pin.generation = g
  BY <1>4, <1>6, <1>8
<1>11. PinsTurn(i, {}, {p})
  BY <1>2, <1>5, <1>6, <1>8, <1>10 DEF PinsTurn
<1>12. PICK old : old = {}
  OBVIOUS
<1>13. PICK new : new = {PinAt(t.parent, p, pin)}
  OBVIOUS
<1>14. DecisionOf(t.parent, Advanced(t.root, g + 1), slots[i]) = {}
  <2>1. g + 1 \in Nat
    BY <1>8
  <2> QED BY <1>5, <1>7, <2>1, NothingNamed
<1>15. /\ old = DecisionOf(t.parent, roots[i], slots[i])
                 \union LeafHandles(t.parent, {}) \union PinHandles(t.parent, {})
       /\ new = DecisionOf(t.parent, Advanced(t.root, g + 1), slots[i])
                 \union {NodeAt(t.parent, k, nodes'[k]) : k \in {}}
                 \union {PinAt(t.parent, q, pins'[q]) : q \in {p}}
  BY <1>7, <1>10, <1>12, <1>13, <1>14, NoLeases
<1>16. /\ g + 1 \in Nat /\ nextLeaseGeneration <= nextLeaseGeneration'
       /\ AdvanceTree(t.parent, t.root, g + 1, old, new)
       /\ roots[i] \in ActiveRoot
  BY <1>2, <1>5, <1>6, <1>7, <1>8, <1>12, <1>13
<1> QED BY <1>1, <1>5, <1>7, <1>8, <1>9, <1>11, <1>15, <1>16, AdvanceHandles,
           ZenonT(60)

\* A pin that is given back ends with its record.
LEMMA ReleaseHandles ==
    ASSUME TreeInv, TreeInv', HandlesSound, NEW t \in PinPermits,
           releaseLeasePins(t)
    PROVE  HandlesSound'
<1>1. PICK i : i = t.parent.slot
  OBVIOUS
<1>2. PICK g : g = nextLeaseGeneration
  OBVIOUS
<1>3. PICK old : old = {t}
  OBVIOUS
<1>4. PICK new : new = {}
  OBVIOUS
<1>5. /\ validateLeasePin(t) /\ roots[i].pending.kind = "none"
      /\ nextLeaseGeneration' = g + 1
      /\ nodes' = [j \in Nodes |-> IF j \in t.pin.members
                                   THEN [nodes[j] EXCEPT !.pinCount = @ - 1]
                                   ELSE nodes[j]]
      /\ pins' = [pins EXCEPT ![t.index] = FreePin]
      /\ AdvanceTree(t.parent, roots[i], g, old, new)
      /\ UNCHANGED bankVars
  BY <1>1, <1>2, <1>3, <1>4 DEF releaseLeasePins, CanRelease
<1>6. t \in PinToken
  BY TokenKinds DEF TreeInv
<1>7. PICK p \in PinSlots : p = t.index
  BY <1>6 DEF PinToken
<1>8. /\ t.parent \in Receipt /\ i \in Slots /\ Committed(slots, t.parent)
      /\ pins[p] = t.pin /\ t.pin.state = "active" /\ t.pin.slot = i
      /\ roots[i] \in ActiveRoot /\ TreeSound(i)
      /\ nodes \in [Nodes -> Node] /\ pins \in [PinSlots -> Pin]
  BY <1>1, <1>5, <1>6, <1>7
     DEF PinToken, Receipt, validateLeasePin, validateReceipt, Committed,
         TreeInv, TreeTypes, ActiveRoot
<1>9. /\ slots' = slots /\ nextGeneration' = nextGeneration /\ g \in Nat
  BY <1>2, <1>5, TreeAssumption DEF bankVars, TreeInv, TreeTypes
<1>10. p \in PinsOf(i) /\ pins'[p] = FreePin /\ FreePin.state = "free"
       /\ \A q \in PinSlots \ {p} : pins'[q] = pins[q]
  BY <1>5, <1>7, <1>8 DEF PinsOf, FreePin
<1>11. NodesTurn(i, {}, {})
  <2>1. t.pin.members \subseteq NodesOf(i)
    BY <1>8, <1>10 DEF TreeSound, PinsSound, LeavesOf
  <2>2. \A j \in Nodes :
          nodes'[j] = IF j \in t.pin.members
                      THEN Counting(nodes[j], nodes[j].pinCount - 1)
                      ELSE nodes[j]
    BY <1>5 DEF Counting
  <2>3. \A j \in t.pin.members : nodes'[j].pinCount = nodes[j].pinCount - 1
    <3>1. ASSUME NEW j \in t.pin.members
          PROVE  nodes'[j].pinCount = nodes[j].pinCount - 1
      <4>1. nodes[j] \in Node /\ j \in Nodes
        BY <1>8, <2>1 DEF NodesOf
      <4>2. \A c : Counting(nodes[j], c).pinCount = c
        BY <4>1 DEF Node, Counting
      <4> QED BY <2>2, <4>1, <4>2
    <3> QED BY <3>1
  <2>4. \A j \in Nodes :
          nodes'[j] = IF j \in t.pin.members
                      THEN Counting(nodes[j], nodes'[j].pinCount)
                      ELSE nodes[j]
    BY <2>2, <2>3
  <2> QED BY <1>8, <2>1, <2>4, CountedNodesStay
<1>12. PinsTurn(i, {p}, {})
  BY <1>10 DEF PinsTurn
<1>13. t = PinAt(t.parent, p, pins[p])
  <2>1. PinAt(t.parent, p, pins[p]) \in PinToken
    BY <1>1, <1>8 DEF PinAt, PinToken
  <2> QED BY <1>6, <1>7, <1>8, <2>1, TokenExt DEF PinAt
<1>14. PinHandles(t.parent, {p}) = {t}
  BY <1>13 DEF PinHandles
<1>15. DecisionOf(t.parent, Advanced(roots[i], g), slots[i]) = {}
       /\ DecisionOf(t.parent, roots[i], slots[i]) = {}
  BY <1>5, <1>8, <1>9, AdvancedType DEF DecisionOf
<1>16. /\ old = DecisionOf(t.parent, roots[i], slots[i])
                 \union LeafHandles(t.parent, {})
                 \union PinHandles(t.parent, {p})
       /\ new = DecisionOf(t.parent, Advanced(roots[i], g), slots[i])
                 \union {NodeAt(t.parent, k, nodes'[k]) : k \in {}}
                 \union {PinAt(t.parent, q, pins'[q]) : q \in {}}
  BY <1>3, <1>4, <1>14, <1>15, NoLeases
<1>17. nextLeaseGeneration <= nextLeaseGeneration'
  BY <1>2, <1>5, <1>9
<1> QED BY <1>1, <1>5, <1>8, <1>9, <1>11, <1>12, <1>16, <1>17, AdvanceHandles

\* The handles of a wave carry generations that never were.
LEMMA WaveHandles ==
    ASSUME TreeInv, TreeInv', HandlesSound, NEW t \in Trees,
           NEW specs \in SpecLists, NEW e, NEW id, NEW n,
           reserveAllocationsForSession(t, e, id, n, specs)
    PROVE  HandlesSound'
<1>1. PICK i : i = t.parent.slot
  OBVIOUS
<1>2. PICK g : g = nextLeaseGeneration
  OBVIOUS
<1>3. PICK size : size = Len(specs)
  OBVIOUS
<1>4. PICK total : total = WaveTotal(specs)
  OBVIOUS
<1>5. PICK current : current = addClaims(t.root.current, total)
  OBVIOUS
<1>6. PICK q : q = [NothingPending EXCEPT !.kind = "allocation",
                                          !.generation = g,
                                          !.completion = g + size + 2,
                                          !.claim = total]
  OBVIOUS
<1>7. PICK root : root = [t.root EXCEPT !.current = current, !.pending = q]
  OBVIOUS
<1>8. PICK settled : settled = [root EXCEPT !.generation = g + size + 1,
                                            !.revision = @ + 1]
  OBVIOUS
<1> DEFINE leaf(k) == LeafFor(i, t.root, g, specs[k], k)
<1>9. PICK new :
        new = {NodeAt(t.parent, NodeFor(k), leaf(k)) : k \in 1 .. size}
                \union {DecisionAt("batch", t.parent, settled, slots[i])}
  OBVIOUS
<1>10. PICK old : old = {}
  OBVIOUS
<1>11. PICK h : h = g + size + 1
  OBVIOUS
<1>12. /\ validateLeaseTree(t) /\ t.root.pending.kind = "none"
       /\ SessionAt(slots[i], e, id, n) /\ size <= Cardinality(FreeNodes)
       /\ reserveLeaseGenerations(size + 3)
       /\ UNCHANGED <<slots, nextGeneration, pins>>
  BY <1>1, <1>3 DEF reserveAllocationsForSession
<1>13. AdvanceTree(t.parent, root, h, old, new)
  BY <1>1, <1>2, <1>3, <1>4, <1>5, <1>6, <1>7, <1>8, <1>9, <1>10, <1>11,
     ZenonT(60)
     DEF reserveAllocationsForSession, LeafFor, WaveTotal
<1>14. nodes' = [j \in Nodes |->
                   IF \E k \in 1 .. size : NodeFor(k) = j
                   THEN leaf(CHOOSE k \in 1 .. size : NodeFor(k) = j)
                   ELSE Enlarged(nodes[j], ScopeAddition(specs, j))]
  BY <1>1, <1>2, <1>3, ZenonT(60)
     DEF reserveAllocationsForSession, LeafFor, Enlarged
<1>15. /\ t.parent \in Receipt /\ i \in Slots /\ Committed(slots, t.parent)
       /\ roots[i] = t.root /\ t.root \in ActiveRoot
       /\ DecisionOf(t.parent, roots[i], slots[i]) = {}
  BY <1>1, <1>12, TreeHeld
<1>16. /\ slots' = slots /\ pins' = pins /\ nextGeneration' = nextGeneration
       /\ nextLeaseGeneration' = g + (size + 3) /\ g \in Nat /\ size \in Nat
       /\ slots[i].publication = "idle"
  BY <1>2, <1>3, <1>12, TreeAssumption, SpecListType
     DEF TreeInv, TreeTypes, reserveLeaseGenerations, SessionAt
<1>17. PICK fresh : fresh = WaveNodes(specs)
  OBVIOUS
<1>18. PICK add : add = WaveAdds(specs)
  OBVIOUS
<1>19. /\ fresh \in SUBSET Nodes /\ add \in [Nodes -> Claim]
       /\ total \in Claim /\ Planted(i, fresh, add)
  BY <1>1, <1>4, <1>17, <1>18, WavePlants
<1>20. /\ fresh = {NodeFor(k) : k \in 1 .. size} /\ fresh \subseteq FreeNodes
       /\ \A k \in 1 .. size : nodes'[NodeFor(k)] = leaf(k)
  <2>1. fresh = {NodeFor(k) : k \in 1 .. size}
    BY <1>3, <1>17 DEF WaveNodes
  <2>2. /\ \A k \in 1 .. size : NodeFor(k) \in FreeNodes
        /\ \A k, l \in 1 .. size : NodeFor(k) = NodeFor(l) => k = l
    BY <1>12, <1>16, NodesForWave
  <2>3. ASSUME NEW k \in 1 .. size
        PROVE  nodes'[NodeFor(k)] = leaf(k)
    <3>1. NodeFor(k) \in Nodes
      BY <2>2 DEF FreeNodes
    <3>2. (CHOOSE l \in 1 .. size : NodeFor(l) = NodeFor(k)) = k
      BY <2>2
    <3> HIDE DEF leaf
    <3> QED BY <1>14, <3>1, <3>2
  <2> QED BY <2>1, <2>2, <2>3
<1>21. \A k \in 1 .. size : leaf(k).generation = g + k
  BY DEF LeafFor, FreeNode
<1> HIDE DEF leaf
<1>22. NodesTurn(i, {}, fresh)
  <2>1. \A j \in fresh : /\ nodes'[j].state # "free" /\ nodes'[j].slot = i
    BY <1>19 DEF Planted
  <2>2. ASSUME NEW j \in fresh
        PROVE  /\ nextLeaseGeneration <= nodes'[j].generation
               /\ nodes'[j].generation < nextLeaseGeneration'
    <3>1. PICK k \in 1 .. size : j = NodeFor(k)
      BY <1>20
    <3>2. nodes'[j].generation = g + k
      BY <1>20, <1>21, <3>1
    <3> QED BY <1>2, <1>16, <3>2
  <2>3. ASSUME NEW j \in Nodes \ fresh
        PROVE  \/ nodes'[j] = nodes[j]
               \/ /\ j \in NodesOf(i) /\ nodes'[j].state # "free"
                  /\ nodes'[j].slot = i /\ nodes'[j].tree = nodes[j].tree
                  /\ nodes'[j].generation = nodes[j].generation
                  /\ nodes'[j].kind = nodes[j].kind
    <3>1. /\ nodes[j] \in Node /\ add[j] \in Claim
          /\ nodes'[j] = Enlarged(nodes[j], add[j])
          /\ j \notin NodesOf(i) => add[j] = ZeroClaim
      BY <1>19, <2>3 DEF Planted, TreeInv, TreeTypes
    <3> DEFINE m == Enlarged(nodes[j], add[j])
    <3>2. /\ m.state = nodes[j].state /\ m.kind = nodes[j].kind
          /\ m.slot = nodes[j].slot /\ m.tree = nodes[j].tree
          /\ m.generation = nodes[j].generation
          /\ j \notin NodesOf(i) => m = nodes[j]
      BY <3>1, EnlargedType
    <3>3. nodes'[j] = m
      BY <3>1
    <3> HIDE DEF m
    <3> QED BY <3>2, <3>3 DEF NodesOf
  <2> QED BY <1>19, <1>20, <2>1, <2>2, <2>3 DEF NodesTurn
<1>23. h \in Nat /\ g + size + 2 \in Nat
       /\ nextLeaseGeneration <= nextLeaseGeneration'
  BY <1>2, <1>11, <1>16
<1>24. q \in Pending /\ q.kind = "allocation"
  <2>1. NothingPending \in Pending
    BY BlankTypes
  <2> QED BY <1>6, <1>16, <1>19, <1>23, <2>1 DEF Pending
<1>25. current \in Claim
  BY <1>5, <1>15, <1>19, AddType DEF ActiveRoot, Root
<1>26. /\ root \in ActiveRoot /\ root.pending = q
       /\ root.identity = t.root.identity /\ root.revision = t.root.revision
  <2>1. t.root \in Root
    BY <1>15 DEF ActiveRoot
  <2>2. root = Carrying(t.root, q, current)
    BY ONLY <1>7, <2>1 DEF Carrying, Root
  <2> QED BY <1>15, <1>24, <1>25, <2>2, RootCarries
<1>27. settled = Advanced(root, h) /\ settled.pending = q
  <2>1. settled = Advanced(root, h)
    BY <1>8, <1>11 DEF Advanced
  <2> QED BY <1>23, <1>26, <2>1, AdvancedType
<1>28. DecisionOf(t.parent, Advanced(root, h), slots[i]) =
         {DecisionAt("batch", t.parent, settled, slots[i])}
  BY <1>24, <1>27 DEF DecisionOf, DecisionOn
<1>29. {NodeAt(t.parent, NodeFor(k), leaf(k)) : k \in 1 .. size}
         = {NodeAt(t.parent, j, nodes'[j]) : j \in fresh}
  BY <1>20
<1>30. /\ old = DecisionOf(t.parent, roots[i], slots[i])
                 \union LeafHandles(t.parent, {})
                 \union PinHandles(t.parent, {})
       /\ new = DecisionOf(t.parent, Advanced(root, h), slots[i])
                 \union {NodeAt(t.parent, j, nodes'[j]) : j \in fresh}
                 \union {PinAt(t.parent, p, pins'[p]) : p \in {}}
  BY <1>9, <1>10, <1>15, <1>28, <1>29, NoLeases
<1>31. PinsTurn(i, {}, {})
  BY <1>16, PinsStay
<1>32. /\ root.identity = roots[i].identity /\ root.revision = roots[i].revision
       /\ roots[i] \in ActiveRoot
  BY <1>15, <1>26
<1> QED BY <1>1, <1>13, <1>15, <1>16, <1>22, <1>23, <1>26, <1>30, <1>31, <1>32,
           AdvanceHandles

\* A ticket carries the revision of the step that returns it; the leaves it is
\* for keep their handles.
LEMMA RetireHandles ==
    ASSUME TreeInv, TreeInv', HandlesSound, NEW t \in Trees,
           NEW scope \in NodeHandles, NEW e, NEW id, NEW n,
           beginRetireSubtreeForSession(t, scope, e, id, n)
    PROVE  HandlesSound'
<1>1. PICK i : i = t.parent.slot
  OBVIOUS
<1>2. PICK g : g = nextLeaseGeneration
  OBVIOUS
<1>3. PICK leaves : leaves = LeavesBelow(scope.index)
  OBVIOUS
<1>4. PICK claim : claim = ClaimOf(leaves)
  OBVIOUS
<1>5. PICK q : q = [kind |-> "retire", generation |-> g,
                    completion |-> g + 2, freePermit |-> g + 3,
                    freeCompletion |-> g + 4, scope |-> scope.index,
                    claim |-> claim]
  OBVIOUS
<1>6. PICK root : root = [t.root EXCEPT !.pending = q]
  OBVIOUS
<1>7. PICK settled : settled = [root EXCEPT !.generation = g + 1,
                                            !.revision = @ + 1]
  OBVIOUS
<1>8. PICK new : new = {DecisionAt("ticket", t.parent, settled, slots[i])}
  OBVIOUS
<1>9. PICK old : old = {}
  OBVIOUS
<1>10. /\ validateLeaseTree(t) /\ t.root.pending.kind = "none"
       /\ validateLeaseNode(scope) /\ scope.parent = t.parent
       /\ SessionAt(slots[i], e, id, n) /\ reserveLeaseGenerations(5)
       /\ nodes' = [j \in Nodes |->
                      IF j \in leaves
                      THEN [nodes[j] EXCEPT !.state = "quiescing",
                                            !.pending = g]
                      ELSE nodes[j]]
       /\ AdvanceTree(t.parent, root, g + 1, old, new)
       /\ UNCHANGED <<bankVars, pins>>
  BY <1>1, <1>2, <1>3, <1>4, <1>5, <1>6, <1>7, <1>8, <1>9
     DEF beginRetireSubtreeForSession
<1>11. /\ t.parent \in Receipt /\ i \in Slots /\ Committed(slots, t.parent)
       /\ roots[i] = t.root /\ t.root \in ActiveRoot
       /\ DecisionOf(t.parent, roots[i], slots[i]) = {}
  BY <1>1, <1>10, TreeHeld
<1>12. /\ slots' = slots /\ pins' = pins /\ nextGeneration' = nextGeneration
       /\ nextLeaseGeneration' = g + 5 /\ g \in Nat
       /\ nodes \in [Nodes -> Node] /\ slots[i].publication = "idle"
  <2>1. /\ UNCHANGED <<bankVars, pins>> /\ reserveLeaseGenerations(5)
        /\ SessionAt(slots[i], e, id, n)
    BY <1>10
  <2>2. nextLeaseGeneration \in Nat /\ nodes \in [Nodes -> Node]
    BY TreeAssumption DEF TreeInv, TreeTypes
  <2> QED BY <1>2, <2>1, <2>2
          DEF bankVars, reserveLeaseGenerations, SessionAt
<1>13. /\ scope.index \in Nodes /\ scope.index \in 0 .. NodeCount
       /\ leaves \subseteq NodesOf(i)
  <2>1. scope.index \in NodesOf(i) /\ scope.index \in Nodes
    BY <1>1, <1>10, NodeAccepted
  <2> QED BY <1>3, <2>1, TreeAssumption DEF Nodes, NodesOf, LeavesBelow, LeavesOf
<1>14. NodesTurn(i, {}, {}) /\ PinsTurn(i, {}, {})
  <2>1. ASSUME NEW j \in leaves
        PROVE  /\ j \in NodesOf(i) /\ nodes'[j].state # "free"
               /\ nodes'[j].slot = i /\ nodes'[j].tree = nodes[j].tree
               /\ nodes'[j].generation = nodes[j].generation
               /\ nodes'[j].kind = nodes[j].kind
    <3> DEFINE m == [nodes[j] EXCEPT !.state = "quiescing", !.pending = g]
    <3>1. /\ j \in NodesOf(i) /\ j \in Nodes /\ nodes[j].slot = i
          /\ nodes[j] \in Node
      BY <1>12, <1>13 DEF NodesOf
    <3>2. nodes'[j] = m
      BY <1>10, <3>1
    <3>3. /\ m.state = "quiescing" /\ m.slot = nodes[j].slot
          /\ m.tree = nodes[j].tree /\ m.generation = nodes[j].generation
          /\ m.kind = nodes[j].kind
      BY ONLY <3>1 DEF Node
    <3> HIDE DEF m
    <3> QED BY <3>1, <3>2, <3>3
  <2> QED BY <1>10, <1>12, <2>1, PinsStay DEF NodesTurn
<1>15. claim \in Claim
  <2>1. leaves \in SUBSET Nodes
    BY <1>13 DEF NodesOf
  <2> QED BY <1>4, <1>12, <2>1, NodesTotal DEF ClaimOf, Total
<1>16. q \in Pending /\ q.kind = "retire"
  <2>1. g + 2 \in Nat /\ g + 3 \in Nat /\ g + 4 \in Nat
    BY <1>12
  <2> QED BY ONLY <1>5, <1>12, <1>13, <1>15, <2>1 DEF Pending
<1>17. /\ root \in ActiveRoot /\ root.pending = q
       /\ root.identity = t.root.identity /\ root.revision = t.root.revision
  BY <1>6, <1>11, <1>16, RootDecides
<1>18. PICK h \in Nat : h = g + 1
  BY <1>12
<1>19. settled = Advanced(root, h) /\ settled.pending = q
  <2>1. settled = Advanced(root, h)
    BY <1>7, <1>18 DEF Advanced
  <2> QED BY <1>17, <2>1, AdvancedType
<1>20. DecisionOf(t.parent, Advanced(root, h), slots[i]) = new
  BY <1>8, <1>16, <1>19 DEF DecisionOf, DecisionOn
<1>21. /\ old = DecisionOf(t.parent, roots[i], slots[i])
                 \union LeafHandles(t.parent, {})
                 \union PinHandles(t.parent, {})
       /\ new = DecisionOf(t.parent, Advanced(root, h), slots[i])
                 \union {NodeAt(t.parent, j, nodes'[j]) : j \in {}}
                 \union {PinAt(t.parent, p, pins'[p]) : p \in {}}
  BY <1>9, <1>11, <1>20, NoLeases
<1>22. /\ AdvanceTree(t.parent, root, h, old, new)
       /\ nextLeaseGeneration <= nextLeaseGeneration'
       /\ root.identity = roots[i].identity /\ root.revision = roots[i].revision
       /\ roots[i] \in ActiveRoot
  <2>1. AdvanceTree(t.parent, root, h, old, new)
    BY <1>10, <1>18
  <2>2. nextLeaseGeneration <= nextLeaseGeneration'
    BY <1>2, <1>12
  <2> QED BY <1>11, <1>17, <2>1, <2>2
<1> QED BY <1>1, <1>11, <1>12, <1>14, <1>17, <1>21, <1>22, AdvanceHandles

-----------------------------------------------------------------------------
(* Closing a tree.                                                         *)

\* What is known of a tree that is cleared.
LEMMA ClearedTree ==
    ASSUME TreeInv, NEW t \in Trees, NEW old, validateLeaseTree(t),
           ClearTree(t, old), NEW i, i = t.parent.slot
    PROVE  /\ t \in TreeToken /\ t.parent \in Receipt /\ i \in Slots
           /\ Committed(slots, t.parent) /\ t = TreeAt(t.parent, roots[i])
           /\ roots[i].state = "active"
           /\ RootHandles(slots, roots, i) = {t} /\ PinsOf(i) = {}
           /\ roots'[i] = FreeRoot /\ FreeRoot.state = "free"
           /\ \A k \in Slots \ {i} : roots'[k] = roots[k]
           /\ \A j \in NodesOf(i) : nodes'[j].state = "free"
           /\ \A j \in Nodes \ NodesOf(i) : nodes'[j] = nodes[j]
           /\ pins' = pins /\ nextGeneration' = nextGeneration
           /\ nextLeaseGeneration' = nextLeaseGeneration
           /\ Exchange({t} \union LeafHandles(t.parent, NodesOf(i)) \union old,
                       {})
<1>1. /\ t.root.pending.kind = "none" /\ LeavesOf(i) = {}
      /\ nodes' = [j \in Nodes |-> IF j \in NodesOf(i) THEN FreeNode
                                                       ELSE nodes[j]]
      /\ roots' = [roots EXCEPT ![i] = FreeRoot]
      /\ Exchange({t} \union LeafHandles(t.parent, NodesOf(i)) \union old, {})
      /\ nextGeneration' = nextGeneration /\ pins' = pins
      /\ nextLeaseGeneration' = nextLeaseGeneration
  BY DEF ClearTree, generationVars
<1>2. /\ t.parent \in Receipt /\ i \in Slots /\ Committed(slots, t.parent)
      /\ roots[i] = t.root /\ t.root \in ActiveRoot
      /\ DecisionOf(t.parent, roots[i], slots[i]) = {}
  BY <1>1, TreeHeld
<1>3. t \in TreeToken /\ t = TreeAt(t.parent, roots[i])
  <2>1. t \in TreeToken
    BY TokenKinds DEF TreeInv
  <2>2. TreeAt(t.parent, roots[i]) \in TreeToken
    BY <1>2 DEF TreeAt, TreeToken
  <2> QED BY <1>2, <2>1, <2>2, TokenExt DEF TreeAt
<1>4. RootHandles(slots, roots, i) = {t}
  <2>1. slots[i] \in Slot
    BY <1>2 DEF TreeInv, TreeTypes
  <2> QED BY <1>2, <1>3, <2>1, RootNames
<1>5. PinsOf(i) = {}
  <2>1. PinsSound(i)
    BY <1>2 DEF TreeInv, TreeSound
  <2> QED BY <1>1, <2>1 DEF PinsSound
<1>6. /\ roots'[i] = FreeRoot /\ FreeRoot.state = "free"
      /\ \A k \in Slots \ {i} : roots'[k] = roots[k]
  BY <1>1, <1>2 DEF FreeRoot, TreeInv, TreeTypes
<1>7. /\ \A j \in NodesOf(i) : nodes'[j].state = "free"
      /\ \A j \in Nodes \ NodesOf(i) : nodes'[j] = nodes[j]
  BY <1>1 DEF FreeNode, NodesOf
<1> QED BY <1>1, <1>2, <1>3, <1>4, <1>5, <1>6, <1>7 DEF ActiveRoot

\* The handles of the root and of the scopes end with it.
LEMMA CloseTreeHandles ==
    ASSUME TreeInv, TreeInv', HandlesSound, NEW t \in Trees, closeLeaseTree(t)
    PROVE  HandlesSound'
<1>1. PICK i : i = t.parent.slot
  OBVIOUS
<1>2. PICK none : none = {}
  OBVIOUS
<1>3. /\ validateLeaseTree(t) /\ ClearTree(t, none)
      /\ slots[i].publication = "idle" /\ slots' = slots
  BY <1>1, <1>2 DEF closeLeaseTree
<1>4. /\ t.parent \in Receipt /\ i \in Slots /\ Committed(slots, t.parent)
      /\ RootHandles(slots, roots, i) = {t}
      /\ roots'[i].state = "free"
      /\ \A k \in Slots \ {i} : roots'[k] = roots[k]
      /\ \A j \in NodesOf(i) : nodes'[j].state = "free"
      /\ \A j \in Nodes \ NodesOf(i) : nodes'[j] = nodes[j]
      /\ pins' = pins /\ nextGeneration' = nextGeneration
      /\ nextLeaseGeneration' = nextLeaseGeneration
      /\ Exchange({t} \union LeafHandles(t.parent, NodesOf(i)) \union none, {})
  BY <1>1, <1>3, ClearedTree
<1>5. PICK G : G = NodesOf(i)
  OBVIOUS
<1>6. NodesTurn(i, G, {}) /\ PinsTurn(i, {}, {})
  BY <1>4, <1>5, PinsStay DEF NodesTurn
<1>7. RootHandles(slots', roots', i) = {}
  BY <1>4, RootNamesNothing
<1>8. Exchange(RootHandles(slots, roots, i) \union LeafHandles(t.parent, G)
                 \union PinHandles(t.parent, {}),
               RootHandles(slots', roots', i)
                 \union {NodeAt(t.parent, j, nodes'[j]) : j \in {}}
                 \union {PinAt(t.parent, p, pins'[p]) : p \in {}})
  <2>1. RootHandles(slots, roots, i) \union LeafHandles(t.parent, G)
          \union PinHandles(t.parent, {})
        = {t} \union LeafHandles(t.parent, NodesOf(i)) \union none
    BY <1>2, <1>4, <1>5, NoLeases
  <2>2. RootHandles(slots', roots', i)
          \union {NodeAt(t.parent, j, nodes'[j]) : j \in {}}
          \union {PinAt(t.parent, p, pins'[p]) : p \in {}}
        = {}
    BY <1>7, NoLeases
  <2> QED BY <1>4, <2>1, <2>2
<1>9. RootMoves(i)
  BY <1>4 DEF RootMoves
<1>10. nextLeaseGeneration <= nextLeaseGeneration'
  BY <1>4, TreeAssumption DEF TreeInv, TreeTypes
<1> QED BY <1>1, <1>3, <1>4, <1>6, <1>8, <1>9, <1>10, TreeChangeHandles

\* With the receipt, every handle of its slot and its tree ends.
LEMMA CloseSessionHandles ==
    ASSUME TreeInv, TreeInv', HandlesSound, NEW t \in Trees, NEW e, NEW id,
           NEW n, closeActivatedRestoredPublicationSession(t, e, id, n)
    PROVE  HandlesSound'
<1>1. PICK i : i = t.parent.slot
  OBVIOUS
<1>2. PICK r : r = t.parent
  OBVIOUS
<1>3. PICK rest : rest = {r}
  OBVIOUS
<1>4. PICK new : new = {}
  OBVIOUS
<1>5. /\ validateLeaseTree(t) /\ ClearTree(t, rest)
      /\ slots[i].publication = "idle" /\ slots' = [slots EXCEPT ![i] = FreeSlot]
  BY <1>1, <1>2, <1>3 DEF closeActivatedRestoredPublicationSession, SessionAt
<1>6. /\ t \in TreeToken /\ r \in Receipt /\ i \in Slots /\ i = r.slot
      /\ Committed(slots, r) /\ t.parent = r /\ t = TreeAt(r, roots[i])
      /\ RootHandles(slots, roots, i) = {t} /\ PinsOf(i) = {}
      /\ roots'[i].state = "free"
      /\ \A k \in Slots \ {i} : roots'[k] = roots[k]
      /\ \A j \in NodesOf(i) : nodes'[j].state = "free"
      /\ \A j \in Nodes \ NodesOf(i) : nodes'[j] = nodes[j]
      /\ pins' = pins /\ nextGeneration' = nextGeneration
      /\ nextLeaseGeneration' = nextLeaseGeneration
      /\ Exchange({t} \union LeafHandles(r, NodesOf(i)) \union rest, new)
  BY <1>1, <1>2, <1>4, <1>5, ClearedTree, ZenonT(60)
<1>7. PICK leaves : leaves = LeafHandles(r, NodesOf(i))
  OBVIOUS
<1>8. PICK old : old = {t} \union leaves \union rest
  OBVIOUS
<1>9. /\ slots \in [Slots -> Slot] /\ nodes \in [Nodes -> Node]
      /\ pins \in [PinSlots -> Pin]
      /\ nextLeaseGeneration \in Nat /\ nextGeneration \in Nat
  BY TreeAssumption DEF TreeInv, TreeTypes
<1>10. /\ slots'[i].state = "free" /\ slots'[i].publication = "idle"
       /\ \A k \in Slots \ {i} : slots'[k] = slots[k] /\ roots'[k] = roots[k]
  BY <1>5, <1>6, <1>9 DEF FreeSlot
<1>11. NodesOnly(i) /\ PinsOnly(i)
  <2>1. \A j \in NodesOf(i) : nodes[j].slot = i
    BY DEF NodesOf
  <2> QED BY <1>6, <2>1 DEF NodesOnly, PinsOnly, InTree
<1>12. \A u \in leaves : u \in NodeToken /\ u.parent = r /\ StandsNow(u)
  <2>1. ASSUME NEW u \in leaves
        PROVE  u \in NodeToken /\ u.parent = r /\ StandsNow(u)
    <3>1. PICK j \in NodesOf(i) : u = NodeAt(r, j, nodes[j])
      BY <1>7 DEF LeafHandles
    <3>2. j \in Nodes /\ nodes[j].state # "free" /\ nodes[j].slot = i
      BY DEF NodesOf
    <3>3. u \in NodeToken
      BY <1>6, <1>9, <3>1, <3>2, NodeHandleType
    <3>4. NodeStands(slots, nodes, u)
      BY <1>6, <3>1, <3>2 DEF NodeStands, NodeAt
    <3> QED BY <3>1, <3>3, <3>4, StandsByKind DEF StandsNow, NodeAt
  <2> QED BY <2>1
<1>13. StandsNow(t) /\ StandsNow(r)
  <2>1. TreeStands(slots, roots, t)
    BY <1>6 DEF TreeStands, TreeAt
  <2> QED BY <1>6, <2>1, StandsByKind DEF StandsNow
<1>14. old \subseteq HandlesAt(i) /\ \A u \in old : StandsNow(u)
  <2>1. /\ t \in AtTree(i) /\ r \in AtSlot(i) /\ leaves \subseteq AtTree(i)
    BY <1>6, <1>12 DEF AtTree, AtSlot, OnTree
  <2> QED BY <1>3, <1>8, <1>12, <1>13, <2>1 DEF HandlesAt
<1>15. ASSUME NEW u \in AtSlot(i)
       PROVE  ~StandsNow(u)' /\ (StandsNow(u) => u \in old)
  <2>1. CASE u \in Reservation
    <3>1. u.slot = i
      BY <1>15, <2>1, KindsApart DEF AtSlot
    <3> QED BY <1>6, <1>10, <2>1, <3>1, SlotStands DEF Committed
  <2>2. CASE u \in Receipt
    <3>1. u.slot = i
      BY <1>15, <2>2, KindsApart DEF AtSlot
    <3>2. StandsNow(u) => Committed(slots, u)
      BY <2>2, StandsByKind DEF StandsNow
    <3>3. StandsNow(u) => u = r
      BY <1>6, <2>2, <3>1, <3>2, OneReceipt
    <3> QED BY <1>3, <1>8, <1>10, <2>2, <3>1, <3>3, SlotStands
  <2>3. CASE u \in PublicationPermit
    <3>1. u.receipt.slot = i
      BY <1>15, <2>3, KindsApart DEF AtSlot
    <3> QED BY <1>5, <1>10, <2>3, <3>1, SlotStands
  <2> QED BY <1>15, <2>1, <2>2, <2>3 DEF AtSlot
<1>16. ASSUME NEW u \in AtTree(i)
       PROVE  ~StandsNow(u)' /\ (StandsNow(u) => u \in old)
  <2>1. u \in OnTree /\ u.parent.slot = i /\ u.parent \in Receipt
    BY <1>16, KindsApart DEF AtTree, OnTree
  <2>2. ~Committed(slots', u.parent)
    BY <1>10, <2>1 DEF Committed
  <2>3. CASE u \in TreeToken
    <3>1. /\ StandsNow(u) <=> TreeStands(slots, roots, u)
          /\ StandsNow(u)' <=> TreeStands(slots', roots', u)
      BY <2>3, StandsByKind DEF StandsNow
    <3>2. TreeStands(slots, roots, u) => u \in RootHandles(slots, roots, i)
      BY <2>1, <2>3 DEF RootHandles
    <3> QED BY <1>6, <1>8, <2>2, <3>1, <3>2 DEF TreeStands
  <2>4. CASE u \in DecisionToken
    <3>1. /\ StandsNow(u) <=> DecisionStands(slots, roots, u)
          /\ StandsNow(u)' <=> DecisionStands(slots', roots', u)
      BY <2>4, StandsByKind DEF StandsNow
    <3>2. DecisionStands(slots, roots, u) => u \in RootHandles(slots, roots, i)
      BY <2>1, <2>4 DEF RootHandles
    <3> QED BY <1>6, <1>8, <2>2, <3>1, <3>2 DEF DecisionStands, TreeStands
  <2>5. CASE u \in NodeToken
    <3>1. /\ StandsNow(u) <=> NodeStands(slots, nodes, u)
          /\ StandsNow(u)' <=> NodeStands(slots', nodes', u)
          /\ u.index \in Nodes
      BY <2>5, StandsByKind DEF StandsNow, NodeToken
    <3>2. ASSUME NodeStands(slots, nodes, u) PROVE u \in leaves
      <4>1. /\ u.parent = r /\ nodes[u.index].tree = u.tree
            /\ nodes[u.index].generation = u.generation
            /\ nodes[u.index].kind = u.nodeKind /\ u.index \in NodesOf(i)
        BY <1>6, <2>1, <3>1, <3>2, OneReceipt DEF NodeStands, NodesOf
      <4>2. NodeAt(r, u.index, nodes[u.index]) \in NodeToken
        BY <1>6, <1>9, <3>1, NodeHandleType
      <4>3. u = NodeAt(r, u.index, nodes[u.index])
        BY <2>5, <4>1, <4>2, TokenExt DEF NodeAt
      <4> QED BY <1>7, <4>1, <4>3 DEF LeafHandles
    <3> QED BY <1>8, <2>2, <3>1, <3>2 DEF NodeStands
  <2>6. CASE u \in PinToken
    <3>1. /\ StandsNow(u) <=> PinStands(slots, pins, u)
          /\ StandsNow(u)' <=> PinStands(slots', pins', u)
          /\ u.index \in PinSlots /\ u.pin.state = "active" /\ u.pin.slot = i
      BY <2>1, <2>6, StandsByKind DEF StandsNow, PinToken
    <3> QED BY <1>6, <2>2, <3>1 DEF PinStands, PinsOf
  <2> QED BY <2>1, <2>3, <2>4, <2>5, <2>6 DEF OnTree
<1>17. Turns(old, new, HandlesAt(i))
  BY <1>4, <1>15, <1>16 DEF Turns, HandlesAt
<1>18. Exchange(old, new)
  BY <1>6, <1>7, <1>8
<1>19. /\ new \subseteq HandlesAt(i) /\ new \intersect issued = {}
       /\ \A u \in new : Behind(u)'
  BY <1>4
<1>20. /\ SlotOnward(i) /\ RootOnward(i) /\ SessionSound(i)'
       /\ nextGeneration <= nextGeneration'
       /\ nextLeaseGeneration <= nextLeaseGeneration'
  BY <1>6, <1>9, <1>10 DEF SlotOnward, RootOnward, SessionSound
<1> QED BY <1>6, <1>10, <1>11, <1>14, <1>17, <1>18, <1>19, <1>20,
           SlotStepHandles

-----------------------------------------------------------------------------
(* Every step.                                                             *)

\* The steps that open, close and publish trees keep the handles sound.
LEMMA TopologyStepHandles ==
    ASSUME TreeInv, TreeInv', HandlesSound, 0 \notin SessionIds, TopologyStep
    PROVE  HandlesSound'
<1>1. CASE \E t \in Receipts, c \in Ceilings, f \in FundingModes :
              openLeaseTreeWithFundingMode(t, c, f)
  BY <1>1, OpenTreeHandles
<1>2. CASE \E t \in Trees, key \in Keys, c \in Ceilings :
              openLeaseScope(t, key, c)
  BY <1>2, OpenScopeHandles
<1>3. CASE \E t \in Trees : closeLeaseTree(t)
  BY <1>3, CloseTreeHandles
<1>4. CASE \E t \in Trees, e \in RequestEpochs, id \in SessionIds :
              bindPublicationSessionWithLeaseTree(t, e, id)
  <2>1. 0 \in Nat /\ SessionIds \subseteq Nat \ {0}
    BY CallersPresentNumbers
  <2> QED BY <1>4, <2>1, BindTreeHandles, CallersPresentNumbers
<1>5. CASE \E t \in Trees, e \in RequestEpochs, id \in SessionIds,
              point \in RestorePoints :
              bindRestoredPublicationSession(t, e, id, point[1], point[2])
  <2>1. PICK t \in Trees, e \in RequestEpochs, id \in SessionIds,
             point \in RestorePoints :
             bindRestoredPublicationSession(t, e, id, point[1], point[2])
    BY <1>5
  <2>2. PICK n, g : n = point[1] /\ g = point[2]
    OBVIOUS
  <2>3. g \in Nat /\ bindRestoredPublicationSession(t, e, id, n, g)
    BY <2>1, <2>2, CallersPresentNumbers
  <2> QED BY <2>3, RestoreHandles
<1>6. CASE \E t \in Trees, e \in RequestEpochs, id \in SessionIds,
              n \in Sequences : beginPublicationWithLeaseTree(t, e, id, n)
  <2>1. SessionIds \subseteq Nat \ {0}
    BY CallersPresentNumbers
  <2> QED BY <1>6, <2>1, BindTreeHandles, CallersPresentNumbers
<1>7. CASE \E t \in Trees, e \in RequestEpochs, id \in SessionIds,
              n \in Sequences :
              closeActivatedRestoredPublicationSession(t, e, id, n)
  BY <1>7, CloseSessionHandles
<1> QED BY <1>1, <1>2, <1>3, <1>4, <1>5, <1>6, <1>7 DEF TopologyStep

\* So do the steps of a publication session on its tree.
LEMMA SessionStepHandles ==
    ASSUME TreeInv, TreeInv', HandlesSound, SessionStep PROVE HandlesSound'
<1>1. PICK t \in Trees, e \in RequestEpochs, id \in SessionIds,
           n \in Sequences :
        \/ \E specs \in SpecLists :
              reserveAllocationsForSession(t, e, id, n, specs)
        \/ \E scope \in NodeHandles :
              \/ beginRetireSubtreeForSession(t, scope, e, id, n)
              \/ \E leaves \in LeafSets :
                   acquireLeasePinsForSession(t, scope, e, id, n, leaves)
        \/ \E b \in Batches, g \in 0 .. MaxPermitGeneration :
              commitFundedAllocationsAndActivateRestoredPublication(
                  t, b, e, id, n, g)
  BY DEF SessionStep
<1>2. e \in Nat /\ id \in Nat /\ n \in Nat
  BY CallersPresentNumbers
<1>3. ASSUME NEW specs \in SpecLists,
             reserveAllocationsForSession(t, e, id, n, specs)
      PROVE  HandlesSound'
  BY <1>3, WaveHandles
<1>4. ASSUME NEW scope \in NodeHandles,
             beginRetireSubtreeForSession(t, scope, e, id, n)
      PROVE  HandlesSound'
  BY <1>4, RetireHandles
<1>5. ASSUME NEW scope \in NodeHandles, NEW leaves \in LeafSets,
             acquireLeasePinsForSession(t, scope, e, id, n, leaves)
      PROVE  HandlesSound'
  <2>1. leaves \in SUBSET NodeHandles
    BY DEF LeafSets
  <2> QED BY <1>2, <1>5, <2>1, AcquireHandles
<1>6. ASSUME NEW b \in Batches, NEW g \in 0 .. MaxPermitGeneration,
             commitFundedAllocationsAndActivateRestoredPublication(
                 t, b, e, id, n, g)
      PROVE  HandlesSound'
  BY <1>6, DecidedHandles
<1> QED BY <1>1, <1>3, <1>4, <1>5, <1>6

\* So do the steps that settle a decision or release a pin.
LEMMA DecisionStepHandles ==
    ASSUME TreeInv, TreeInv', HandlesSound, DecisionStep PROVE HandlesSound'
<1>1. ASSUME NEW t \in Batches,
             commitAllocationsAfterAllocate(t) \/ abortAllocationsAfterFree(t)
      PROVE  HandlesSound'
  BY <1>1, DecidedHandles, DropHandles
<1>2. ASSUME NEW t \in Tickets, cancelRetire(t) \/ authorizeFree(t)
      PROVE  HandlesSound'
  BY <1>2, DecidedHandles, AuthorizeHandles
<1>3. ASSUME NEW t \in FreePermits, commitFreeAfterAllocatorFree(t)
      PROVE  HandlesSound'
  BY <1>3, DropHandles
<1>4. ASSUME NEW t \in PinPermits, releaseLeasePins(t)
      PROVE  HandlesSound'
  BY <1>4, ReleaseHandles
<1> QED BY <1>1, <1>2, <1>3, <1>4 DEF DecisionStep

\* So does every step, and one that changes nothing.
LEMMA HandlesStep ==
    ASSUME TreeInv, HandlesSound, 0 \notin SessionIds, [TreeNext]_allVars
    PROVE  HandlesSound'
<1>1. TreeInv'
  BY TreeStepKeeps
<1>2. CASE TreeNext
  BY <1>1, <1>2, ReceiptStepHandles, TopologyStepHandles, SessionStepHandles,
     DecisionStepHandles DEF TreeNext
<1>3. CASE UNCHANGED allVars
  <2>1. /\ slots' = slots /\ nextGeneration' = nextGeneration
        /\ issued' = issued /\ spent' = spent /\ replayed' = replayed
        /\ roots' = roots /\ nodes' = nodes /\ pins' = pins
        /\ nextLeaseGeneration' = nextLeaseGeneration
    BY <1>3 DEF allVars, vars, treeVars, generationVars, handleVars
  <2>2. \A t : StandsNow(t)' <=> StandsNow(t)
    BY <2>1 DEF StandsNow
  <2>3. \A t \in issued : Behind(t)'
    BY <2>1 DEF HandlesSound, Behind
  <2>4. \A i \in Slots : SessionSound(i)'
    BY <2>1 DEF HandlesSound, SessionSound
  <2> QED BY <2>1, <2>2, <2>3, <2>4 DEF HandlesSound
<1> QED BY <1>2, <1>3

\* A new Bank has issued nothing and its records name nothing.
LEMMA HandlesInit == ASSUME TreeInit PROVE HandlesSound
<1>1. /\ slots = [i \in Slots |-> FreeSlot]
      /\ issued = {} /\ spent = {} /\ replayed = {}
  BY DEF TreeInit, Init
<1>2. FreeSlot.state = "free" /\ FreeSlot.publication = "idle"
  BY DEF FreeSlot
<1>3. ASSUME NEW r \in Receipt PROVE ~Committed(slots, r)
  BY <1>1, <1>2, <1>3, KindsApart DEF Committed
<1>4. ASSUME NEW t \in Token PROVE ~StandsNow(t)
  <2>1. CASE t \in Reservation
    <3>1. slots[t.slot].state = "free"
      BY <1>1, <1>2, <2>1, KindsApart
    <3> QED BY <2>1, <3>1, StandsByKind DEF StandsNow, ReservationStands
  <2>2. CASE t \in Receipt
    BY <1>3, <2>2, StandsByKind DEF StandsNow
  <2>3. CASE t \in PublicationPermit
    BY <1>3, <2>3, StandsByKind, KindsApart DEF StandsNow, PermitStands
  <2>4. CASE t \in TreeToken
    BY <1>3, <2>4, StandsByKind, KindsApart DEF StandsNow, TreeStands
  <2>5. CASE t \in NodeToken
    BY <1>3, <2>5, StandsByKind, KindsApart DEF StandsNow, NodeStands
  <2>6. CASE t \in DecisionToken
    BY <1>3, <2>6, StandsByKind, KindsApart
       DEF StandsNow, DecisionStands, TreeStands
  <2>7. CASE t \in PinToken
    BY <1>3, <2>7, StandsByKind, KindsApart DEF StandsNow, PinStands
  <2> QED BY <2>1, <2>2, <2>3, <2>4, <2>5, <2>6, <2>7 DEF Token
<1>5. \A i \in Slots : SessionSound(i)
  BY <1>1, <1>2 DEF SessionSound
<1> QED BY <1>1, <1>4, <1>5 DEF HandlesSound

-----------------------------------------------------------------------------
(* The theorems.                                                           *)

\* At every moment the records name exactly the handles that were issued and
\* not consumed, no handle was consumed twice, and what is still to be issued
\* is new.  Session id 0 is left out because beginPublicationLocked does not
\* reject it: a permit begun on an unbound receipt would be forgotten by the
\* next bind, which makes the publication idle.
THEOREM TreeHandlesSound ==
    ASSUME 0 \notin SessionIds PROVE TreeSpec => [](TreeInv /\ HandlesSound)
<1>1. TreeInit => TreeInv /\ HandlesSound
  BY TreeInitKeeps, HandlesInit
<1>2. TreeInv /\ HandlesSound /\ [TreeNext]_allVars => (TreeInv /\ HandlesSound)'
  BY TreeStepKeeps, HandlesStep
<1> QED BY <1>1, <1>2, PTL DEF TreeSpec

\* A handle is honoured by the validator of its kind and by no other.
LEMMA OneValidator ==
    /\ \A t \in Reservation :
          Honoured(t) \/ HonouredTree(t) <=> validateReservation(t)
    /\ \A t \in Receipt :
          Honoured(t) \/ HonouredTree(t) <=> validateReceipt(t)
    /\ \A t \in PublicationPermit :
          Honoured(t) \/ HonouredTree(t) <=> validatePublicationPermit(t)
    /\ \A t \in TreeToken :
          Honoured(t) \/ HonouredTree(t) <=> validateLeaseTree(t)
    /\ \A t \in NodeToken :
          Honoured(t) \/ HonouredTree(t) <=> validateLeaseNode(t)
    /\ \A t \in DecisionToken :
          Honoured(t) \/ HonouredTree(t) <=> validateDecision(t)
    /\ \A t \in PinToken :
          Honoured(t) \/ HonouredTree(t) <=> validateLeasePin(t)
<1>1. \A t : /\ validateReservation(t) => t.kind = "reservation"
             /\ validateReceipt(t) => t.kind = "receipt"
             /\ validateChildLease(t) => t.kind = "child"
             /\ validatePublicationPermit(t) => t.kind = "permit"
  BY DEF validateReservation, validateReceipt, validateChildLease,
         validatePublicationPermit
<1>2. \A t : /\ validateLeaseTree(t) => t.kind = "tree"
             /\ validateLeaseNode(t) => t.kind = "node"
             /\ validateDecision(t) => t.kind \in {"batch", "ticket", "free"}
             /\ validateLeasePin(t) => t.kind = "pin"
  BY DEF validateLeaseTree, validateLeaseNode, validateDecision,
         validateLeasePin
<1>3. \A t : Honoured(t) \/ HonouredTree(t) <=>
                \/ validateReservation(t) \/ validateReceipt(t)
                \/ validateChildLease(t) \/ validatePublicationPermit(t)
                \/ validateLeaseTree(t) \/ validateLeaseNode(t)
                \/ validateDecision(t) \/ validateLeasePin(t)
  BY DEF Honoured, HonouredTree
<1>4. ASSUME NEW t \in Reservation
      PROVE  Honoured(t) \/ HonouredTree(t) <=> validateReservation(t)
  <2>1. t.kind = "reservation"
    BY KindsApart
  <2> QED BY <1>1, <1>2, <1>3, <2>1
<1>5. ASSUME NEW t \in Receipt
      PROVE  Honoured(t) \/ HonouredTree(t) <=> validateReceipt(t)
  <2>1. t.kind = "receipt"
    BY KindsApart
  <2> QED BY <1>1, <1>2, <1>3, <2>1
<1>6. ASSUME NEW t \in PublicationPermit
      PROVE  Honoured(t) \/ HonouredTree(t) <=> validatePublicationPermit(t)
  <2>1. t.kind = "permit"
    BY KindsApart
  <2> QED BY <1>1, <1>2, <1>3, <2>1
<1>7. ASSUME NEW t \in TreeToken
      PROVE  Honoured(t) \/ HonouredTree(t) <=> validateLeaseTree(t)
  <2>1. t.kind = "tree"
    BY KindsApart
  <2> QED BY <1>1, <1>2, <1>3, <2>1
<1>8. ASSUME NEW t \in NodeToken
      PROVE  Honoured(t) \/ HonouredTree(t) <=> validateLeaseNode(t)
  <2>1. t.kind = "node"
    BY KindsApart
  <2> QED BY <1>1, <1>2, <1>3, <2>1
<1>9. ASSUME NEW t \in DecisionToken
      PROVE  Honoured(t) \/ HonouredTree(t) <=> validateDecision(t)
  <2>1. t.kind \in {"batch", "ticket", "free"}
    BY KindsApart
  <2> QED BY <1>1, <1>2, <1>3, <2>1
<1>10. ASSUME NEW t \in PinToken
      PROVE  Honoured(t) \/ HonouredTree(t) <=> validateLeasePin(t)
  <2>1. t.kind = "pin"
    BY KindsApart
  <2> QED BY <1>1, <1>2, <1>3, <2>1
<1> QED BY <1>4, <1>5, <1>6, <1>7, <1>8, <1>9, <1>10

\* The handles that the Bank acts on are those that its records name: a
\* decision and a pin find their session as it was and their root active.
LEMMA StandsIsHonoured ==
    ASSUME TreeInv, HandlesSound, NEW t \in issued
    PROVE  StandsNow(t) <=> Honoured(t) \/ HonouredTree(t)
<1>1. t \in Token
  BY DEF TreeInv, TreeTypes
<1>2. \A r \in Receipt : validateReceipt(r) <=> Committed(slots, r)
  BY KindsApart DEF validateReceipt, Committed
<1>3. CASE t \in Reservation
  BY <1>1, <1>3, OneValidator, StandsByKind, KindsApart
     DEF StandsNow, ReservationStands, validateReservation
<1>4. CASE t \in Receipt
  BY <1>1, <1>2, <1>4, OneValidator, StandsByKind DEF StandsNow
<1>5. CASE t \in PublicationPermit
  <2>1. validatePublicationPermit(t) <=> PermitStands(slots, t)
    BY <1>2, <1>5, KindsApart
       DEF PermitStands, InSession, validatePublicationPermit
  <2> QED BY <1>1, <1>5, <2>1, OneValidator, StandsByKind DEF StandsNow
<1>6. CASE t \in TreeToken
  <2>1. validateLeaseTree(t) <=> TreeStands(slots, roots, t)
    BY <1>2, <1>6, KindsApart DEF TreeStands, validateLeaseTree
  <2> QED BY <1>1, <1>6, <2>1, OneValidator, StandsByKind DEF StandsNow
<1>7. CASE t \in NodeToken
  <2>1. validateLeaseNode(t) <=> NodeStands(slots, nodes, t)
    BY <1>2, <1>7, KindsApart DEF NodeStands, validateLeaseNode
  <2> QED BY <1>1, <1>7, <2>1, OneValidator, StandsByKind DEF StandsNow
<1>8. CASE t \in DecisionToken
  <2>1. t.parent \in Receipt /\ t.parent.slot \in Slots
    BY <1>8, KindsApart
  <2>2. t.root.pending.kind # "none"
    BY <1>8 DEF DecisionToken, DecisionOn
  <2>3. roots[t.parent.slot] = t.root => slots[t.parent.slot].publication = "idle"
    BY <2>1, <2>2, SlotFields DEF HandlesSound, SessionSound
  <2>4. validateDecision(t) <=> DecisionStands(slots, roots, t)
    BY <1>2, <1>8, <2>1, <2>3, KindsApart
       DEF DecisionStands, TreeStands, InSession, SessionAt, validateDecision
  <2> QED BY <1>1, <1>8, <2>4, OneValidator, StandsByKind DEF StandsNow
<1>9. CASE t \in PinToken
  <2>1. /\ t.parent \in Receipt /\ t.parent.slot \in Slots /\ t.kind = "pin"
        /\ t.index \in PinSlots
        /\ t.pin.state = "active" /\ t.pin.slot = t.parent.slot
    BY <1>9, KindsApart DEF PinToken
  <2>2. ASSUME pins[t.index] = t.pin
        PROVE  /\ roots[t.parent.slot].state = "active"
               /\ roots[t.parent.slot].identity = t.pin.tree
    <3>1. t.index \in PinsOf(t.parent.slot)
      BY <2>1, <2>2 DEF PinsOf
    <3>2. PinsSound(t.parent.slot) /\ roots[t.parent.slot].state \in {"free", "active"}
      BY <2>1, SlotFields DEF TreeInv, TreeSound
    <3> QED BY <2>2, <3>1, <3>2 DEF PinsSound
  <2>3. validateLeasePin(t) <=> PinStands(slots, pins, t)
    BY <1>2, <2>1, <2>2 DEF PinStands, validateLeasePin
  <2> QED BY <1>1, <1>9, <2>3, OneValidator, StandsByKind DEF StandsNow
<1> QED BY <1>1, <1>3, <1>4, <1>5, <1>6, <1>7, <1>8, <1>9 DEF Token

\* The Bank honours exactly the handles that were issued and not consumed: no
\* copy of a tree, node, batch, ticket, permit or pin is acted on once its
\* tree has moved on, and no charge is held that nobody can name.
THEOREM TreeHandlesAreExact ==
    ASSUME 0 \notin SessionIds PROVE TreeSpec => []TreeHandlesExact
<1>1. TreeInv /\ HandlesSound => TreeHandlesExact
  <2>1. ASSUME TreeInv, HandlesSound, NEW t \in issued
        PROVE  t \notin spent <=> Honoured(t) \/ HonouredTree(t)
    <3>1. t \in Token
      BY <2>1 DEF TreeInv, TreeTypes
    <3>2. t \in issued \ spent <=> StandsNow(t)
      BY <2>1, <3>1 DEF HandlesSound
    <3> QED BY <2>1, <3>2, StandsIsHonoured
  <2> QED BY <2>1 DEF TreeHandlesExact
<1> QED BY <1>1, TreeHandlesSound, PTL

\* In a Bank with trees too no handle is consumed twice: a wave is settled
\* once, memory is uncharged once, a pin is released once.
THEOREM TreeConsumedOnce ==
    ASSUME 0 \notin SessionIds PROVE TreeSpec => []ConsumedOnce
<1>1. HandlesSound => ConsumedOnce
  BY DEF HandlesSound, ConsumedOnce
<1> QED BY <1>1, TreeHandlesSound, PTL

-----------------------------------------------------------------------------
(* The room that is set aside for what was accepted.                       *)

\* The structural revisions that the pending decision still takes.
StepsLeft(kind) == CASE kind = "none" -> 0
                     [] kind = "retire" -> 2
                     [] OTHER -> 1

\* Every live pin has a generation set aside for its release.
Promised == \/ reservedCompletions = 0
            \/ reservedCompletions < MaxLeaseGeneration - nextLeaseGeneration

\* A tree has a revision left for each step of its decision and each pin.
RoomLeft(i) ==
    roots[i].state = "active" =>
        roots[i].revision + StepsLeft(roots[i].pending.kind)
            + Cardinality(PinsOf(i)) <= MaxRevision

\* The session that took a pin is still the one of the receipt, and no permit
\* is live in it.
PinInSession(p) ==
    LET pin == pins[p] IN
    /\ pin.sessionId # 0
    /\ SessionAt(slots[pin.slot], pin.requestEpoch, pin.sessionId,
                 pin.sequence)

\* A leaf carries something, so a tree that carries nothing has no leaf.
LeavesCarry ==
    \A j \in Nodes : nodes[j].state # "free" /\ nodes[j].kind = "allocation"
                        => nodes[j].subtree # ZeroClaim

RoomHeld == /\ Promised /\ LeavesCarry
            /\ \A i \in Slots : RoomLeft(i)
            /\ \A p \in ActivePins : PinInSession(p)

-----------------------------------------------------------------------------
\* Sets of pins are finite.
LEMMA PinsCounted ==
    ASSUME NEW i
    PROVE  IsFiniteSet(PinsOf(i)) /\ Cardinality(PinsOf(i)) \in Nat
<1>1. PinsOf(i) \in SUBSET PinSlots
  BY DEF PinsOf
<1> QED BY <1>1, PinsFinite

\* A slot without a tree has no pins; neither has one without a bound session
\* or with a live permit.
LEMMA NoPins ==
    ASSUME TreeInv, RoomHeld, NEW i \in Slots,
           \/ slots[i].state # "committed" \/ roots[i].state = "free"
           \/ slots[i].sessionId = 0 \/ slots[i].publication # "idle"
           \/ LeavesOf(i) = {}
    PROVE  PinsOf(i) = {}
<1> SUFFICES ASSUME NEW p \in PinsOf(i) PROVE FALSE
  OBVIOUS
<1>1. p \in ActivePins /\ pins[p].slot = i
  BY DEF PinsOf, ActivePins
<1>2. slots[i].sessionId # 0 /\ slots[i].publication = "idle"
  BY <1>1 DEF RoomHeld, PinInSession, SessionAt
<1>3. TreeSound(i) /\ roots[i] \in Root
  BY DEF TreeInv, TreeTypes
<1>4. roots[i].state = "active" /\ slots[i].state = "committed"
  BY <1>3 DEF TreeSound, RootSound, PinsSound, Root
<1>5. LeavesOf(i) # {}
  BY <1>3 DEF TreeSound, PinsSound
<1> QED BY <1>2, <1>4, <1>5

\* A tree that carries nothing has no leaves.
LEMMA NoLeaves ==
    ASSUME TreeInv, LeavesCarry, NEW i \in Slots, roots[i].current = ZeroClaim
    PROVE  LeavesOf(i) = {}
<1> SUFFICES ASSUME NEW j \in LeavesOf(i) PROVE FALSE
  OBVIOUS
<1>1. /\ j \in Nodes /\ nodes[j].state # "free"
      /\ nodes[j].kind = "allocation" /\ nodes \in [Nodes -> Node]
      /\ LeavesOf(i) \in SUBSET Nodes
  BY DEF LeavesOf, NodesOf, TreeInv, TreeTypes
<1>2. nodes[j].subtree # ZeroClaim /\ nodes[j].subtree \in Claim
  BY <1>1 DEF LeavesCarry, Node
<1>3. Total(nodes, LeavesOf(i)) = ZeroClaim
  BY DEF TreeInv, TreeSound, SumsSound
<1>4. {j} \in SUBSET LeavesOf(i) /\ {j} \in SUBSET Nodes
  BY <1>1
<1>5. claimWithin(Total(nodes, {j}), ZeroClaim)
  BY <1>1, <1>3, <1>4, NodesRest
<1>6. Total(nodes, {j}) = nodes[j].subtree
  <2> DEFINE c(k) == [x \in {j} |-> nodes[x].subtree[k]]
  <2>1. ASSUME NEW k \in Classes
        PROVE  Total(nodes, {j})[k] = nodes[j].subtree[k]
    <3>1. [x \in {j} |-> nodes[x].subtree] \in [{j} -> Claim]
      BY <1>2
    <3>2. Total(nodes, {j})[k] = Sum(c(k), {j})
      BY <3>1, TotalAt DEF Total
    <3>3. c(k)[j] = nodes[j].subtree[k] /\ c(k)[j] \in Nat
      BY <1>2 DEF Claim
    <3>4. Sum(c(k), {j}) = c(k)[j] + Sum(c(k), {j} \ {j})
      BY <3>3, FS_Singleton, SumRemove
    <3>5. Sum(c(k), {j} \ {j}) = 0
      BY FS_EmptySet, SumOfZeros
    <3> HIDE DEF c
    <3> QED BY <3>2, <3>3, <3>4, <3>5
  <2>2. Total(nodes, {j}) \in Claim
    BY <1>1, <1>4, NodesTotal
  <2> QED BY <1>2, <2>1, <2>2 DEF Claim
<1>7. \A k \in Classes : nodes[j].subtree[k] = 0
  <2> TAKE k \in Classes
  <2>1. nodes[j].subtree[k] <= 0 /\ nodes[j].subtree[k] \in Nat
    BY <1>2, <1>5, <1>6 DEF claimWithin, ZeroClaim, Claim
  <2> QED BY <2>1
<1>8. nodes[j].subtree = ZeroClaim
  BY <1>2, <1>7 DEF Claim, ZeroClaim
<1> QED BY <1>2, <1>8

\* A call that works on one receipt without pins leaves the room of all trees
\* as it was.
LEMMA ReceiptRoom ==
    ASSUME TreeInv, RoomHeld, UNCHANGED treeVars, NEW i \in Slots,
           PinsOf(i) = {}, \A k \in Slots \ {i} : slots'[k] = slots[k]
    PROVE  RoomHeld'
<1>1. /\ roots' = roots /\ nodes' = nodes /\ pins' = pins
      /\ nextLeaseGeneration' = nextLeaseGeneration
      /\ reservedCompletions' = reservedCompletions
  BY DEF treeVars, generationVars
<1>2. /\ Promised' /\ LeavesCarry' /\ \A k \in Slots : RoomLeft(k)'
      /\ ActivePins' = ActivePins
  BY <1>1 DEF RoomHeld, Promised, LeavesCarry, RoomLeft, PinsOf, ActivePins
<1>3. ASSUME NEW p \in ActivePins PROVE PinInSession(p)'
  <2>1. pins[p].slot \in Slots /\ pins[p].slot # i
    BY DEF ActivePins, PinsOf, TreeInv, TreeTypes, Pin
  <2>2. slots'[pins[p].slot] = slots[pins[p].slot] /\ PinInSession(p)
    BY <2>1 DEF RoomHeld
  <2> QED BY <1>1, <2>2 DEF PinInSession
<1> QED BY <1>2, <1>3 DEF RoomHeld

\* Each receipt operation works on a receipt without pins.
LEMMA ReceiptStepRoom ==
    ASSUME TreeInv, RoomHeld, ReceiptStep PROVE RoomHeld'
<1>1. UNCHANGED treeVars
  BY DEF ReceiptStep
<1>2. /\ roots \in [Slots -> Root] /\ slots \in [Slots -> Slot]
      /\ \A t \in Receipts : t.slot \in Slots
      /\ \A t \in Reservations : t.slot \in Slots
      /\ \A t \in Permits : t.receipt.slot \in Slots
  BY TokenKinds DEF TreeInv, TreeTypes, Receipts, Reservations, Permits,
                    Receipt, Reservation, PublicationPermit
<1>3. ASSUME NEW i \in Slots, NEW s, slots' = [slots EXCEPT ![i] = s],
             \/ slots[i].state # "committed" \/ roots[i].state = "free"
             \/ slots[i].publication # "idle" \/ LeavesOf(i) = {}
      PROVE  RoomHeld'
  <2>1. PinsOf(i) = {}
    BY <1>3, NoPins
  <2> QED BY <1>1, <1>2, <1>3, <2>1, ReceiptRoom
<1>4. CASE \E c \in RequestClaims : reserve(c)
  <2>1. PICK i, s :
          /\ i \in Slots
          /\ slots[i].state = "free"
          /\ slots' = [slots EXCEPT ![i] = s]
    BY <1>4 DEF reserve, FirstFree
  <2> QED BY <1>3, <2>1
<1>5. CASE \E t \in Reservations : commit(t) \/ cancel(t)
  <2>1. PICK t, s :
          /\ t \in Reservations
          /\ slots[t.slot].state = "reserved"
          /\ slots' = [slots EXCEPT ![t.slot] = s]
    BY <1>5 DEF commit, cancel, ClearSlot, validateReservation
  <2> QED BY <1>2, <1>3, <2>1
<1>6. CASE \E t \in Receipts :
             /\ ~hasActiveLeaseTree(t.slot)
             /\ \/ release(t)
                \/ \E e \in RequestEpochs, id \in SessionIds :
                     bindPublicationSession(t, e, id)
                \/ \E e \in RequestEpochs, id \in SessionIds,
                      n \in Sequences :
                     \/ beginPublication(t, e, id, n)
                     \/ closePublicationSessionAndRelease(t, e, id, n)
  <2>1. PICK t \in Receipts :
          /\ ~hasActiveLeaseTree(t.slot)
          /\ \/ ClearSlot(t)
             \/ \E e, id : bindPublicationSessionLocked(t, e, id)
             \/ \E e, id, n : beginPublicationLocked(t, e, id, n)
    BY <1>6 DEF release, bindPublicationSession, beginPublication,
                closePublicationSessionAndRelease
  <2>2. roots[t.slot].state = "free" /\ t.slot \in Slots
    BY <1>2, <2>1 DEF hasActiveLeaseTree, Root
  <2>3. \E s : slots' = [slots EXCEPT ![t.slot] = s]
    <3>1. CASE ClearSlot(t)
      BY <3>1 DEF ClearSlot
    <3>2. CASE \E e, id : bindPublicationSessionLocked(t, e, id)
      BY <3>2, ZenonT(60) DEF bindPublicationSessionLocked
    <3>3. CASE \E e, id, n : beginPublicationLocked(t, e, id, n)
      BY <3>3 DEF beginPublicationLocked
    <3> QED BY <2>1, <3>1, <3>2, <3>3
  <2> QED BY <1>3, <2>2, <2>3
<1>7. CASE \E t \in Receipts, e \in RequestEpochs, id \in SessionIds,
              n \in Sequences :
             /\ ~leaseTreeBlocksSessionClose(t.slot)
             /\ closePublicationSession(t, e, id, n)
  <2>1. PICK t, s :
          /\ t \in Receipts
          /\ ~leaseTreeBlocksSessionClose(t.slot)
          /\ slots' = [slots EXCEPT ![t.slot] = s]
    BY <1>7 DEF closePublicationSession
  <2>2. t.slot \in Slots /\ roots[t.slot] \in Root
    BY <1>2, <2>1
  <2>3. \/ roots[t.slot].state = "free"
        \/ LeavesOf(t.slot) = {}
    BY <2>1, <2>2, NoLeaves
       DEF leaseTreeBlocksSessionClose, hasActiveLeaseTree, Root, RoomHeld
  <2> QED BY <1>3, <2>1, <2>2, <2>3
<1>8. CASE \E t \in Permits :
             commitPublicationAssumeValid(t) \/ abortPublication(t)
  <2>1. PICK t, s :
          /\ t \in Permits
          /\ slots[t.receipt.slot].publication = "active"
          /\ slots' = [slots EXCEPT ![t.receipt.slot] = s]
    BY <1>8 DEF commitPublicationAssumeValid, abortPublication,
                validatePublicationPermit
  <2> QED BY <1>2, <1>3, <2>1
<1> QED BY <1>4, <1>5, <1>6, <1>7, <1>8 DEF ReceiptStep

-----------------------------------------------------------------------------
\* A step that changes one root, and no pin, keeps the room of all trees if it
\* keeps that of its own.
LEMMA RootRoom ==
    ASSUME TreeInv, RoomHeld, NEW i \in Slots,
           \A k \in Slots \ {i} : roots'[k] = roots[k],
           slots' = slots, pins' = pins,
           roots'[i].state = "active" =>
               roots'[i].revision + StepsLeft(roots'[i].pending.kind)
                   + Cardinality(PinsOf(i)) <= MaxRevision,
           Promised', LeavesCarry'
    PROVE  RoomHeld'
<1>1. /\ \A k : PinsOf(k)' = PinsOf(k)
      /\ ActivePins' = ActivePins
  BY DEF PinsOf, ActivePins
<1>2. \A k \in Slots : RoomLeft(k)'
  BY <1>1 DEF RoomHeld, RoomLeft
<1>3. \A p \in ActivePins : PinInSession(p)'
  BY DEF RoomHeld, PinInSession
<1> QED BY <1>1, <1>2, <1>3 DEF RoomHeld

\* The generations that the caller takes leave those that were promised.
LEMMA PromiseKept ==
    ASSUME TreeInv, RoomHeld
    PROVE  /\ \A c \in Nat : reserveLeaseGenerations(c) => Promised'
           /\ UNCHANGED generationVars => Promised'
<1>1. /\ nextLeaseGeneration \in Nat /\ reservedCompletions \in Nat
      /\ MaxLeaseGeneration \in Nat
  BY TreeAssumption DEF TreeInv, TreeTypes
<1>2. ASSUME NEW c \in Nat, reserveLeaseGenerations(c) PROVE Promised'
  BY <1>1, <1>2 DEF reserveLeaseGenerations, leaseGenerationReservationFits,
                    Promised
<1> QED BY <1>2 DEF RoomHeld, Promised, generationVars

\* A step that moves a tree on and leaves its pins alone keeps the room if it
\* leaves a revision for each step its new decision still takes.
LEMMA AdvanceRoom ==
    ASSUME TreeInv, RoomHeld, NEW r \in Receipt, NEW root \in ActiveRoot,
           NEW g \in Nat, NEW old, NEW new, AdvanceTree(r, root, g, old, new),
           slots' = slots, pins' = pins, NEW n \in Nat,
           structuralRevisionHeadroom(r.slot, n, 0),
           root.revision = roots[r.slot].revision,
           n = 1 + StepsLeft(root.pending.kind), Promised', LeavesCarry'
    PROVE  RoomHeld'
<1>1. PICK i \in Slots : i = r.slot
  BY DEF Receipt
<1>2. /\ roots' = [roots EXCEPT ![i] = Advanced(root, g)]
      /\ roots \in [Slots -> Root] /\ roots[i] \in Root /\ root \in Root
  BY <1>1 DEF AdvanceTree, Advanced, ActiveRoot, TreeInv, TreeTypes
<1>3. /\ \A k \in Slots \ {i} : roots'[k] = roots[k]
      /\ roots'[i].revision = roots[i].revision + 1
      /\ roots'[i].pending = root.pending
  BY <1>1, <1>2, AdvancedFields
<1>4. /\ n + Cardinality(PinsOf(i)) + 0 <= MaxRevision - roots[i].revision
      /\ roots[i].revision \in Nat /\ MaxRevision \in Nat
      /\ Cardinality(PinsOf(i)) \in Nat
  BY <1>1, <1>2, PinsCounted, TreeAssumption
     DEF structuralRevisionHeadroom, Root
<1>5. StepsLeft(root.pending.kind) \in Nat
  BY DEF StepsLeft
<1>6. roots'[i].revision + StepsLeft(roots'[i].pending.kind)
        + Cardinality(PinsOf(i)) <= MaxRevision
  BY <1>3, <1>4, <1>5
<1> QED BY <1>1, <1>3, <1>6, RootRoom

\* A new tree has room for its first revision.
LEMMA OpenTreeRoom ==
    ASSUME TreeInv, RoomHeld, NEW t \in Receipts, NEW c \in Ceilings,
           NEW f \in FundingModes, openLeaseTreeWithFundingMode(t, c, f)
    PROVE  RoomHeld'
<1>1. PICK i \in Slots : i = t.slot
  BY TokenKinds DEF TreeInv, TreeTypes, Receipts, Receipt
<1>2. PICK root : /\ roots' = [roots EXCEPT ![i] = root]
                  /\ root.revision = 1 /\ root.pending = FreeRoot.pending
  <2> DEFINE new == [FreeRoot EXCEPT !.state = "active",
                                     !.identity = nextLeaseGeneration,
                                     !.generation = nextLeaseGeneration + 1,
                                     !.revision = 1, !.ceiling = c,
                                     !.funding = f]
  <2>1. roots' = [roots EXCEPT ![i] = new]
    BY <1>1 DEF openLeaseTreeWithFundingMode
  <2>2. new.revision = 1 /\ new.pending = FreeRoot.pending
    BY DEF FreeRoot
  <2> HIDE DEF new
  <2> QED BY <2>1, <2>2
<1>3. /\ roots \in [Slots -> Root] /\ roots[i].state = "free"
      /\ slots' = slots /\ nodes' = nodes /\ pins' = pins
      /\ reserveLeaseGenerations(2)
  BY <1>1 DEF openLeaseTreeWithFundingMode, hasActiveLeaseTree, Root, TreeInv,
              TreeTypes, bankVars
<1>4. Promised' /\ LeavesCarry'
  BY <1>3, PromiseKept DEF RoomHeld, LeavesCarry
<1>5. Cardinality(PinsOf(i)) = 0
  BY <1>3, NoPins, FS_EmptySet
<1>6. StepsLeft(root.pending.kind) = 0
  BY <1>2 DEF FreeRoot, NothingPending, StepsLeft
<1>7. /\ roots'[i].revision + StepsLeft(roots'[i].pending.kind)
           + Cardinality(PinsOf(i)) <= MaxRevision
      /\ \A k \in Slots \ {i} : roots'[k] = roots[k]
  <2>1. roots'[i] = root /\ 1 <= MaxRevision
    BY <1>2, <1>3, TreeAssumption
  <2> QED BY <1>2, <1>3, <1>5, <1>6, <2>1
<1> QED BY <1>3, <1>4, <1>7, RootRoom

\* A scope takes one revision and carries nothing.
LEMMA OpenScopeRoom ==
    ASSUME TreeInv, RoomHeld, NEW t \in Trees, NEW key \in Keys,
           NEW c \in Ceilings, openLeaseScope(t, key, c)
    PROVE  RoomHeld'
<1>1. PICK i : i = t.parent.slot
  OBVIOUS
<1>2. /\ validateLeaseTree(t) /\ t.root.pending.kind = "none"
      /\ structuralRevisionHeadroom(i, 1, 0) /\ reserveLeaseGenerations(2)
      /\ slots' = slots /\ pins' = pins
  BY <1>1 DEF openLeaseScope, bankVars
<1>3. PICK j, node, new :
        /\ j \in FreeNodes
        /\ nodes' = [nodes EXCEPT ![j] = node] /\ node.kind = "scope"
        /\ AdvanceTree(t.parent, t.root, nextLeaseGeneration + 1, {}, new)
  BY DEF openLeaseScope, FreeNode
<1>4. /\ t.parent \in Receipt /\ t.root \in ActiveRoot
      /\ roots[i] = t.root /\ nodes \in [Nodes -> Node]
      /\ nextLeaseGeneration + 1 \in Nat /\ 1 \in Nat /\ 2 \in Nat
  BY <1>1, <1>2, TreeAccepted DEF TreeInv, TreeTypes
<1>5. Promised'
  BY <1>2, <1>4, PromiseKept
<1>6. LeavesCarry'
  <2>1. \A l \in Nodes : nodes'[l] = IF l = j THEN node ELSE nodes[l]
    BY <1>3, <1>4
  <2> QED BY <1>3, <2>1 DEF RoomHeld, LeavesCarry
<1>7. 1 = 1 + StepsLeft(t.root.pending.kind)
  BY <1>2 DEF StepsLeft
<1> DEFINE g == nextLeaseGeneration + 1
           none == {}
<1>8. g \in Nat /\ AdvanceTree(t.parent, t.root, g, none, new)
  BY <1>3, <1>4
<1> HIDE DEF g, none
<1> QED BY <1>1, <1>2, <1>4, <1>5, <1>6, <1>7, <1>8, AdvanceRoom

\* Settled leaves carry what they carried.
LEMMA SettleCarries ==
    ASSUME TreeInv, RoomHeld, NEW i, NEW state, NEW pending,
           SettleLeaves(i, state, pending)
    PROVE  LeavesCarry'
<1>1. nodes \in [Nodes -> Node]
  BY DEF TreeInv, TreeTypes
<1>2. ASSUME NEW j \in Nodes
      PROVE  /\ nodes'[j].subtree = nodes[j].subtree
             /\ nodes'[j].kind = nodes[j].kind
             /\ nodes'[j].state # "free" => nodes[j].state # "free"
  <2>1. j \in PendingOf(i) => nodes[j].state # "free"
    BY DEF PendingOf, LeavesOf, NodesOf
  <2>2. nodes[j] \in Node
    BY <1>1
  <2> QED BY <2>1, <2>2 DEF SettleLeaves, Node
<1> QED BY <1>2 DEF RoomHeld, LeavesCarry

\* So do the leaves that are not dropped.
LEMMA DropCarries ==
    ASSUME TreeInv, RoomHeld, NEW i, DropLeaves(i)
    PROVE  LeavesCarry'
<1>1. nodes \in [Nodes -> Node]
  BY DEF TreeInv, TreeTypes
<1>2. ASSUME NEW j \in Nodes, nodes'[j].state # "free",
             nodes'[j].kind = "allocation"
      PROVE  nodes'[j] = nodes[j]
  <2>1. nodes[j] \in Node
    BY <1>1
  <2> QED BY <1>2, <2>1 DEF DropLeaves, FreeNode, Node
<1> QED BY <1>2 DEF RoomHeld, LeavesCarry

-----------------------------------------------------------------------------
\* A decision takes the revisions that were left for it.  The leaves that it
\* settles carry what they carried, and those that it drops are gone.
LEMMA DecidedRoom ==
    ASSUME TreeInv, RoomHeld, NEW t \in Batches \union Tickets,
           \/ commitAllocationsAfterAllocate(t)
           \/ cancelRetire(t)
           \/ \E tree \in Trees : \E e, id, n, g :
                 commitFundedAllocationsAndActivateRestoredPublication(
                     tree, t, e, id, n, g)
    PROVE  RoomHeld'
<1> DEFINE i == t.parent.slot
           g == t.root.pending.completion
           plain == [t.root EXCEPT !.pending = NothingPending]
           usable == [t.root EXCEPT !.pending = NothingPending,
                                    !.activated = TRUE]
           none == {}
<1>1. /\ validateDecision(t) /\ structuralRevisionHeadroom(i, 1, 0)
      /\ SettleLeaves(i, "live", 0)
      /\ \/ AdvanceTree(t.parent, plain, g, {t}, none)
         \/ AdvanceTree(t.parent, usable, g, {t}, none)
      /\ UNCHANGED <<bankVars, pins, generationVars>>
  BY DEF commitAllocationsAfterAllocate, cancelRetire,
         commitFundedAllocationsAndActivateRestoredPublication
<1>2. /\ t.parent \in Receipt /\ roots[i] = t.root /\ t.root \in ActiveRoot
      /\ t.root.pending \in Pending
  BY <1>1, DecisionAccepted
<1>3. /\ plain \in ActiveRoot /\ plain.pending = NothingPending
      /\ plain.revision = t.root.revision
      /\ usable \in ActiveRoot /\ usable.pending = NothingPending
      /\ usable.revision = t.root.revision
  BY <1>2, BlankTypes, RootDecides, RootActivates, ZenonT(60)
<1>4. g \in Nat /\ 1 \in Nat /\ slots' = slots /\ pins' = pins
  BY <1>1, <1>2 DEF Pending, bankVars
<1>5. Promised' /\ LeavesCarry'
  BY <1>1, PromiseKept, SettleCarries
<1>6. 1 = 1 + StepsLeft(NothingPending.kind)
  BY DEF NothingPending, StepsLeft
<1> HIDE DEF plain, usable, g, none
<1>7. PICK root \in ActiveRoot :
        /\ AdvanceTree(t.parent, root, g, {t}, none)
        /\ root.pending = NothingPending /\ root.revision = roots[i].revision
  BY <1>1, <1>2, <1>3
<1> QED BY <1>1, <1>2, <1>4, <1>5, <1>6, <1>7, AdvanceRoom

\* Authorizing a free leaves the revision that the free will take.
LEMMA AuthorizeRoom ==
    ASSUME TreeInv, RoomHeld, NEW t \in Tickets, authorizeFree(t)
    PROVE  RoomHeld'
<1> DEFINE i == t.parent.slot
           p == t.root.pending
           q == [p EXCEPT !.kind = "free", !.generation = p.freePermit,
                          !.completion = p.freeCompletion,
                          !.freePermit = 0, !.freeCompletion = 0]
           root == [t.root EXCEPT !.pending = q]
<1>1. PICK new :
        /\ validateDecision(t) /\ structuralRevisionHeadroom(i, 2, 0)
        /\ SettleLeaves(i, "free_authorized", p.freePermit)
        /\ AdvanceTree(t.parent, root, p.completion, {t}, new)
        /\ UNCHANGED <<bankVars, pins, generationVars>>
  BY DEF authorizeFree
<1>2. /\ t.parent \in Receipt /\ roots[i] = t.root /\ t.root \in ActiveRoot
      /\ p \in Pending
  BY <1>1, DecisionAccepted
<1>3. q \in Pending /\ q.kind = "free"
  <2> HIDE DEF p
  <2> QED BY <1>2 DEF Pending
<1> HIDE DEF q
<1>4. /\ root \in ActiveRoot /\ root.pending = q
      /\ root.revision = t.root.revision
  BY <1>2, <1>3, RootDecides
<1>5. p.completion \in Nat /\ 2 \in Nat /\ slots' = slots /\ pins' = pins
  BY <1>1, <1>2 DEF Pending, bankVars
<1>6. Promised' /\ LeavesCarry'
  BY <1>1, PromiseKept, SettleCarries
<1>7. 2 = 1 + StepsLeft(root.pending.kind)
  BY <1>3, <1>4 DEF StepsLeft
<1> HIDE DEF root, p
<1> QED BY <1>1, <1>2, <1>4, <1>5, <1>6, <1>7, AdvanceRoom

\* An abort and a committed free take one revision.
LEMMA DroppedRoom ==
    ASSUME TreeInv, RoomHeld, NEW t \in Batches \union FreePermits,
           abortAllocationsAfterFree(t) \/ commitFreeAfterAllocatorFree(t)
    PROVE  RoomHeld'
<1> DEFINE i == t.parent.slot
           g == t.root.pending.completion
           c == subtractClaims(t.root.current, t.root.pending.claim)
           root == Carrying(t.root, NothingPending, c)
           none == {}
<1>1. PICK old :
        /\ validateDecision(t) /\ structuralRevisionHeadroom(i, 1, 0)
        /\ DropLeaves(i)
        /\ AdvanceTree(t.parent, root, g, old, none)
        /\ UNCHANGED <<slots, pins, generationVars>>
  BY DEF abortAllocationsAfterFree, commitFreeAfterAllocatorFree, Carrying
<1>2. /\ t.parent \in Receipt /\ i \in Slots /\ roots[i] = t.root
      /\ t.root \in ActiveRoot /\ t.root.pending \in Pending
      /\ t.kind = DecisionOn(t.root.pending.kind) /\ TreeSound(i)
  BY <1>1, DecisionAccepted
<1>3. c \in Claim
  <2>1. /\ nodes \in [Nodes -> Node] /\ LeavesOf(i) \in SUBSET Nodes
        /\ PendingOf(i) \in SUBSET LeavesOf(i)
    BY DEF TreeInv, TreeTypes, LeavesOf, NodesOf, PendingOf
  <2>2. t.root.pending.kind # "none"
    <3>1. t \in DecisionToken
      BY TokenKinds DEF TreeInv
    <3> QED BY <3>1 DEF DecisionToken, DecisionOn
  <2>3. /\ t.root.current = Total(nodes, LeavesOf(i))
        /\ t.root.pending.claim = Total(nodes, PendingOf(i))
    BY <1>2, <2>2 DEF TreeSound, SumsSound, RootSound, ActiveRoot
  <2>4. c = Total(nodes, LeavesOf(i) \ PendingOf(i))
    BY <2>1, <2>3, NodesRest
  <2>5. LeavesOf(i) \ PendingOf(i) \in SUBSET Nodes
    BY <2>1
  <2> HIDE DEF c
  <2> QED BY <2>1, <2>4, <2>5, NodesTotal
<1> HIDE DEF c
<1>4. /\ root \in ActiveRoot /\ root.pending = NothingPending
      /\ root.revision = t.root.revision
  BY <1>2, <1>3, BlankTypes, RootCarries
<1>5. g \in Nat /\ 1 \in Nat /\ slots' = slots /\ pins' = pins
  BY <1>1, <1>2 DEF Pending
<1>6. Promised' /\ LeavesCarry'
  BY <1>1, PromiseKept, DropCarries
<1>7. 1 = 1 + StepsLeft(root.pending.kind)
  BY <1>4 DEF NothingPending, StepsLeft
<1> HIDE DEF root, g, none
<1> QED BY <1>1, <1>2, <1>4, <1>5, <1>6, <1>7, AdvanceRoom

\* A ticket leaves the two revisions that its free will take.
LEMMA RetireRoom ==
    ASSUME TreeInv, RoomHeld, NEW t \in Trees, NEW scope \in NodeHandles,
           NEW e, NEW id, NEW n,
           beginRetireSubtreeForSession(t, scope, e, id, n)
    PROVE  RoomHeld'
<1> DEFINE i == t.parent.slot
           g == nextLeaseGeneration
           leaves == LeavesBelow(scope.index)
           q == [kind |-> "retire", generation |-> g,
                 completion |-> g + 2, freePermit |-> g + 3,
                 freeCompletion |-> g + 4, scope |-> scope.index,
                 claim |-> ClaimOf(leaves)]
           root == [t.root EXCEPT !.pending = q]
           none == {}
<1>1. PICK new :
        /\ validateLeaseTree(t) /\ validateLeaseNode(scope)
        /\ structuralRevisionHeadroom(i, 3, 0) /\ reserveLeaseGenerations(5)
        /\ nodes' = [j \in Nodes |->
                       IF j \in leaves
                       THEN [nodes[j] EXCEPT !.state = "quiescing",
                                             !.pending = g]
                       ELSE nodes[j]]
        /\ AdvanceTree(t.parent, root, g + 1, none, new)
        /\ slots' = slots /\ pins' = pins
  BY DEF beginRetireSubtreeForSession, bankVars
<1>2. /\ t.parent \in Receipt /\ roots[i] = t.root /\ t.root \in ActiveRoot
      /\ g \in Nat /\ nodes \in [Nodes -> Node] /\ scope.index \in Nodes
      /\ 3 \in Nat /\ 5 \in Nat /\ g + 1 \in Nat
  <2>1. scope \in NodeToken
    BY TokenKinds DEF TreeInv
  <2>2. g \in Nat /\ g + 1 \in Nat /\ nodes \in [Nodes -> Node]
    BY TreeAssumption DEF TreeInv, TreeTypes
  <2>3. scope.index \in Nodes
    BY <2>1 DEF NodeToken
  <2> QED BY <1>1, <2>2, <2>3, TreeAccepted
<1>3. q \in Pending /\ q.kind = "retire"
  <2>1. leaves \in SUBSET Nodes
    BY DEF LeavesBelow, LeavesOf, NodesOf
  <2>2. ClaimOf(leaves) \in Claim
    BY <1>2, <2>1, NodesTotal DEF ClaimOf, Total
  <2>3. scope.index \in 0 .. NodeCount
    BY <1>2, TreeAssumption DEF Nodes
  <2> HIDE DEF leaves, g
  <2> QED BY <1>2, <2>2, <2>3 DEF Pending
<1> HIDE DEF q
<1>4. /\ root \in ActiveRoot /\ root.pending = q
      /\ root.revision = t.root.revision
  BY <1>2, <1>3, RootDecides
<1>5. Promised'
  BY <1>1, <1>2, PromiseKept
<1>6. LeavesCarry'
  <2>1. ASSUME NEW j \in Nodes
        PROVE  /\ nodes'[j].subtree = nodes[j].subtree
               /\ nodes'[j].kind = nodes[j].kind
               /\ nodes'[j].state # "free" => nodes[j].state # "free"
    <3>1. j \in leaves => nodes[j].state # "free"
      BY DEF LeavesBelow, LeavesOf, NodesOf
    <3>2. nodes[j] \in Node
      BY <1>2
    <3> HIDE DEF leaves, g
    <3> QED BY <1>1, <3>1, <3>2 DEF Node
  <2> QED BY <2>1 DEF RoomHeld, LeavesCarry
<1>7. 3 = 1 + StepsLeft(root.pending.kind)
  BY <1>3, <1>4 DEF StepsLeft
<1> DEFINE h == g + 1
<1>8. h \in Nat /\ AdvanceTree(t.parent, root, h, none, new)
  BY <1>1, <1>2
<1> HIDE DEF root, none, h
<1> QED BY <1>1, <1>2, <1>4, <1>5, <1>6, <1>7, <1>8, AdvanceRoom

\* A wave leaves the revision that its commit or abort will take, and each of
\* its leaves carries something.
LEMMA WaveRoom ==
    ASSUME TreeInv, RoomHeld, NEW t \in Trees, NEW specs \in SpecLists,
           NEW e, NEW id, NEW n,
           reserveAllocationsForSession(t, e, id, n, specs)
    PROVE  RoomHeld'
<1>1. PICK i : i = t.parent.slot
  OBVIOUS
<1>2. PICK g : g = nextLeaseGeneration
  OBVIOUS
<1>3. PICK size : size = Len(specs)
  OBVIOUS
<1>4. PICK total : total = WaveTotal(specs)
  OBVIOUS
<1>5. PICK current : current = addClaims(t.root.current, total)
  OBVIOUS
<1>6. PICK q : q = [NothingPending EXCEPT !.kind = "allocation",
                                          !.generation = g,
                                          !.completion = g + size + 2,
                                          !.claim = total]
  OBVIOUS
<1>7. PICK root : root = [t.root EXCEPT !.current = current, !.pending = q]
  OBVIOUS
<1>8. PICK h : h = g + size + 1
  OBVIOUS
<1> DEFINE leaf(k) == LeafFor(i, t.root, g, specs[k], k)
           none == {}
<1>9. /\ validateLeaseTree(t) /\ ValidSpecs(t, specs)
      /\ structuralRevisionHeadroom(i, 2, 0)
      /\ reserveLeaseGenerations(size + 3)
      /\ slots' = slots /\ pins' = pins
  BY <1>1, <1>3 DEF reserveAllocationsForSession
<1>10. PICK new : AdvanceTree(t.parent, root, h, none, new)
  BY <1>1, <1>2, <1>3, <1>4, <1>5, <1>6, <1>7, <1>8
     DEF reserveAllocationsForSession, WaveTotal
<1>11. nodes' = [j \in Nodes |->
                   IF \E k \in 1 .. size : NodeFor(k) = j
                   THEN leaf(CHOOSE k \in 1 .. size : NodeFor(k) = j)
                   ELSE Enlarged(nodes[j], ScopeAddition(specs, j))]
  BY <1>1, <1>2, <1>3, ZenonT(60)
     DEF reserveAllocationsForSession, LeafFor, Enlarged
<1>12. /\ t.parent \in Receipt /\ i \in Slots /\ roots[i] = t.root
       /\ t.root \in ActiveRoot /\ nodes \in [Nodes -> Node]
       /\ g \in Nat /\ size \in Nat /\ DOMAIN specs = 1 .. size
  BY <1>1, <1>2, <1>3, <1>9, TreeAccepted, SpecListType, TreeAssumption
     DEF TreeInv, TreeTypes
<1>13. PICK fresh : fresh = WaveNodes(specs)
  OBVIOUS
<1>14. PICK add : add = WaveAdds(specs)
  OBVIOUS
<1>15. /\ add \in [Nodes -> Claim] /\ total \in Claim /\ Planted(i, fresh, add)
  BY <1>1, <1>4, <1>13, <1>14, WavePlants
<1>16. q \in Pending /\ q.kind = "allocation" /\ current \in Claim
  <2>1. NothingPending \in Pending /\ t.root.current \in Claim
    BY <1>12, BlankTypes DEF ActiveRoot, Root
  <2>2. current \in Claim
    BY <1>5, <1>15, <2>1, AddType
  <2>3. g + size + 2 \in Nat
    BY <1>12
  <2> QED BY ONLY <1>6, <1>12, <1>15, <2>1, <2>2, <2>3 DEF Pending
<1>17. /\ root \in ActiveRoot /\ root.pending = q
       /\ root.revision = t.root.revision
  <2>1. t.root \in Root /\ t.root.state = "active"
    BY <1>12 DEF ActiveRoot
  <2>2. root \in Root /\ root.state = "active" /\ root.pending = q
        /\ root.revision = t.root.revision
    BY ONLY <1>7, <1>16, <2>1 DEF Root
  <2> QED BY <2>2 DEF ActiveRoot
<1>18. Promised'
  BY <1>9, <1>12, PromiseKept
<1>19. LeavesCarry'
  <2>1. \A k \in 1 .. size : leaf(k).subtree # ZeroClaim
    BY <1>9, <1>12 DEF LeafFor, FreeNode, ValidSpecs
  <2> HIDE DEF leaf
  <2>2. ASSUME NEW j \in Nodes, nodes'[j].kind = "allocation",
               nodes'[j].state # "free"
        PROVE  nodes'[j].subtree # ZeroClaim
    <3>1. CASE \E k \in 1 .. size : NodeFor(k) = j
      BY <1>11, <2>1, <3>1
    <3>2. CASE ~ \E k \in 1 .. size : NodeFor(k) = j
      <4>1. j \notin fresh
        BY <1>3, <1>13, <3>2 DEF WaveNodes
      <4>2. nodes'[j] = Enlarged(nodes[j], add[j]) /\ nodes[j] \in Node
            /\ add[j] \in Claim
        BY <1>12, <1>15, <4>1 DEF Planted
      <4>3. nodes[j].kind = "allocation" /\ nodes[j].state # "free"
        BY <2>2, <4>2, EnlargedType
      <4>4. add[j] = ZeroClaim
        BY <1>15, <4>3 DEF Planted
      <4>5. nodes'[j] = nodes[j]
        BY <4>2, <4>4, EnlargedType
      <4> QED BY <4>3, <4>5 DEF RoomHeld, LeavesCarry
    <3> QED BY <3>1, <3>2
  <2> QED BY <2>2 DEF LeavesCarry
<1>20. 2 = 1 + StepsLeft(root.pending.kind) /\ 2 \in Nat /\ h \in Nat
  BY <1>8, <1>12, <1>16, <1>17 DEF StepsLeft
<1> HIDE DEF none
<1> QED BY <1>1, <1>9, <1>10, <1>12, <1>17, <1>18, <1>19, <1>20, AdvanceRoom

-----------------------------------------------------------------------------
\* A step that takes or gives back one pin of a tree keeps the room if what is
\* left is enough for the pins that are left, and a new pin is in the session.
LEMMA PinRoom ==
    ASSUME TreeInv, RoomHeld, NEW r \in Receipt, NEW root \in ActiveRoot,
           root = roots[r.slot], root.pending.kind = "none",
           NEW g \in Nat, NEW old, NEW new, AdvanceTree(r, root, g, old, new),
           slots' = slots, NEW p \in PinSlots, NEW pin \in Pin,
           pins' = [pins EXCEPT ![p] = pin],
           pins[p].state = "active" => pins[p].slot = r.slot,
           pin.state = "active" => pin.slot = r.slot /\ PinInSession(p)',
           root.revision + 1 + Cardinality(PinsOf(r.slot)') <= MaxRevision,
           Promised', LeavesCarry'
    PROVE  RoomHeld'
<1>1. PICK i \in Slots : i = r.slot
  BY DEF Receipt
<1>2. /\ roots' = [roots EXCEPT ![i] = Advanced(root, g)]
      /\ roots \in [Slots -> Root] /\ root \in Root
      /\ pins \in [PinSlots -> Pin]
  BY <1>1 DEF AdvanceTree, Advanced, ActiveRoot, TreeInv, TreeTypes
<1>3. /\ \A k \in Slots \ {i} : roots'[k] = roots[k]
      /\ roots'[i].revision = root.revision + 1
      /\ roots'[i].pending = root.pending
      /\ pins'[p] = pin /\ \A x \in PinSlots \ {p} : pins'[x] = pins[x]
  BY <1>1, <1>2, AdvancedFields
<1>4. \A k \in Slots \ {i} : PinsOf(k)' = PinsOf(k)
  BY <1>1, <1>3 DEF PinsOf
<1>5. StepsLeft(root.pending.kind) = 0 /\ root.revision \in Nat
      /\ Cardinality(PinsOf(i)') \in Nat
  <2>1. PinsOf(i)' \in SUBSET PinSlots
    BY DEF PinsOf
  <2> QED BY <1>2, <2>1, PinsFinite DEF StepsLeft, Root
<1>6. \A k \in Slots : RoomLeft(k)'
  <2>1. RoomLeft(i)'
    BY <1>1, <1>3, <1>5 DEF RoomLeft
  <2>2. ASSUME NEW k \in Slots \ {i} PROVE RoomLeft(k)'
    <3>1. RoomLeft(k) /\ roots'[k] = roots[k] /\ PinsOf(k)' = PinsOf(k)
      BY <1>3, <1>4 DEF RoomHeld
    <3> QED BY <3>1 DEF RoomLeft
  <2> QED BY <2>1, <2>2
<1>7. ASSUME NEW q \in ActivePins' PROVE PinInSession(q)'
  <2>1. CASE q = p
    BY <1>3, <1>7, <2>1 DEF ActivePins
  <2>2. CASE q # p
    <3>1. q \in ActivePins /\ pins'[q] = pins[q]
      BY <1>3, <1>7, <2>2 DEF ActivePins
    <3>2. PinInSession(q)
      BY <3>1 DEF RoomHeld
    <3> QED BY <3>1, <3>2 DEF PinInSession
  <2> QED BY <2>1, <2>2
<1> QED BY <1>6, <1>7 DEF RoomHeld

\* Leaves that are only counted carry what they carried.
LEMMA CountCarries ==
    ASSUME TreeInv, RoomHeld, NEW members, NEW count,
           \A j \in Nodes : nodes'[j] = IF j \in members
                                        THEN Counting(nodes[j], count[j])
                                        ELSE nodes[j]
    PROVE  LeavesCarry'
<1>1. nodes \in [Nodes -> Node]
  BY DEF TreeInv, TreeTypes
<1>2. ASSUME NEW j \in Nodes
      PROVE  /\ nodes'[j].subtree = nodes[j].subtree
             /\ nodes'[j].kind = nodes[j].kind
             /\ nodes'[j].state = nodes[j].state
  <2>1. nodes[j] \in Node
    BY <1>1
  <2> QED BY <2>1 DEF Counting, Node
<1> QED BY <1>2 DEF RoomHeld, LeavesCarry

\* A pin is taken only where a revision and a generation are left to give it
\* back.
LEMMA AcquireRoom ==
    ASSUME TreeInv, TreeInv', RoomHeld, NEW t \in Trees,
           NEW scope \in NodeHandles, NEW e \in Nat, NEW id \in Nat,
           NEW n \in Nat, NEW leaves \in SUBSET NodeHandles,
           acquireLeasePinsForSession(t, scope, e, id, n, leaves)
    PROVE  RoomHeld'
<1>1. PICK i : i = t.parent.slot
  OBVIOUS
<1>2. PICK g : g = nextLeaseGeneration
  OBVIOUS
<1>3. PICK members : members = {l.index : l \in leaves}
  OBVIOUS
<1>4. PICK pin :
        pin = [state |-> "active", slot |-> i, tree |-> t.root.identity,
               generation |-> g, treeGeneration |-> g + 1,
               requestEpoch |-> e, sessionId |-> id, sequence |-> n,
               scope |-> scope.index, members |-> members]
  OBVIOUS
<1>5. /\ validateLeaseTree(t) /\ t.root.pending.kind = "none" /\ id # 0
      /\ SessionAt(slots[i], e, id, n)
      /\ structuralRevisionHeadroom(i, 1, 1)
      /\ leaseGenerationReservationFits(3, 1)
      /\ nextLeaseGeneration' = g + 3
      /\ reservedCompletions' = reservedCompletions + 1
      /\ nodes' = [j \in Nodes |-> IF j \in members
                                   THEN [nodes[j] EXCEPT !.pinCount = @ + 1]
                                   ELSE nodes[j]]
      /\ slots' = slots
  BY <1>1, <1>2, <1>3 DEF acquireLeasePinsForSession, bankVars
<1>6. PICK p, new :
        /\ p \in PinSlots
        /\ pins[p].state = "free" /\ pins' = [pins EXCEPT ![p] = pin]
        /\ AdvanceTree(t.parent, t.root, g + 1, {}, new)
  BY <1>1, <1>2, <1>3, <1>4 DEF acquireLeasePinsForSession
<1>7. /\ t.parent \in Receipt /\ i \in Slots /\ roots[i] = t.root
      /\ t.root \in ActiveRoot /\ pins \in [PinSlots -> Pin]
      /\ pins' \in [PinSlots -> Pin] /\ g \in Nat /\ g + 1 \in Nat
      /\ reservedCompletions \in Nat
  <2>1. g \in Nat /\ g + 1 \in Nat
    BY <1>2, TreeAssumption DEF TreeInv, TreeTypes
  <2> QED BY <1>1, <1>5, <2>1, TreeAccepted DEF TreeInv, TreeTypes
<1>8. /\ pins'[p] = pin /\ pin \in Pin /\ pin.state = "active"
      /\ pin.slot = i /\ \A x \in PinSlots \ {p} : pins'[x] = pins[x]
  BY <1>4, <1>6, <1>7
<1>9. PinInSession(p)'
  BY <1>4, <1>5, <1>8 DEF PinInSession
<1>10. PinsOf(i)' = PinsOf(i) \union {p} /\ p \notin PinsOf(i)
  BY <1>6, <1>8 DEF PinsOf
<1>11. t.root.revision + 1 + Cardinality(PinsOf(i)') <= MaxRevision
  <2>1. Cardinality(PinsOf(i)') = Cardinality(PinsOf(i)) + 1
    <3>1. IsFiniteSet(PinsOf(i))
      BY PinsCounted
    <3> QED BY ONLY <1>10, <3>1, FS_AddElement
  <2>2. 1 + Cardinality(PinsOf(i)) + 1 <= MaxRevision - t.root.revision
    BY <1>5, <1>7 DEF structuralRevisionHeadroom
  <2>3. /\ Cardinality(PinsOf(i)) \in Nat /\ MaxRevision \in Nat
        /\ t.root.revision \in Nat
    BY <1>7, PinsCounted, TreeAssumption DEF ActiveRoot, Root
  <2> QED BY ONLY <2>1, <2>2, <2>3
<1>12. Promised'
  <2>1. 3 + reservedCompletions + 1 < MaxLeaseGeneration - g
    BY <1>2, <1>5 DEF leaseGenerationReservationFits
  <2>2. MaxLeaseGeneration \in Nat
    BY TreeAssumption
  <2> QED BY <1>5, <1>7, <2>1, <2>2 DEF Promised
<1>13. LeavesCarry'
  <2> DEFINE count == [j \in Nodes |-> nodes[j].pinCount + 1]
  <2>1. \A j \in Nodes : nodes'[j] = IF j \in members
                                     THEN Counting(nodes[j], count[j])
                                     ELSE nodes[j]
    BY <1>5 DEF Counting
  <2> HIDE DEF count
  <2> QED BY <2>1, CountCarries
<1> DEFINE h == g + 1
           none == {}
<1>14. h \in Nat /\ AdvanceTree(t.parent, t.root, h, none, new)
  BY <1>6, <1>7
<1> HIDE DEF h, none
<1> QED BY <1>1, <1>5, <1>6, <1>7, <1>8, <1>9, <1>11, <1>12, <1>13, <1>14,
           PinRoom

\* A pin that is given back takes what was set aside for it and no more.
LEMMA ReleaseRoom ==
    ASSUME TreeInv, TreeInv', RoomHeld, NEW t \in PinPermits,
           releaseLeasePins(t)
    PROVE  RoomHeld'
<1>1. PICK i : i = t.parent.slot
  OBVIOUS
<1>2. PICK p : p = t.index
  OBVIOUS
<1>3. PICK g : g = nextLeaseGeneration
  OBVIOUS
<1>4. /\ validateLeasePin(t) /\ roots[i].pending.kind = "none"
      /\ reservedCompletions > 0
      /\ nextLeaseGeneration' = g + 1
      /\ reservedCompletions' = reservedCompletions - 1
      /\ nodes' = [j \in Nodes |-> IF j \in t.pin.members
                                   THEN [nodes[j] EXCEPT !.pinCount = @ - 1]
                                   ELSE nodes[j]]
      /\ pins' = [pins EXCEPT ![p] = FreePin]
      /\ slots' = slots
  BY <1>1, <1>2, <1>3 DEF releaseLeasePins, CanRelease, bankVars
<1>5. /\ t.parent \in Receipt /\ i \in Slots /\ p \in PinSlots
      /\ pins[p] = t.pin /\ t.pin.state = "active" /\ t.pin.slot = i
      /\ roots[i] \in ActiveRoot
      /\ pins \in [PinSlots -> Pin] /\ g \in Nat
      /\ reservedCompletions \in Nat
  <2>1. t \in PinToken
    BY TokenKinds DEF TreeInv
  <2>2. g \in Nat
    BY <1>3, TreeAssumption DEF TreeInv, TreeTypes
  <2> QED BY <1>1, <1>2, <1>4, <2>1, <2>2
          DEF PinToken, Receipt, validateLeasePin, TreeInv, TreeTypes,
              ActiveRoot
<1>6. \E old : AdvanceTree(t.parent, roots[i], g, old, {})
  BY <1>1, <1>3 DEF releaseLeasePins, CanRelease
<1>7. /\ pins'[p] = FreePin /\ FreePin \in Pin /\ FreePin.state = "free"
      /\ \A x \in PinSlots \ {p} : pins'[x] = pins[x]
  BY <1>4, <1>5, BlankTypes DEF FreePin
<1>8. PinsOf(i)' = PinsOf(i) \ {p} /\ p \in PinsOf(i)
  BY <1>5, <1>7 DEF PinsOf
<1>9. roots[i].revision + 1 + Cardinality(PinsOf(i)') <= MaxRevision
  <2>1. Cardinality(PinsOf(i)') = Cardinality(PinsOf(i)) - 1
    <3>1. IsFiniteSet(PinsOf(i))
      BY PinsCounted
    <3> QED BY ONLY <1>8, <3>1, FS_RemoveElement
  <2>2. roots[i].revision + StepsLeft(roots[i].pending.kind)
          + Cardinality(PinsOf(i)) <= MaxRevision
    BY <1>5 DEF RoomHeld, RoomLeft, ActiveRoot
  <2>3. /\ Cardinality(PinsOf(i)) \in Nat /\ MaxRevision \in Nat
        /\ roots[i].revision \in Nat
        /\ StepsLeft(roots[i].pending.kind) = 0
    BY <1>4, <1>5, PinsCounted, TreeAssumption
       DEF ActiveRoot, Root, StepsLeft
  <2> QED BY ONLY <2>1, <2>2, <2>3
<1>10. Promised'
  <2>1. MaxLeaseGeneration \in Nat
    BY TreeAssumption
  <2> QED BY <1>3, <1>4, <1>5, <2>1 DEF RoomHeld, Promised
<1>11. LeavesCarry'
  <2> DEFINE count == [j \in Nodes |-> nodes[j].pinCount - 1]
  <2>1. \A j \in Nodes : nodes'[j] = IF j \in t.pin.members
                                     THEN Counting(nodes[j], count[j])
                                     ELSE nodes[j]
    BY <1>4 DEF Counting
  <2> HIDE DEF count
  <2> QED BY <2>1, CountCarries
<1> DEFINE none == {}
<1>12. PICK old : AdvanceTree(t.parent, roots[i], g, old, none)
  BY <1>6
<1> HIDE DEF none
<1>13. FreePin.state # "active"
  BY <1>7
<1> QED BY <1>1, <1>4, <1>5, <1>7, <1>9, <1>10, <1>11, <1>12, <1>13, PinRoom

-----------------------------------------------------------------------------
\* A tree that is closed has no leaves, so no pins.
LEMMA ClearRoom ==
    ASSUME TreeInv, RoomHeld, NEW t \in Trees, validateLeaseTree(t), NEW old,
           ClearTree(t, old),
           \A k \in Slots \ {t.parent.slot} : slots'[k] = slots[k]
    PROVE  RoomHeld'
<1>1. PICK i \in Slots : i = t.parent.slot
  BY TreeAccepted
<1>2. /\ LeavesOf(i) = {} /\ roots' = [roots EXCEPT ![i] = FreeRoot]
      /\ nodes' = [j \in Nodes |-> IF j \in NodesOf(i) THEN FreeNode
                                                       ELSE nodes[j]]
      /\ pins' = pins /\ nextLeaseGeneration' = nextLeaseGeneration
      /\ reservedCompletions' = reservedCompletions
      /\ roots \in [Slots -> Root]
  BY <1>1 DEF ClearTree, generationVars, TreeInv, TreeTypes
<1>3. PinsOf(i) = {}
  BY <1>2, NoPins
<1>4. /\ roots'[i].state = "free"
      /\ \A k \in Slots \ {i} : roots'[k] = roots[k] /\ slots'[k] = slots[k]
  BY <1>1, <1>2 DEF FreeRoot
<1>5. /\ \A k : PinsOf(k)' = PinsOf(k)
      /\ ActivePins' = ActivePins
  BY <1>2 DEF PinsOf, ActivePins
<1>6. \A k \in Slots : RoomLeft(k)'
  BY <1>4, <1>5 DEF RoomHeld, RoomLeft
<1>7. Promised'
  BY <1>2 DEF RoomHeld, Promised
<1>8. LeavesCarry'
  BY <1>2 DEF RoomHeld, LeavesCarry, FreeNode
<1>9. ASSUME NEW p \in ActivePins PROVE PinInSession(p)'
  <2>1. pins[p].slot \in Slots /\ pins[p].slot # i
    BY <1>3 DEF ActivePins, PinsOf, TreeInv, TreeTypes, Pin
  <2>2. slots'[pins[p].slot] = slots[pins[p].slot] /\ PinInSession(p)
    BY <1>4, <2>1 DEF RoomHeld
  <2> QED BY <1>2, <2>2 DEF PinInSession
<1> QED BY <1>5, <1>6, <1>7, <1>8, <1>9 DEF RoomHeld

\* Opening, closing and publishing trees keeps the room.
LEMMA TopologyStepRoom ==
    ASSUME TreeInv, RoomHeld, TopologyStep PROVE RoomHeld'
<1>1. ASSUME NEW t \in Trees, validateLeaseTree(t), UNCHANGED treeVars, NEW s,
             slots' = [slots EXCEPT ![t.parent.slot] = s],
             \/ slots[t.parent.slot].sessionId = 0
             \/ PinsOf(t.parent.slot) = {}
      PROVE  RoomHeld'
  <2>1. PICK i \in Slots : i = t.parent.slot
    BY <1>1, TreeAccepted
  <2>2. PinsOf(i) = {} /\ \A k \in Slots \ {i} : slots'[k] = slots[k]
    BY <1>1, <2>1, NoPins DEF TreeInv, TreeTypes
  <2> QED BY <1>1, <2>2, ReceiptRoom
<1>2. CASE \E t \in Receipts, c \in Ceilings, f \in FundingModes :
             openLeaseTreeWithFundingMode(t, c, f)
  BY <1>2, OpenTreeRoom
<1>3. CASE \E t \in Trees, key \in Keys, c \in Ceilings :
             openLeaseScope(t, key, c)
  BY <1>3, OpenScopeRoom
<1>4. CASE \E t \in Trees : closeLeaseTree(t)
  <2>1. PICK t, old :
          /\ t \in Trees
          /\ validateLeaseTree(t) /\ slots' = slots
          /\ ClearTree(t, old)
    BY <1>4 DEF closeLeaseTree
  <2> QED BY <2>1, ClearRoom
<1>5. CASE \E t \in Trees, e \in RequestEpochs, id \in SessionIds :
             bindPublicationSessionWithLeaseTree(t, e, id)
  <2>1. PICK t, e, id :
          /\ t \in Trees
          /\ validateLeaseTree(t) /\ UNCHANGED treeVars
          /\ bindPublicationSessionLocked(t.parent, e, id)
    BY <1>5 DEF bindPublicationSessionWithLeaseTree
  <2>2. /\ slots[t.parent.slot].sessionId = 0
        /\ \E s : slots' = [slots EXCEPT ![t.parent.slot] = s]
    BY <2>1 DEF bindPublicationSessionLocked
  <2> QED BY <1>1, <2>1, <2>2
<1>6. CASE \E t \in Trees, e \in RequestEpochs, id \in SessionIds,
              point \in RestorePoints :
             bindRestoredPublicationSession(t, e, id, point[1], point[2])
  <2>1. PICK t, e, id, n, g :
          /\ t \in Trees
          /\ bindRestoredPublicationSession(t, e, id, n, g)
    BY <1>6
  <2>2. /\ validateLeaseTree(t) /\ UNCHANGED treeVars
        /\ slots[t.parent.slot].sessionId = 0
        /\ \E s : slots' = [slots EXCEPT ![t.parent.slot] = s]
    BY <2>1 DEF bindRestoredPublicationSession, Unbound
  <2> QED BY <1>1, <2>1, <2>2
<1>7. CASE \E t \in Trees, e \in RequestEpochs, id \in SessionIds,
              n \in Sequences : beginPublicationWithLeaseTree(t, e, id, n)
  <2>1. PICK t, e, id, n :
          /\ t \in Trees
          /\ validateLeaseTree(t) /\ UNCHANGED treeVars
          /\ PinsOf(t.parent.slot) = {}
          /\ beginPublicationLocked(t.parent, e, id, n)
    BY <1>7 DEF beginPublicationWithLeaseTree, hasActiveLeasePins
  <2>2. \E s : slots' = [slots EXCEPT ![t.parent.slot] = s]
    BY <2>1 DEF beginPublicationLocked
  <2> QED BY <1>1, <2>1, <2>2
<1>8. CASE \E t \in Trees, e \in RequestEpochs, id \in SessionIds,
              n \in Sequences :
             closeActivatedRestoredPublicationSession(t, e, id, n)
  <2>1. PICK t, old :
          /\ t \in Trees
          /\ validateLeaseTree(t) /\ ClearTree(t, old)
          /\ slots' = [slots EXCEPT ![t.parent.slot] = FreeSlot]
    BY <1>8 DEF closeActivatedRestoredPublicationSession
  <2>2. \A k \in Slots \ {t.parent.slot} : slots'[k] = slots[k]
    BY <2>1 DEF TreeInv, TreeTypes
  <2> QED BY <2>1, <2>2, ClearRoom
<1> QED BY <1>2, <1>3, <1>4, <1>5, <1>6, <1>7, <1>8 DEF TopologyStep

\* So do the calls that a session makes on its tree.
LEMMA SessionStepRoom ==
    ASSUME TreeInv, TreeInv', RoomHeld, SessionStep PROVE RoomHeld'
<1>1. PICK t \in Trees, e \in RequestEpochs, id \in SessionIds,
           n \in Sequences :
        \/ \E specs \in SpecLists :
              reserveAllocationsForSession(t, e, id, n, specs)
        \/ \E scope \in NodeHandles :
              \/ beginRetireSubtreeForSession(t, scope, e, id, n)
              \/ \E leaves \in LeafSets :
                   acquireLeasePinsForSession(t, scope, e, id, n, leaves)
        \/ \E b \in Batches, g \in 0 .. MaxPermitGeneration :
              commitFundedAllocationsAndActivateRestoredPublication(
                  t, b, e, id, n, g)
  BY DEF SessionStep
<1>2. e \in Nat /\ id \in Nat /\ n \in Nat
  BY CallersPresentNumbers
<1>3. \A leaves \in LeafSets : leaves \in SUBSET NodeHandles
  BY DEF LeafSets
<1>4. CASE \E specs \in SpecLists :
             reserveAllocationsForSession(t, e, id, n, specs)
  BY <1>4, WaveRoom
<1>5. CASE \E scope \in NodeHandles :
             beginRetireSubtreeForSession(t, scope, e, id, n)
  BY <1>5, RetireRoom
<1>6. CASE \E scope \in NodeHandles, leaves \in LeafSets :
             acquireLeasePinsForSession(t, scope, e, id, n, leaves)
  BY <1>2, <1>3, <1>6, AcquireRoom
<1>7. CASE \E b \in Batches, g \in 0 .. MaxPermitGeneration :
             commitFundedAllocationsAndActivateRestoredPublication(
                 t, b, e, id, n, g)
  BY <1>7, DecidedRoom
<1> QED BY <1>1, <1>4, <1>5, <1>6, <1>7

\* So do the decisions and the releases of pins.
LEMMA DecisionStepRoom ==
    ASSUME TreeInv, TreeInv', RoomHeld, DecisionStep PROVE RoomHeld'
<1>1. CASE \E t \in Batches : \/ commitAllocationsAfterAllocate(t)
                              \/ abortAllocationsAfterFree(t)
  BY <1>1, DecidedRoom, DroppedRoom
<1>2. CASE \E t \in Tickets : cancelRetire(t) \/ authorizeFree(t)
  BY <1>2, DecidedRoom, AuthorizeRoom
<1>3. CASE \E t \in FreePermits : commitFreeAfterAllocatorFree(t)
  BY <1>3, DroppedRoom
<1>4. CASE \E t \in PinPermits : releaseLeasePins(t)
  BY <1>4, ReleaseRoom
<1> QED BY <1>1, <1>2, <1>3, <1>4 DEF DecisionStep

\* Every step keeps the room.
LEMMA RoomStep ==
    ASSUME TreeInv, RoomHeld, [TreeNext]_allVars PROVE RoomHeld'
<1>1. TreeInv'
  BY TreeStepKeeps
<1>2. CASE UNCHANGED allVars
  <2>1. /\ slots' = slots /\ roots' = roots /\ nodes' = nodes /\ pins' = pins
        /\ nextLeaseGeneration' = nextLeaseGeneration
        /\ reservedCompletions' = reservedCompletions
    BY <1>2 DEF allVars, vars, treeVars, generationVars
  <2> QED BY <2>1 DEF RoomHeld, Promised, LeavesCarry, RoomLeft, PinsOf,
                      ActivePins, PinInSession
<1>3. CASE TreeNext
  BY <1>1, <1>3, ReceiptStepRoom, TopologyStepRoom, SessionStepRoom,
     DecisionStepRoom DEF TreeNext
<1> QED BY <1>2, <1>3

\* A new Bank has no pins and no leaves.
LEMMA RoomInit == ASSUME TreeInit PROVE RoomHeld
<1>1. /\ roots = [i \in Slots |-> FreeRoot]
      /\ nodes = [j \in Nodes |-> FreeNode]
      /\ pins = [p \in PinSlots |-> FreePin]
      /\ reservedCompletions = 0
  BY DEF TreeInit
<1>2. \A p \in PinSlots : pins[p].state = "free"
  BY <1>1 DEF FreePin
<1> QED BY <1>1, <1>2 DEF RoomHeld, Promised, LeavesCarry, RoomLeft,
                          ActivePins, FreeRoot, FreeNode

-----------------------------------------------------------------------------
(* What the receipts and trees are charged.                                *)

\* What the holders are charged in one class; Bank.used is the sum.
TreeInClass(k) == [h \in TreeHolders |-> TreeCharges[h][k]]
TreeBalanced == \A k \in Classes : used[k] = Sum(TreeInClass(k), TreeHolders)

TreeBooked == TreeBalanced /\ Fits(used)

\* Conservation of the aggregate in a Bank with trees: used is at every moment
\* the sum of the claims of the occupied slots and of what the additive trees
\* carry, within the limits.  Waves, aborts, frees and teardowns may come in
\* any order and fail at any check, and nothing is lost or counted twice.
TreeConserved ==
    /\ used = [k \in Classes |->
                 SumFunctionOnSet([h \in TreeHolders |-> TreeCharges[h][k]],
                                  TreeHolders)]
    /\ Fits(used)

\* There are finitely many holders, and each is charged a claim.
LEMMA TreeChargesType ==
    /\ IsFiniteSet(TreeHolders)
    /\ TreeInv => \A h \in TreeHolders : TreeCharges[h] \in Claim
    /\ TreeInv' => \A h \in TreeHolders : TreeCharges'[h] \in Claim
<1>1. IsFiniteSet(Slots)
  BY BankAssumption, FS_Interval DEF Slots
<1>2. IsFiniteSet({"slot", "tree"})
  <2>1. IsFiniteSet({} \union {"slot"})
    BY FS_EmptySet, FS_AddElement
  <2>2. IsFiniteSet(({} \union {"slot"}) \union {"tree"})
    BY <2>1, FS_AddElement
  <2>3. ({} \union {"slot"}) \union {"tree"} = {"slot", "tree"}
    OBVIOUS
  <2> QED BY <2>2, <2>3
<1>3. ASSUME TreeInv, NEW h \in TreeHolders PROVE TreeCharges[h] \in Claim
  <2>1. h[2] \in Slots
    BY DEF TreeHolders
  <2>2. slots[h[2]].claim \in Claim /\ roots[h[2]].current \in Claim
    BY <1>3, <2>1 DEF TreeInv, TreeTypes, Slot, Root
  <2> QED BY <2>2, ZeroClaimType DEF TreeCharges
<1>4. ASSUME TreeInv', NEW h \in TreeHolders PROVE TreeCharges'[h] \in Claim
  <2>1. h[2] \in Slots
    BY DEF TreeHolders
  <2>2. slots'[h[2]].claim \in Claim /\ roots'[h[2]].current \in Claim
    BY <1>4, <2>1 DEF TreeInv, TreeTypes, Slot, Root
  <2> QED BY <2>2, ZeroClaimType DEF TreeCharges
<1> QED BY <1>1, <1>2, <1>3, <1>4, FS_Product DEF TreeHolders

\* A step of the ledger keeps the books balanced and within the limits.
LEMMA TreeLedgerConserves ==
    ASSUME TreeInv, TreeInv', TreeBooked, LedgerMove
    PROVE  TreeBooked'
<1>1. CASE UNCHANGED <<TreeCharges, used>>
  BY <1>1 DEF TreeBooked, TreeBalanced, TreeInClass
<1>2. CASE TreeLedger!Next
  <2>1. PICK h \in TreeHolders :
          /\ TreeCharges' = [TreeCharges EXCEPT ![h] = TreeCharges'[h]]
          /\ used' = addClaims(subtractClaims(used, TreeCharges[h]),
                               TreeCharges'[h])
          /\ Fits(used') \/ claimWithin(TreeCharges'[h], TreeCharges[h])
    BY <1>2, SameTreeClaims DEF TreeLedger!Next, TreeLedger!Adjust
  <2>2. /\ IsFiniteSet(TreeHolders)
        /\ \A g \in TreeHolders : TreeCharges[g] \in Claim
        /\ \A g \in TreeHolders : TreeCharges'[g] \in Claim
    BY TreeChargesType
  <2>3. \A g \in TreeHolders \ {h} : TreeCharges'[g] = TreeCharges[g]
    BY <2>1 DEF TreeCharges
  <2>4. ASSUME NEW k \in Classes
        PROVE  used'[k] = used[k] - TreeCharges[h][k] + TreeCharges'[h][k]
    BY <2>1 DEF addClaims, subtractClaims
  <2>5. ASSUME NEW k \in Classes
        PROVE  used'[k] = Sum(TreeInClass(k)', TreeHolders)
    <3>1. \A g \in TreeHolders :
            /\ TreeInClass(k)[g] = TreeCharges[g][k]
            /\ TreeInClass(k)'[g] = TreeCharges'[g][k]
            /\ TreeCharges[g][k] \in Nat /\ TreeCharges'[g][k] \in Nat
      BY <2>2 DEF TreeInClass, Claim
    <3>2. \A g \in TreeHolders : /\ TreeInClass(k)[g] \in Nat
                                 /\ TreeInClass(k)'[g] \in Nat
      BY <3>1
    <3>3. \A g \in TreeHolders \ {h} : TreeInClass(k)'[g] = TreeInClass(k)[g]
      BY <2>3, <3>1
    <3>4. Sum(TreeInClass(k)', TreeHolders)
            = Sum(TreeInClass(k), TreeHolders) - TreeInClass(k)[h]
                + TreeInClass(k)'[h]
      BY <2>2, <3>2, <3>3, SumChange
    <3> QED BY <2>4, <3>1, <3>4 DEF TreeBooked, TreeBalanced
  <2>6. CASE claimWithin(TreeCharges'[h], TreeCharges[h])
    <3>1. used \in Claim /\ used' \in Claim
      BY DEF TreeInv, TreeTypes
    <3>2. ASSUME NEW k \in Classes PROVE used'[k] <= used[k]
      <4>1. /\ used[k] \in Nat /\ TreeCharges[h][k] \in Nat
            /\ TreeCharges'[h][k] \in Nat
            /\ TreeCharges'[h][k] <= TreeCharges[h][k]
        BY <2>2, <2>6, <3>1 DEF Claim, claimWithin
      <4> QED BY <2>4, <4>1
    <3>3. claimWithin(used', used)
      BY <3>2 DEF claimWithin
    <3> QED BY <2>5, <3>1, <3>3, FitsWithin DEF TreeBooked, TreeBalanced
  <2> QED BY <2>1, <2>5, <2>6 DEF TreeBooked, TreeBalanced
<1> QED BY <1>1, <1>2 DEF LedgerMove

\* A new Bank charges nothing, and nothing is within every limit.
LEMMA TreeInitConserves == ASSUME TreeInit PROVE TreeBooked
<1>1. used = ZeroClaim /\ Fits(used)
  BY InitBalanced DEF TreeInit, Init
<1>2. \A h \in TreeHolders : TreeCharges[h] = ZeroClaim
  <2>1. \A i \in Slots : slots[i].claim = ZeroClaim
                         /\ roots[i].current = ZeroClaim
    BY DEF TreeInit, Init, FreeSlot, FreeRoot
  <2> QED BY <2>1 DEF TreeCharges, TreeHolders
<1>3. ASSUME NEW k \in Classes
      PROVE  used[k] = Sum(TreeInClass(k), TreeHolders)
  <2>1. \A h \in TreeHolders : TreeInClass(k)[h] = 0
    BY <1>2 DEF TreeInClass, ZeroClaim
  <2> QED BY <1>1, <2>1, TreeChargesType, SumOfZeros DEF ZeroClaim
<1> QED BY <1>1, <1>3 DEF TreeBooked, TreeBalanced

\* So the books are always balanced.
LEMMA BooksBalance == TreeSpec => []TreeBooked
<1>1. TreeInv /\ TreeBooked /\ [TreeNext]_allVars => TreeBooked'
  BY TreeStepKeeps, TreeLedgerConserves DEF Forms
<1> QED BY <1>1, TreeInitConserves, TreesAreSound, PTL DEF TreeSpec

\* Bank.used is at every moment the sum of the claims of the occupied slots
\* and of what the additive trees carry, within the aggregate limit and the
\* limit of each class, through every wave, abort, free and teardown.
THEOREM TreeConservation == TreeSpec => []TreeConserved
<1>1. TreeInv /\ TreeBooked => TreeConserved
  <2> SUFFICES ASSUME TreeInv, TreeBooked PROVE TreeConserved
    OBVIOUS
  <2>1. used = [k \in Classes |-> used[k]]
    BY DEF TreeInv, TreeTypes, Claim
  <2>2. used = [k \in Classes |-> Sum(TreeInClass(k), TreeHolders)]
    BY <2>1 DEF TreeBooked, TreeBalanced
  <2> QED BY <2>2 DEF TreeConserved, TreeBooked, TreeInClass, Sum
<1> QED BY <1>1, TreesAreSound, BooksBalance, PTL

\* So what a pending decision may give back is charged.
LEMMA PendingIsCharged ==
    ASSUME TreeInv, TreeBooked, NEW i \in Slots,
           roots[i].state = "active", roots[i].funding = "additive",
           roots[i].pending.kind # "none"
    PROVE  claimWithin(roots[i].pending.claim, used)
<1>1. /\ TreeSound(i) /\ nodes \in [Nodes -> Node] /\ used \in Claim
      /\ LeavesOf(i) \in SUBSET Nodes /\ PendingOf(i) \in SUBSET LeavesOf(i)
  BY DEF TreeInv, TreeTypes, LeavesOf, NodesOf, PendingOf
<1>2. /\ roots[i].current = Total(nodes, LeavesOf(i))
      /\ roots[i].pending.claim = Total(nodes, PendingOf(i))
  BY <1>1 DEF TreeSound, SumsSound, RootSound
<1>3. /\ claimWithin(roots[i].pending.claim, roots[i].current)
      /\ roots[i].pending.claim \in Claim
  <2>1. PendingOf(i) \in SUBSET Nodes
    BY <1>1
  <2> QED BY <1>1, <1>2, <2>1, NodesRest, NodesTotal
<1> DEFINE h == <<"tree", i>>
<1>4. h \in TreeHolders /\ TreeCharges[h] = roots[i].current
  BY DEF TreeHolders, TreeCharges
<1> HIDE DEF h
<1>5. ASSUME NEW k \in Classes PROVE roots[i].pending.claim[k] <= used[k]
  <2>1. \A g \in TreeHolders : TreeInClass(k)[g] \in Nat
    BY TreeChargesType DEF TreeInClass, Claim
  <2>2. /\ Sum(TreeInClass(k), TreeHolders)
             = TreeInClass(k)[h] + Sum(TreeInClass(k), TreeHolders \ {h})
        /\ IsFiniteSet(TreeHolders \ {h})
    <3> DEFINE f == TreeInClass(k)
    <3>1. /\ IsFiniteSet(TreeHolders) /\ h \in TreeHolders
          /\ \A g \in TreeHolders : f[g] \in Nat
      BY <1>4, <2>1, TreeChargesType
    <3> HIDE DEF f
    <3>2. IsFiniteSet(TreeHolders \ {h})
      BY ONLY <3>1, FS_RemoveElement
    <3>3. Sum(f, TreeHolders) = f[h] + Sum(f, TreeHolders \ {h})
      BY ONLY <3>1, SumRemove
    <3> QED BY <3>2, <3>3 DEF f
  <2>3. Sum(TreeInClass(k), TreeHolders \ {h}) \in Nat
    BY <2>1, <2>2, SumType
  <2>4. TreeInClass(k)[h] = roots[i].current[k] /\ TreeInClass(k)[h] \in Nat
    BY <1>4, <2>1 DEF TreeInClass
  <2>5. /\ roots[i].pending.claim[k] <= roots[i].current[k]
        /\ roots[i].pending.claim[k] \in Nat
    BY <1>3 DEF claimWithin, Claim
  <2>6. used[k] = Sum(TreeInClass(k), TreeHolders)
    BY DEF TreeBooked, TreeBalanced
  <2> QED BY ONLY <2>2, <2>3, <2>4, <2>5, <2>6
<1> QED BY <1>5 DEF claimWithin

-----------------------------------------------------------------------------
(* What was accepted can be finished.                                      *)

\* The room is held in every state of the Bank.
THEOREM RoomIsHeld == TreeSpec => []RoomHeld
BY RoomInit, RoomStep, TreesAreSound, PTL DEF TreeSpec

\* A handle that is held is honoured by its validator.
LEMMA HeldIsHonoured ==
    ASSUME TreeInv, HandlesSound, NEW t \in issued \ spent
    PROVE  /\ t.kind = "pin" => t \in PinToken /\ validateLeasePin(t)
           /\ t.kind \in {"batch", "ticket", "free"} =>
                 t \in DecisionToken /\ validateDecision(t)
<1>1. t \in Token /\ t \in issued
  BY DEF TreeInv, TreeTypes
<1>2. Honoured(t) \/ HonouredTree(t)
  BY <1>1, StandsIsHonoured DEF HandlesSound
<1>3. CASE t.kind = "pin"
  <2>1. t \in PinToken
    BY <1>1, <1>3, TokenKinds DEF TreeInv, PinPermits
  <2> QED BY <1>2, <1>3, <2>1, OneValidator
<1>4. CASE t.kind \in {"batch", "ticket", "free"}
  <2>1. t \in DecisionToken
    BY <1>1, <1>4, TokenKinds DEF TreeInv, Batches, Tickets, FreePermits
  <2> QED BY <1>2, <1>4, <2>1, OneValidator
<1> QED BY <1>3, <1>4

\* A held pin can be released.
LEMMA PinFinishes ==
    ASSUME TreeInv, RoomHeld, NEW t \in PinToken, validateLeasePin(t)
    PROVE  CanRelease(t)
<1> DEFINE i == t.parent.slot
           p == t.index
<1>1. /\ t.pin.state = "active" /\ t.pin.slot = i /\ pins[p] = t.pin
      /\ p \in PinSlots /\ roots[i].state = "active" /\ i \in Slots
  BY DEF PinToken, Receipt, validateLeasePin
<1>2. p \in PinsOf(i) /\ p \in ActivePins
  BY <1>1 DEF PinsOf, ActivePins
<1>3. SessionAt(slots[i], t.pin.requestEpoch, t.pin.sessionId, t.pin.sequence)
  BY <1>1, <1>2 DEF RoomHeld, PinInSession
<1>4. Cardinality(PinsOf(i)) \in Nat /\ Cardinality(PinsOf(i)) # 0
  BY <1>2, PinsCounted, FS_EmptySet
<1>5. roots[i].revision < MaxRevision
  <2>1. /\ roots[i].revision \in Nat
        /\ roots[i].revision + StepsLeft(roots[i].pending.kind)
             + Cardinality(PinsOf(i)) <= MaxRevision
    BY <1>1 DEF RoomHeld, RoomLeft, TreeInv, TreeTypes, Root
  <2>2. StepsLeft(roots[i].pending.kind) \in Nat
    BY DEF StepsLeft
  <2> QED BY <1>4, <2>1, <2>2, TreeAssumption
<1>6. reservedCompletions > 0 /\ nextLeaseGeneration < MaxLeaseGeneration
  <2>1. ActivePins \in SUBSET PinSlots
    BY DEF ActivePins
  <2>2. IsFiniteSet(ActivePins) /\ Cardinality(ActivePins) \in Nat
    BY <2>1, PinsFinite
  <2>3. Cardinality(ActivePins) # 0
    BY <1>2, <2>2, FS_EmptySet
  <2>4. reservedCompletions > 0
    BY <2>2, <2>3 DEF TreeInv, Registered
  <2>5. nextLeaseGeneration \in Nat /\ MaxLeaseGeneration \in Nat
    BY TreeAssumption DEF TreeInv, TreeTypes
  <2> QED BY <2>2, <2>4, <2>5 DEF RoomHeld, Promised, TreeInv, Registered
<1>7. ASSUME NEW j \in t.pin.members
      PROVE  nodes[j].state = "live" /\ nodes[j].pinCount > 0
  <2> DEFINE holders == {q \in PinsOf(i) : j \in pins[q].members}
  <2>1. j \in Nodes /\ nodes[j].state = "live"
    BY <1>1, PinnedIsLive DEF PinnedAreLive
  <2>2. PinsSound(i) /\ pins[p].members \subseteq LeavesOf(i)
    BY <1>1, <1>2 DEF TreeInv, TreeSound, PinsSound
  <2>3. j \in NodesOf(i) /\ p \in holders
    BY <1>1, <1>2, <2>2 DEF LeavesOf
  <2>4. nodes[j].pinCount = Cardinality(holders)
    BY <2>2, <2>3 DEF PinsSound
  <2>5. holders \in SUBSET PinSlots
    BY DEF PinsOf
  <2> HIDE DEF holders
  <2>6. IsFiniteSet(holders) /\ Cardinality(holders) \in Nat
    BY <2>5, PinsFinite
  <2>7. Cardinality(holders) # 0
    BY <2>3, <2>6, FS_EmptySet
  <2> QED BY <2>1, <2>4, <2>6, <2>7
<1> QED BY <1>3, <1>5, <1>6, <1>7 DEF CanRelease

\* A held decision can be settled.
LEMMA DecisionFinishes ==
    ASSUME TreeInv, RoomHeld, TreeBooked, NEW t \in DecisionToken,
           validateDecision(t)
    PROVE  LET i == t.parent.slot
           IN  /\ structuralRevisionHeadroom(
                     i, IF t.kind = "ticket" THEN 2 ELSE 1, 0)
               /\ roots[i].funding = "additive" =>
                     claimWithin(roots[i].pending.claim, used)
<1> DEFINE i == t.parent.slot
           kind == roots[i].pending.kind
<1>1. /\ i \in Slots /\ roots[i] = t.root /\ roots[i].state = "active"
      /\ t.kind \in {"batch", "ticket", "free"} /\ t.kind = DecisionOn(kind)
  BY DEF DecisionToken, ActiveRoot, Receipt, validateDecision
<1>2. /\ kind # "none"
      /\ StepsLeft(kind) = IF t.kind = "ticket" THEN 2 ELSE 1
  BY <1>1 DEF DecisionOn, StepsLeft
<1>3. /\ roots[i].revision \in Nat /\ MaxRevision \in Nat
      /\ roots[i].revision + StepsLeft(kind) + Cardinality(PinsOf(i))
           <= MaxRevision
      /\ Cardinality(PinsOf(i)) \in Nat
  BY <1>1, PinsCounted, TreeAssumption
     DEF RoomHeld, RoomLeft, TreeInv, TreeTypes, Root
<1>4. structuralRevisionHeadroom(i, StepsLeft(kind), 0)
  BY <1>2, <1>3 DEF structuralRevisionHeadroom
<1>5. roots[i].funding = "additive" =>
          claimWithin(roots[i].pending.claim, used)
  BY <1>1, <1>2, PendingIsCharged
<1> QED BY <1>2, <1>4, <1>5

\* A pin that releaseLeasePins was promised, and a batch, ticket or free permit
\* that is still out, pass every check of the call that finishes them, however
\* near the generation counter and the revisions are to their ends: the
\* completion generation and the revisions were set aside when they were
\* issued, and what they may give back is charged.
THEOREM AcceptedCanFinish ==
    ASSUME 0 \notin SessionIds PROVE TreeSpec => []AcceptedFinishes
<1>1. TreeInv /\ HandlesSound /\ RoomHeld /\ TreeBooked => AcceptedFinishes
  <2> SUFFICES ASSUME TreeInv, HandlesSound, RoomHeld, TreeBooked,
                      NEW t \in issued \ spent
               PROVE  LET i == t.parent.slot IN
                      /\ t.kind = "pin" => CanRelease(t)
                      /\ t.kind \in {"batch", "ticket", "free"} =>
                            /\ validateDecision(t)
                            /\ structuralRevisionHeadroom(
                                  i, IF t.kind = "ticket" THEN 2 ELSE 1, 0)
                            /\ roots[i].funding = "additive" =>
                                  claimWithin(roots[i].pending.claim, used)
    BY DEF AcceptedFinishes
  <2> QED BY HeldIsHonoured, PinFinishes, DecisionFinishes
<1> QED BY <1>1, TreeHandlesSound, RoomIsHeld, BooksBalance, PTL

=============================================================================
