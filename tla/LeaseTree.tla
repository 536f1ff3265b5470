----------------------------- MODULE LeaseTree ------------------------------
(***************************************************************************)
(* The ownership trees of core/resource_bank.zig, composed with the        *)
(* receipts and publication sessions of ResourceBank.  A committed receipt *)
(* may own one tree: scopes below the root, allocation leaves below the    *)
(* scopes.  Leaves are charged before the caller allocates (reserve, then  *)
(* commit or abort) and uncharged after it frees (retire, then cancel or   *)
(* authorize, then commit the free); command pins hold leaves in place.    *)
(* An additive tree charges Bank.used on top of its receipt; a receipt-    *)
(* funded tree carves its leaves out of the receipt's own claim.           *)
(*                                                                         *)
(* As in ResourceBank each method is one atomic action and any handle ever *)
(* issued may be presented.  A tree, batch, ticket or free-permit handle   *)
(* is a copy of the root it was issued for: the code compares the fields   *)
(* one by one and covers the rest with the state digest, which is          *)
(* recomputed from the nodes and pins on every call.  A Bank has either    *)
(* child slots or trees, so children stays free.                           *)
(***************************************************************************)
EXTENDS ResourceBank, Sequences

CONSTANTS
    NodeCount,           \* storage.nodes.len, one pool for all trees
    PinSlotCount,        \* storage.pin_slots.len
    QueueClass,          \* the class queue_slots
    Keys,                \* scope, node and binding keys of the callers
    FundingModes,        \* the modes callers open trees in
    Ceilings,            \* the tree and scope ceilings callers ask for
    LeafClaims,          \* the claims of single leaves
    RestorePoints,       \* <<next sequence, last permit generation>> pairs
                         \* that callers restore from; generation 0 stands
                         \* for the legacy bind, which has none
    MaxBatch,            \* leaves in one allocation wave or one pin
    MaxLeaseGeneration,  \* maxInt(u64) for next_lease_generation
    MaxRevision          \* maxInt(u64) for structural_revision

ASSUME TreeAssumption ==
    /\ NodeCount \in Nat \ {0} /\ PinSlotCount \in Nat
    /\ QueueClass \in Classes
    /\ FundingModes \subseteq {"additive", "funded"}
    /\ Ceilings \subseteq Claim /\ LeafClaims \subseteq Claim
    /\ RestorePoints \subseteq (Nat \ {0}) \X Nat
    /\ MaxBatch \in Nat \ {0}
    /\ MaxLeaseGeneration \in Nat \ {0} /\ MaxRevision \in Nat \ {0}

VARIABLES
    roots,               \* storage.roots, one for each receipt slot
    nodes,               \* storage.nodes
    pins,                \* storage.pin_slots
    nextLeaseGeneration, \* Bank.next_lease_generation
    reservedCompletions  \* Bank.reserved_lease_pin_completion_generations

generationVars == <<nextLeaseGeneration, reservedCompletions>>
treeVars == <<roots, nodes, pins, generationVars>>
bankVars == <<slots, used, nextGeneration, childVars, published>>
allVars == <<vars, treeVars>>

Nodes == 0 .. NodeCount - 1
PinSlots == 0 .. PinSlotCount - 1
NoNode == NodeCount

NothingPending == [kind |-> "none", generation |-> 0, completion |-> 0,
                   freePermit |-> 0, freeCompletion |-> 0,
                   scope |-> NoNode, claim |-> ZeroClaim]

FreeRoot == [state |-> "free", identity |-> 0, generation |-> 0,
             revision |-> 0, ceiling |-> ZeroClaim, current |-> ZeroClaim,
             funding |-> "additive", activated |-> FALSE,
             pending |-> NothingPending]

FreeNode == [state |-> "free", kind |-> "scope", slot |-> 0, tree |-> 0,
             generation |-> 0, parent |-> NoNode, key |-> 0,
             ceiling |-> ZeroClaim, subtree |-> ZeroClaim,
             pending |-> 0, pinCount |-> 0]

FreePin == [state |-> "free", slot |-> 0, tree |-> 0, generation |-> 0,
            treeGeneration |-> 0, requestEpoch |-> 0, sessionId |-> 0,
            sequence |-> 0, scope |-> NoNode, members |-> {}]

-----------------------------------------------------------------------------
(* Handles and their validation.                                           *)

TreeAt(r, root) == [kind |-> "tree", parent |-> r, root |-> root]

\* The allocation batch, retire ticket and free permit: the pending decision
\* of a root together with the publication session it was taken for.
DecisionAt(kind, r, root, s) ==
    [kind |-> kind, parent |-> r, root |-> root,
     requestEpoch |-> s.requestEpoch, sessionId |-> s.sessionId,
     sequence |-> s.nextSequence]

NodeAt(r, j, node) ==
    [kind |-> "node", parent |-> r, tree |-> node.tree, index |-> j,
     generation |-> node.generation, nodeKind |-> node.kind]

PinAt(r, p, pin) ==
    [kind |-> "pin", parent |-> r, index |-> p, pin |-> pin]

validateLeaseTree(t) ==
    /\ t.kind = "tree"
    /\ validateReceipt(t.parent)
    /\ roots[t.parent.slot] = t.root

\* Mutant: the generation of the node is not compared.
validateLeaseNodeAnyGeneration(t) ==
    /\ t.kind = "node"
    /\ validateReceipt(t.parent)
    /\ nodes[t.index].state # "free"
    /\ nodes[t.index].slot = t.parent.slot
    /\ nodes[t.index].tree = t.tree
    /\ nodes[t.index].kind = t.nodeKind

\* A node handle is only accepted together with the current tree handle.
validateLeaseNode(t) ==
    /\ t.kind = "node"
    /\ validateReceipt(t.parent)
    /\ nodes[t.index].state # "free"
    /\ nodes[t.index].slot = t.parent.slot
    /\ nodes[t.index].tree = t.tree
    /\ nodes[t.index].generation = t.generation
    /\ nodes[t.index].kind = t.nodeKind

\* Mutant: some decision is pending, not necessarily this one.
validateDecisionOfAnyRoot(t) ==
    /\ t.kind \in {"batch", "ticket", "free"}
    /\ validateReceipt(t.parent)
    /\ SessionAt(slots[t.parent.slot], t.requestEpoch, t.sessionId,
                 t.sequence)
    /\ roots[t.parent.slot].pending.kind # "none"

\* Batch, ticket and free permit are validated alike, each against the root
\* it was issued for; root.pending.kind tells them apart.
validateDecision(t) ==
    /\ t.kind \in {"batch", "ticket", "free"}
    /\ validateReceipt(t.parent)
    /\ SessionAt(slots[t.parent.slot], t.requestEpoch, t.sessionId,
                 t.sequence)
    /\ roots[t.parent.slot] = t.root

validateLeasePin(t) ==
    /\ t.kind = "pin"
    /\ validateReceipt(t.parent)
    /\ roots[t.parent.slot].state = "active"
    /\ roots[t.parent.slot].identity = t.pin.tree
    /\ pins[t.index] = t.pin

HonouredTree(t) == \/ validateLeaseTree(t)
                   \/ validateLeaseNode(t)
                   \/ validateDecision(t)
                   \/ validateLeasePin(t)

-----------------------------------------------------------------------------
(* Trees, generations and revisions.                                       *)

NodesOf(i) == {j \in Nodes : nodes[j].state # "free" /\ nodes[j].slot = i}
LeavesOf(i) == {j \in NodesOf(i) : nodes[j].kind = "allocation"}
LeavesBelow(j) == {l \in LeavesOf(nodes[j].slot) : nodes[l].parent = j}
PendingOf(i) == {j \in LeavesOf(i) :
                    /\ roots[i].pending.kind # "none"
                    /\ nodes[j].pending = roots[i].pending.generation}
PinsOf(i) == {p \in PinSlots : pins[p].state = "active" /\ pins[p].slot = i}
FreeNodes == {j \in Nodes : nodes[j].state = "free"}

TotalClaim(claims) ==
    [k \in Classes |->
        SumFunctionOnSet([x \in DOMAIN claims |-> claims[x][k]],
                         DOMAIN claims)]

ClaimOf(leaves) == TotalClaim([j \in leaves |-> nodes[j].subtree])

hasActiveLeaseTree(i) == roots[i].state = "active"
hasActiveLeasePins(i) == PinsOf(i) # {}

\* Mutant: only an activated tree keeps its session open.
leaseTreeBlocksSessionCloseWhenActivated(i) ==
    hasActiveLeaseTree(i) /\ roots[i].activated

leaseTreeBlocksSessionClose(i) ==
    /\ hasActiveLeaseTree(i)
    /\ \/ roots[i].pending.kind # "none"
       \/ roots[i].current # ZeroClaim
       \/ roots[i].activated

\* Mutant: the generations promised to live pins are given away.
leaseGenerationFitsAlone(count, pinHeadroom) ==
    count < MaxLeaseGeneration - nextLeaseGeneration

\* The generations promised to the live pins cannot be taken by others.
leaseGenerationReservationFits(count, pinHeadroom) ==
    count + reservedCompletions + pinHeadroom
        < MaxLeaseGeneration - nextLeaseGeneration

reserveLeaseGenerations(count) ==
    /\ leaseGenerationReservationFits(count, 0)
    /\ nextLeaseGeneration' = nextLeaseGeneration + count
    /\ UNCHANGED reservedCompletions

\* Mutant: the releases of the live pins are given no revisions.
structuralRevisionHeadroomAlone(i, revisions, pinHeadroom) ==
    revisions + pinHeadroom <= MaxRevision - roots[i].revision

\* Neither can the structural revisions that will release those pins.
structuralRevisionHeadroom(i, revisions, pinHeadroom) ==
    revisions + Cardinality(PinsOf(i)) + pinHeadroom
        <= MaxRevision - roots[i].revision

\* The root is replaced, moves to generation g and the next revision, and its
\* handle with it; other handles in old end and those in new begin.
AdvanceTree(r, root, g, old, new) ==
    LET next == [root EXCEPT !.generation = g, !.revision = @ + 1] IN
    /\ roots' = [roots EXCEPT ![r.slot] = next]
    /\ Exchange({TreeAt(r, roots[r.slot])} \union old,
                {TreeAt(r, next)} \union new)

\* Mutant: a funded tree is charged a second time.
ChargeUsedAlways(i, c) == used' = addClaims(used, c)

\* An additive tree moves Bank.used with its own charge, a funded one never.
ChargeUsed(i, c) ==
    used' = IF roots[i].funding = "additive" THEN addClaims(used, c) ELSE used

\* Mutant: what the tree gives back stays charged.
UnchargeUsedNever(i, c) == UNCHANGED used

UnchargeUsed(i, c) ==
    /\ roots[i].funding = "additive" => claimWithin(c, used)
    /\ used' = IF roots[i].funding = "additive" THEN subtractClaims(used, c)
                                                ELSE used

openLeaseTreeWithFundingMode(t, ceiling, funding) ==
    LET root == [FreeRoot EXCEPT !.state = "active",
                                 !.identity = nextLeaseGeneration,
                                 !.generation = nextLeaseGeneration + 1,
                                 !.revision = 1,
                                 !.ceiling = ceiling,
                                 !.funding = funding]
    IN  /\ ceiling # ZeroClaim
        /\ validateReceipt(t)
        /\ ~hasActiveLeaseTree(t.slot)
        /\ Unbound(slots[t.slot])
        /\ funding = "funded" => /\ ceiling[QueueClass] = 0
                                 /\ claimWithin(ceiling, t.claim)
        /\ reserveLeaseGenerations(2)
        /\ roots' = [roots EXCEPT ![t.slot] = root]
        /\ Exchange({}, {TreeAt(t, root)})
        /\ UNCHANGED <<bankVars, nodes, pins>>

openLeaseScope(t, key, ceiling) ==
    LET i == t.parent.slot
        node(j) == [FreeNode EXCEPT !.state = "live", !.slot = i,
                                    !.tree = t.root.identity,
                                    !.generation = nextLeaseGeneration,
                                    !.key = key, !.ceiling = ceiling]
    IN  /\ ceiling # ZeroClaim
        /\ validateLeaseTree(t)
        /\ t.root.pending.kind = "none"
        /\ Unbound(slots[i])
        /\ claimWithin(ceiling, t.root.ceiling)
        /\ \A j \in NodesOf(i) : nodes[j].kind = "scope" => nodes[j].key # key
        /\ structuralRevisionHeadroom(i, 1, 0)
        /\ reserveLeaseGenerations(2)
        /\ \E j \in FreeNodes :
            /\ \A l \in FreeNodes : j <= l
            /\ nodes' = [nodes EXCEPT ![j] = node(j)]
            /\ AdvanceTree(t.parent, t.root, nextLeaseGeneration + 1,
                           {}, {NodeAt(t.parent, j, node(j))})
        /\ UNCHANGED <<bankVars, pins>>

-----------------------------------------------------------------------------
(* Allocation waves.  specs is the sequence of requested leaves, each with *)
(* a scope handle, a key and a claim; one key stands for the node key and  *)
(* the binding key of the code, so unique bindings make unique node keys.  *)

\* The k-th spec takes the k-th free node in storage order.
NodeFor(k) == CHOOSE j \in FreeNodes :
                Cardinality({l \in FreeNodes : l < j}) = k - 1

ScopeAddition(specs, j) ==
    TotalClaim([k \in {x \in DOMAIN specs : specs[x].scope.index = j} |->
                    specs[k].claim])

ValidSpecs(t, specs) ==
    /\ \A k \in DOMAIN specs :
        LET scope == specs[k].scope IN
        /\ specs[k].claim # ZeroClaim
        /\ validateLeaseNode(scope)
        /\ scope.parent = t.parent /\ scope.tree = t.root.identity
        /\ scope.nodeKind = "scope"
        /\ nodes[scope.index].state = "live"
        /\ claimWithin(addClaims(nodes[scope.index].subtree,
                                 ScopeAddition(specs, scope.index)),
                       nodes[scope.index].ceiling)
        /\ \A j \in LeavesOf(t.parent.slot) : nodes[j].key # specs[k].key
    /\ \A k, l \in DOMAIN specs : k # l => specs[k].key # specs[l].key

reserveAllocationsForSession(t, e, id, n, specs) ==
    LET i == t.parent.slot
        g == nextLeaseGeneration
        size == Len(specs)
        total == TotalClaim([k \in DOMAIN specs |-> specs[k].claim])
        leaf(k) == [FreeNode EXCEPT !.state = "reserved",
                                    !.kind = "allocation", !.slot = i,
                                    !.tree = t.root.identity,
                                    !.generation = g + k,
                                    !.parent = specs[k].scope.index,
                                    !.key = specs[k].key,
                                    !.ceiling = specs[k].claim,
                                    !.subtree = specs[k].claim,
                                    !.pending = g]
        root == [t.root EXCEPT !.current = addClaims(@, total),
                               !.pending = [NothingPending EXCEPT
                                              !.kind = "allocation",
                                              !.generation = g,
                                              !.completion = g + size + 2,
                                              !.claim = total]]
        settled == [root EXCEPT !.generation = g + size + 1,
                                !.revision = @ + 1]
    IN  /\ e # 0 /\ id # 0
        /\ validateLeaseTree(t)
        /\ t.root.pending.kind = "none"
        /\ ~t.root.activated
        /\ SessionAt(slots[i], e, id, n)
        /\ size <= Cardinality(FreeNodes)
        /\ ValidSpecs(t, specs)
        /\ claimWithin(root.current, root.ceiling)
        /\ t.root.funding = "additive" => Fits(addClaims(used, total))
        /\ structuralRevisionHeadroom(i, 2, 0)
        /\ reserveLeaseGenerations(size + 3)
        /\ nodes' = [j \in Nodes |->
                        IF \E k \in 1 .. size : NodeFor(k) = j
                        THEN leaf(CHOOSE k \in 1 .. size : NodeFor(k) = j)
                        ELSE [nodes[j] EXCEPT
                                !.subtree = addClaims(@,
                                              ScopeAddition(specs, j))]]
        /\ ChargeUsed(i, total)
        /\ AdvanceTree(t.parent, root, g + size + 1, {},
             {NodeAt(t.parent, NodeFor(k), leaf(k)) : k \in 1 .. size}
               \union {DecisionAt("batch", t.parent, settled, slots[i])})
        /\ UNCHANGED <<slots, nextGeneration, childVars, published, pins>>

\* Mutant: the walk over the nodes stops at the first pending leaf.
SettleFirstLeaf(i, state, pending) ==
    nodes' = [j \in Nodes |->
                IF j \in PendingOf(i) /\ \A l \in PendingOf(i) : j <= l
                THEN [nodes[j] EXCEPT !.state = state, !.pending = pending]
                ELSE nodes[j]]

\* The pending leaves move to another state; the decision is taken.
SettleLeaves(i, state, pending) ==
    nodes' = [j \in Nodes |->
                IF j \in PendingOf(i)
                THEN [nodes[j] EXCEPT !.state = state, !.pending = pending]
                ELSE nodes[j]]

\* Mutant: every scope of the tree loses the whole pending claim.
DropLeavesFromAllScopes(i) ==
    /\ nodes' = [j \in Nodes |->
                   IF j \in PendingOf(i) THEN FreeNode
                   ELSE IF j \in NodesOf(i) /\ nodes[j].kind = "scope"
                   THEN [nodes[j] EXCEPT
                           !.subtree = subtractClaims(@,
                                                      roots[i].pending.claim)]
                   ELSE nodes[j]]
    /\ UnchargeUsed(i, roots[i].pending.claim)

\* The pending leaves are cleared and their claims leave scope, tree and Bank.
DropLeaves(i) ==
    /\ nodes' = [j \in Nodes |->
                   IF j \in PendingOf(i) THEN FreeNode
                   ELSE IF j \in NodesOf(i) /\ nodes[j].kind = "scope"
                   THEN [nodes[j] EXCEPT
                           !.subtree = subtractClaims(@,
                               ClaimOf(LeavesBelow(j) \intersect PendingOf(i)))]
                   ELSE nodes[j]]
    /\ UnchargeUsed(i, roots[i].pending.claim)

LeafHandles(r, leaves) == {NodeAt(r, j, nodes[j]) : j \in leaves}

commitAllocationsAfterAllocate(t) ==
    LET i == t.parent.slot IN
    /\ t.kind = "batch" /\ validateDecision(t)
    /\ t.root.funding = "additive"
    /\ structuralRevisionHeadroom(i, 1, 0)
    /\ SettleLeaves(i, "live", 0)
    /\ AdvanceTree(t.parent, [t.root EXCEPT !.pending = NothingPending],
                   t.root.pending.completion, {t}, {})
    /\ UNCHANGED <<bankVars, pins, generationVars>>

\* The whole funded ceiling is materialized in one wave and the restored
\* session becomes usable.  g is the source's last permit generation; tree is
\* the handle returned with the batch.
commitFundedAllocationsAndActivateRestoredPublication(tree, t, e, id, n, g) ==
    LET i == t.parent.slot IN
    /\ e # 0 /\ id # 0 /\ n # 0 /\ g # 0 /\ g # MaxPermitGeneration
    /\ validateLeaseTree(tree) /\ tree.parent = t.parent
    /\ t.kind = "batch" /\ validateDecision(t)
    /\ t.root.funding = "funded" /\ ~t.root.activated
    /\ t.root.current = t.root.ceiling
    /\ t.root.pending.claim = t.root.ceiling
    /\ t.requestEpoch = e /\ t.sessionId = id /\ t.sequence = n
    /\ slots[i].permitGeneration = g
    /\ structuralRevisionHeadroom(i, 1, 0)
    /\ SettleLeaves(i, "live", 0)
    /\ AdvanceTree(t.parent, [t.root EXCEPT !.pending = NothingPending,
                                            !.activated = TRUE],
                   t.root.pending.completion, {t}, {})
    /\ UNCHANGED <<bankVars, pins, generationVars>>

abortAllocationsAfterFree(t) ==
    LET i == t.parent.slot IN
    /\ t.kind = "batch" /\ validateDecision(t)
    /\ structuralRevisionHeadroom(i, 1, 0)
    /\ DropLeaves(i)
    /\ AdvanceTree(t.parent,
                   [t.root EXCEPT !.pending = NothingPending,
                                  !.current = subtractClaims(@,
                                                 t.root.pending.claim)],
                   t.root.pending.completion,
                   {t} \union LeafHandles(t.parent, PendingOf(i)), {})
    /\ UNCHANGED <<slots, nextGeneration, childVars, published, pins,
                   generationVars>>

-----------------------------------------------------------------------------
(* Command pins.                                                           *)

acquireLeasePinsForSession(t, scope, e, id, n, leaves) ==
    LET i == t.parent.slot
        g == nextLeaseGeneration
        members == {l.index : l \in leaves}
        pin == [state |-> "active", slot |-> i, tree |-> t.root.identity,
                generation |-> g, treeGeneration |-> g + 1,
                requestEpoch |-> e, sessionId |-> id, sequence |-> n,
                scope |-> scope.index, members |-> members]
    IN  /\ e # 0 /\ id # 0 /\ leaves # {}
        /\ validateLeaseTree(t)
        /\ t.root.pending.kind = "none"
        /\ \A l \in leaves \union {scope} :
              /\ validateLeaseNode(l)
              /\ l.parent = t.parent /\ l.tree = t.root.identity
              /\ nodes[l.index].state = "live"
        /\ scope.nodeKind = "scope"
        /\ \A l \in leaves : /\ l.nodeKind = "allocation"
                             /\ nodes[l.index].parent = scope.index
        /\ SessionAt(slots[i], e, id, n)
        /\ Cardinality(PinsOf(i)) < t.parent.claim[QueueClass]
        /\ structuralRevisionHeadroom(i, 1, 1)
        /\ leaseGenerationReservationFits(3, 1)
        /\ nextLeaseGeneration' = g + 3
        /\ reservedCompletions' = reservedCompletions + 1
        /\ \E p \in PinSlots :
            /\ pins[p].state = "free"
            /\ \A q \in PinSlots : q < p => pins[q].state = "active"
            /\ pins' = [pins EXCEPT ![p] = pin]
            /\ AdvanceTree(t.parent, t.root, g + 1, {},
                           {PinAt(t.parent, p, pin)})
        /\ nodes' = [j \in Nodes |-> IF j \in members
                                     THEN [nodes[j] EXCEPT !.pinCount = @ + 1]
                                     ELSE nodes[j]]
        /\ UNCHANGED bankVars

\* What the release of a pin asks of the Bank besides that no decision is
\* pending on the tree.
CanRelease(t) ==
    LET i == t.parent.slot IN
    /\ validateLeasePin(t)
    /\ SessionAt(slots[i], t.pin.requestEpoch, t.pin.sessionId,
                 t.pin.sequence)
    /\ roots[i].revision < MaxRevision
    /\ \A j \in t.pin.members : /\ nodes[j].state = "live"
                                /\ nodes[j].pinCount > 0
    /\ reservedCompletions > 0
    /\ nextLeaseGeneration < MaxLeaseGeneration

releaseLeasePins(t) ==
    LET i == t.parent.slot IN
    /\ CanRelease(t)
    /\ roots[i].pending.kind = "none"
    /\ nextLeaseGeneration' = nextLeaseGeneration + 1
    /\ reservedCompletions' = reservedCompletions - 1
    /\ nodes' = [j \in Nodes |-> IF j \in t.pin.members
                                 THEN [nodes[j] EXCEPT !.pinCount = @ - 1]
                                 ELSE nodes[j]]
    /\ pins' = [pins EXCEPT ![t.index] = FreePin]
    /\ AdvanceTree(t.parent, roots[i], nextLeaseGeneration, {t}, {})
    /\ UNCHANGED bankVars

-----------------------------------------------------------------------------
(* Retiring the leaves of one scope.                                       *)

\* Mutant: a leaf is retired under the commands that pin it.
RetirableUnderPins(j) == nodes[j].state = "live"

Retirable(j) == nodes[j].state = "live" /\ nodes[j].pinCount = 0

beginRetireSubtreeForSession(t, scope, e, id, n) ==
    LET i == t.parent.slot
        g == nextLeaseGeneration
        leaves == LeavesBelow(scope.index)
        root == [t.root EXCEPT !.pending =
                    [kind |-> "retire", generation |-> g,
                     completion |-> g + 2, freePermit |-> g + 3,
                     freeCompletion |-> g + 4, scope |-> scope.index,
                     claim |-> ClaimOf(leaves)]]
        settled == [root EXCEPT !.generation = g + 1, !.revision = @ + 1]
    IN  /\ e # 0 /\ id # 0
        /\ validateLeaseTree(t)
        /\ t.root.pending.kind = "none"
        /\ t.root.funding = "funded" => t.root.activated
        /\ validateLeaseNode(scope)
        /\ scope.parent = t.parent /\ scope.tree = t.root.identity
        /\ scope.nodeKind = "scope"
        /\ SessionAt(slots[i], e, id, n)
        /\ leaves # {}
        /\ \A j \in leaves : Retirable(j)
        /\ ClaimOf(leaves) = nodes[scope.index].subtree
        /\ structuralRevisionHeadroom(i, 3, 0)
        /\ reserveLeaseGenerations(5)
        /\ nodes' = [j \in Nodes |->
                       IF j \in leaves
                       THEN [nodes[j] EXCEPT !.state = "quiescing",
                                             !.pending = g]
                       ELSE nodes[j]]
        /\ AdvanceTree(t.parent, root, g + 1, {},
                       {DecisionAt("ticket", t.parent, settled, slots[i])})
        /\ UNCHANGED <<bankVars, pins>>

cancelRetire(t) ==
    LET i == t.parent.slot IN
    /\ t.kind = "ticket" /\ validateDecision(t)
    /\ structuralRevisionHeadroom(i, 1, 0)
    /\ SettleLeaves(i, "live", 0)
    /\ AdvanceTree(t.parent, [t.root EXCEPT !.pending = NothingPending],
                   t.root.pending.completion, {t}, {})
    /\ UNCHANGED <<bankVars, pins, generationVars>>

authorizeFree(t) ==
    LET i == t.parent.slot
        p == t.root.pending
        root == [t.root EXCEPT !.pending =
                    [p EXCEPT !.kind = "free", !.generation = p.freePermit,
                              !.completion = p.freeCompletion,
                              !.freePermit = 0, !.freeCompletion = 0]]
        settled == [root EXCEPT !.generation = p.completion,
                                !.revision = @ + 1]
    IN  /\ t.kind = "ticket" /\ validateDecision(t)
        /\ structuralRevisionHeadroom(i, 2, 0)
        /\ SettleLeaves(i, "free_authorized", p.freePermit)
        /\ AdvanceTree(t.parent, root, p.completion, {t},
                       {DecisionAt("free", t.parent, settled, slots[i])})
        /\ UNCHANGED <<bankVars, pins, generationVars>>

commitFreeAfterAllocatorFree(t) ==
    LET i == t.parent.slot IN
    /\ t.kind = "free" /\ validateDecision(t)
    /\ structuralRevisionHeadroom(i, 1, 0)
    /\ DropLeaves(i)
    /\ AdvanceTree(t.parent,
                   [t.root EXCEPT !.pending = NothingPending,
                                  !.current = subtractClaims(@,
                                                 t.root.pending.claim)],
                   t.root.pending.completion,
                   {t} \union LeafHandles(t.parent, PendingOf(i)), {})
    /\ UNCHANGED <<slots, nextGeneration, childVars, published, pins,
                   generationVars>>

-----------------------------------------------------------------------------
(* Closing a tree, which clears its root and its empty scopes.             *)

\* Mutant: the empty scopes are left in the node pool.
ClearTreeKeepingScopes(t, old) ==
    LET i == t.parent.slot IN
    /\ t.root.pending.kind = "none"
    /\ t.root.current = ZeroClaim
    /\ LeavesOf(i) = {}
    /\ roots' = [roots EXCEPT ![i] = FreeRoot]
    /\ Exchange({t} \union LeafHandles(t.parent, NodesOf(i)) \union old, {})
    /\ UNCHANGED <<nodes, nextGeneration, childVars, published, pins,
                   generationVars>>

ClearTree(t, old) ==
    LET i == t.parent.slot IN
    /\ t.root.pending.kind = "none"
    /\ t.root.current = ZeroClaim
    /\ LeavesOf(i) = {}
    /\ nodes' = [j \in Nodes |-> IF j \in NodesOf(i) THEN FreeNode
                                                     ELSE nodes[j]]
    /\ roots' = [roots EXCEPT ![i] = FreeRoot]
    /\ Exchange({t} \union LeafHandles(t.parent, NodesOf(i)) \union old, {})
    /\ UNCHANGED <<nextGeneration, childVars, published, pins, generationVars>>

closeLeaseTree(t) ==
    LET i == t.parent.slot IN
    /\ validateLeaseTree(t)
    /\ ~t.root.activated
    /\ slots[i].publication = "idle" /\ slots[i].sessionId = 0
    /\ ClearTree(t, {})
    /\ UNCHANGED <<slots, used>>

\* closeActivatedRestoredPublicationSessionAndReleaseFundedLeaseTree
closeActivatedRestoredPublicationSession(t, e, id, n) ==
    LET i == t.parent.slot IN
    /\ e # 0 /\ id # 0 /\ n # 0
    /\ validateLeaseTree(t)
    /\ t.root.funding = "funded" /\ t.root.activated
    /\ SessionAt(slots[i], e, id, n)
    /\ claimWithin(t.parent.claim, used)
    /\ used' = subtractClaims(used, t.parent.claim)
    /\ slots' = [slots EXCEPT ![i] = FreeSlot]
    /\ ClearTree(t, {t.parent})

-----------------------------------------------------------------------------
(* Publication over a tree.                                                *)

bindPublicationSessionWithLeaseTree(t, e, id) ==
    /\ validateLeaseTree(t)
    /\ t.root.pending.kind = "none"
    /\ bindPublicationSessionLocked(t.parent, e, id)
    /\ UNCHANGED treeVars

\* Both restore-only binds.  The fenced one also installs the source Bank's
\* last permit generation g; the legacy one (g = 0) leaves it alone.
bindRestoredPublicationSession(t, e, id, n, g) ==
    /\ e # 0 /\ id # 0 /\ g # MaxPermitGeneration
    /\ validateLeaseTree(t)
    /\ t.root.pending.kind = "none"
    /\ Unbound(slots[t.parent.slot])
    /\ g # 0 => /\ slots[t.parent.slot].nextSequence = 0
                /\ slots[t.parent.slot].permitGeneration = 0
    /\ slots' = [slots EXCEPT
                   ![t.parent.slot].requestEpoch = e,
                   ![t.parent.slot].sessionId = id,
                   ![t.parent.slot].nextSequence = n,
                   ![t.parent.slot].permitGeneration = IF g = 0 THEN @ ELSE g]
    /\ UNCHANGED <<childVars, used, nextGeneration, handleVars, published,
                   treeVars>>

beginPublicationWithLeaseTree(t, e, id, n) ==
    /\ validateLeaseTree(t)
    /\ t.root.pending.kind = "none"
    /\ t.root.funding = "funded" => /\ t.root.activated
                                    /\ t.root.current = t.root.ceiling
    /\ ~hasActiveLeasePins(t.parent.slot)
    /\ beginPublicationLocked(t.parent, e, id, n)
    /\ UNCHANGED treeVars

-----------------------------------------------------------------------------
Trees == {t \in issued : t.kind = "tree"}
NodeHandles == {t \in issued : t.kind = "node"}
Batches == {t \in issued : t.kind = "batch"}
Tickets == {t \in issued : t.kind = "ticket"}
FreePermits == {t \in issued : t.kind = "free"}
PinPermits == {t \in issued : t.kind = "pin"}

LeafSpec == [scope : NodeHandles, key : Keys, claim : LeafClaims]
SpecLists == UNION {[1 .. m -> LeafSpec] : m \in 1 .. MaxBatch}
LeafSets == UNION {{{f[x] : x \in 1 .. m} : f \in [1 .. m -> NodeHandles]} :
                      m \in 1 .. MaxBatch}

TreeInit ==
    /\ Init
    /\ roots = [i \in Slots |-> FreeRoot]
    /\ nodes = [j \in Nodes |-> FreeNode]
    /\ pins = [p \in PinSlots |-> FreePin]
    /\ nextLeaseGeneration = 1
    /\ reservedCompletions = 0

\* The receipt operations, with the guards that a tree adds to them.
ReceiptStep ==
    /\ \/ \E c \in RequestClaims : reserve(c)
       \/ \E t \in Reservations : commit(t) \/ cancel(t)
       \/ \E t \in Receipts :
            /\ ~hasActiveLeaseTree(t.slot)
            /\ \/ release(t)
               \/ \E e \in RequestEpochs, id \in SessionIds :
                    bindPublicationSession(t, e, id)
               \/ \E e \in RequestEpochs, id \in SessionIds, n \in Sequences :
                    \/ beginPublication(t, e, id, n)
                    \/ closePublicationSessionAndRelease(t, e, id, n)
       \/ \E t \in Receipts, e \in RequestEpochs, id \in SessionIds,
             n \in Sequences :
            /\ ~leaseTreeBlocksSessionClose(t.slot)
            /\ closePublicationSession(t, e, id, n)
       \/ \E t \in Permits :
            commitPublicationAssumeValid(t) \/ abortPublication(t)
    /\ UNCHANGED treeVars

TopologyStep ==
    \/ \E t \in Receipts, c \in Ceilings, f \in FundingModes :
        openLeaseTreeWithFundingMode(t, c, f)
    \/ \E t \in Trees, key \in Keys, c \in Ceilings :
        openLeaseScope(t, key, c)
    \/ \E t \in Trees : closeLeaseTree(t)
    \/ \E t \in Trees, e \in RequestEpochs, id \in SessionIds :
        \/ bindPublicationSessionWithLeaseTree(t, e, id)
        \/ \E point \in RestorePoints :
              bindRestoredPublicationSession(t, e, id, point[1], point[2])
    \/ \E t \in Trees, e \in RequestEpochs, id \in SessionIds,
          n \in Sequences :
        \/ beginPublicationWithLeaseTree(t, e, id, n)
        \/ closeActivatedRestoredPublicationSession(t, e, id, n)

\* The first two conjuncts are guards of every action below them; they are
\* repeated here because they decide most calls.
SessionStep ==
    \E t \in Trees, e \in RequestEpochs, id \in SessionIds, n \in Sequences :
        /\ validateLeaseTree(t)
        /\ SessionAt(slots[t.parent.slot], e, id, n)
        /\ \/ \E specs \in SpecLists :
                 reserveAllocationsForSession(t, e, id, n, specs)
           \/ \E scope \in NodeHandles :
                 \/ beginRetireSubtreeForSession(t, scope, e, id, n)
                 \/ \E leaves \in LeafSets :
                      acquireLeasePinsForSession(t, scope, e, id, n, leaves)
           \/ \E b \in Batches, g \in 0 .. MaxPermitGeneration :
                 commitFundedAllocationsAndActivateRestoredPublication(
                     t, b, e, id, n, g)

DecisionStep ==
    \/ \E t \in Batches : \/ commitAllocationsAfterAllocate(t)
                          \/ abortAllocationsAfterFree(t)
    \/ \E t \in Tickets : cancelRetire(t) \/ authorizeFree(t)
    \/ \E t \in FreePermits : commitFreeAfterAllocatorFree(t)
    \/ \E t \in PinPermits : releaseLeasePins(t)

TreeNext == ReceiptStep \/ TopologyStep \/ SessionStep \/ DecisionStep

TreeSpec == TreeInit /\ [][TreeNext]_allVars

-----------------------------------------------------------------------------
(* Properties.                                                             *)

\* The tree storage has its declared shape and the generation counter never
\* passes the point from which the reserved pin completions still fit.
TreeTypeOK ==
    /\ \A i \in Slots :
        /\ roots[i].state \in {"free", "active"}
        /\ roots[i].funding \in {"additive", "funded"}
        /\ roots[i].activated \in BOOLEAN
        /\ roots[i].pending.kind \in {"none", "allocation", "retire", "free"}
        /\ {roots[i].ceiling, roots[i].current} \subseteq Claim
        /\ roots[i].revision \in 0 .. MaxRevision
    /\ \A j \in Nodes :
        /\ nodes[j].state \in {"free", "reserved", "live", "quiescing",
                              "free_authorized"}
        /\ nodes[j].subtree \in Claim
        /\ nodes[j].pinCount \in 0 .. PinSlotCount
    /\ nextLeaseGeneration \in 1 .. MaxLeaseGeneration
    /\ reservedCompletions \in 0 .. PinSlotCount

\* The handle history of the composed Bank: exactly the handles that were
\* issued and not yet consumed are honoured.  A tree handle ends with every
\* structural change, a batch with its commit or abort, a ticket with its
\* cancel or authorize, a node handle when its storage is cleared.
TreeHandlesExact ==
    \A t \in issued : t \notin spent <=> Honoured(t) \/ HonouredTree(t)

\* A receipt slot and its tree are separate holders of charge; a funded tree
\* holds none of its own.
TreeHolders == {"slot", "tree"} \X Slots

TreeCharges ==
    [h \in TreeHolders |->
        IF h[1] = "slot" THEN slots[h[2]].claim
        ELSE IF roots[h[2]].funding = "additive" THEN roots[h[2]].current
        ELSE ZeroClaim]

\* The Bank with trees implements the same abstract ledger: no wave, abort,
\* free or funded teardown moves Bank.used by anything but one holder's
\* difference.
TreeLedger == INSTANCE ChargeLedger
                WITH Holders <- TreeHolders, charge <- TreeCharges,
                     total <- used

TreeImplementsLedger == TreeLedger!Spec

\* What validateLeaseTreeAccounting and validateLeasePinRegistry re-derive on
\* every call never fails: the root holds the sum of its leaves, each scope
\* the sum of the leaves below it, both within their ceilings; a funded tree
\* fits its receipt, and its leaves are unmaterialized until activation and
\* materialized after it; pin counts are those of the pin registry; a tree
\* without a pending decision has no leaf waiting for one.
TreeAccounting ==
    \A i \in Slots :
        LET root == roots[i] IN
        /\ root.state = "free" => NodesOf(i) = {} /\ PinsOf(i) = {}
        /\ root.state = "active" =>
            /\ slots[i].state = "committed"
            /\ root.current = ClaimOf(LeavesOf(i))
            /\ claimWithin(root.current, root.ceiling)
            /\ root.funding = "funded" =>
                  claimWithin(root.ceiling, slots[i].claim)
            /\ Cardinality(PinsOf(i)) <= slots[i].claim[QueueClass]
            /\ \A j \in NodesOf(i) :
                LET node == nodes[j] IN
                /\ node.tree = root.identity
                /\ node.pinCount =
                      Cardinality({p \in PinsOf(i) : j \in pins[p].members})
                /\ node.kind = "scope" =>
                      /\ node.subtree = ClaimOf(LeavesBelow(j))
                      /\ claimWithin(node.subtree, node.ceiling)
                /\ node.kind = "allocation" =>
                      /\ nodes[node.parent].kind = "scope"
                      /\ node.parent \in NodesOf(i)
                      /\ node.state # "live" => node.pinCount = 0
                      /\ node.state = "live" <=> j \notin PendingOf(i)
                      /\ root.funding = "funded" =>
                            (node.state = "reserved" <=> ~root.activated)

\* A live command pin holds its leaves in place: they stay live, under the
\* same generation, until it is released, so no cancel/authorize/free race
\* can take memory from under a submitted command.
PinnedStaysLive ==
    [][\A p \in PinSlots, j \in Nodes :
         pins[p].state = "active" /\ pins'[p] = pins[p] /\ j \in pins[p].members
           => /\ nodes'[j].state = "live"
              /\ nodes'[j].generation = nodes[j].generation]_allVars

\* An accepted pin can always be released once no decision is pending and no
\* permit is live: its session and sequence are still the Bank's (the tree
\* cannot be published or unbound over it) and the generation and revision
\* set aside for it were never taken by anyone else.
PinReleasable ==
    /\ reservedCompletions = Cardinality({p \in PinSlots :
                                            pins[p].state = "active"})
    /\ reservedCompletions < MaxLeaseGeneration - nextLeaseGeneration
         \/ reservedCompletions = 0
    /\ \A t \in PinPermits : t \notin spent =>
        LET i == t.parent.slot IN
        /\ SessionAt(slots[i], t.pin.requestEpoch, t.pin.sessionId,
                     t.pin.sequence)
        /\ roots[i].revision + Cardinality(PinsOf(i)) <= MaxRevision
        /\ roots[i].pending.kind = "none" => ENABLED releaseLeasePins(t)

\* A pending decision is never stuck: its batch can be aborted, its ticket
\* both cancelled and authorized, its free permit committed, whatever the
\* counters and the other trees have done since it was accepted.
DecisionSettles ==
    \A t \in issued \ spent :
        /\ t.kind = "batch" => ENABLED abortAllocationsAfterFree(t)
        /\ t.kind = "ticket" => /\ ENABLED cancelRetire(t)
                               /\ ENABLED authorizeFree(t)
        /\ t.kind = "free" => ENABLED commitFreeAfterAllocatorFree(t)

\* So nobody is stranded with authority that cannot be given back.
NothingStranded == PinReleasable /\ DecisionSettles

\* What was accepted can be finished: every check is passed that the call which
\* releases a held pin, or settles a held batch, ticket or free permit, makes
\* of the counters, the sessions, the nodes and the charge.  A ticket has room
\* for its authorization and for the commit that follows.
AcceptedFinishes ==
    \A t \in issued \ spent :
        LET i == t.parent.slot IN
        /\ t.kind = "pin" => CanRelease(t)
        /\ t.kind \in {"batch", "ticket", "free"} =>
              /\ validateDecision(t)
              /\ structuralRevisionHeadroom(
                     i, IF t.kind = "ticket" THEN 2 ELSE 1, 0)
              /\ roots[i].funding = "additive" =>
                    claimWithin(roots[i].pending.claim, used)

\* Memory is uncharged only along the life cycle that lets the caller free
\* it first: a materialized leaf leaves the tree only as free_authorized,
\* and once authorized it never becomes usable again.
LeafLifecycle ==
    [][\A j \in Nodes :
         LET old == nodes[j].state
             new == IF nodes'[j].generation = nodes[j].generation
                    THEN nodes'[j].state ELSE "free"
         IN  nodes[j].kind = "allocation" /\ old # "free" =>
               <<old, new>> \in {<<s, s>> : s \in {"reserved", "live",
                                      "quiescing", "free_authorized"}}
                 \union {<<"reserved", "live">>, <<"reserved", "free">>,
                         <<"live", "quiescing">>, <<"quiescing", "live">>,
                         <<"quiescing", "free_authorized">>,
                         <<"free_authorized", "free">>}]_allVars
=============================================================================
