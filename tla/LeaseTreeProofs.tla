--------------------------- MODULE LeaseTreeProofs ---------------------------
(***************************************************************************)
(* Theorems about LeaseTree, for every number of slots, nodes and pins,    *)
(* every set of claims, ceilings and keys, and all bounds of the counters. *)
(*                                                                         *)
(* The code re-derives the sums and the registry of a tree on every call   *)
(* (validateLeaseTreeAccounting, validateLeasePinRegistry) and refuses to  *)
(* go on if they are wrong.  What is shown here is that they never are,    *)
(* for the reasons TreeSound names: what a pending decision is about, and  *)
(* what a live pin holds, is known exactly at every moment.                *)
(***************************************************************************)
EXTENDS LeaseTree, ResourceBankProofs, FiniteSums

-----------------------------------------------------------------------------
(* The shape of the state and of the handles.                              *)

Pending == [kind : {"none", "allocation", "retire", "free"},
            generation : Nat, completion : Nat, freePermit : Nat,
            freeCompletion : Nat, scope : 0 .. NodeCount, claim : Claim]

Root == [state : {"free", "active"}, identity : Nat, generation : Nat,
         revision : Nat, ceiling : Claim, current : Claim,
         funding : {"additive", "funded"}, activated : BOOLEAN,
         pending : Pending]

Node == [state : {"free", "reserved", "live", "quiescing",
                  "free_authorized"},
         kind : {"scope", "allocation"}, slot : Slots, tree : Nat,
         generation : Nat, parent : 0 .. NodeCount, key : Keys \union {0},
         ceiling : Claim, subtree : Claim, pending : Nat, pinCount : Nat]

Pin == [state : {"free", "active"}, slot : Slots, tree : Nat,
        generation : Nat, treeGeneration : Nat, requestEpoch : Nat,
        sessionId : Nat, sequence : Nat, scope : 0 .. NodeCount,
        members : SUBSET Nodes]

\* A tree handle, and a decision on the tree, carry the root as it was issued.
ActiveRoot == {root \in Root : root.state = "active"}

TreeToken == [kind : {"tree"}, parent : Receipt, root : ActiveRoot]

NodeToken == [kind : {"node"}, parent : Receipt, tree : Nat, index : Nodes,
              generation : Nat, nodeKind : {"scope", "allocation"}]

\* A batch was issued for an allocation, a ticket for a retirement, a free
\* permit for a free.
DecisionOn(kind) == CASE kind = "allocation" -> "batch"
                      [] kind = "retire" -> "ticket"
                      [] kind = "free" -> "free"
                      [] OTHER -> "none"

DecisionToken ==
    {t \in [kind : {"batch", "ticket", "free"}, parent : Receipt,
            root : ActiveRoot, requestEpoch : Nat, sessionId : Nat,
            sequence : Nat] :
       t.kind = DecisionOn(t.root.pending.kind)}

PinToken ==
    {t \in [kind : {"pin"}, parent : Receipt, index : PinSlots, pin : Pin] :
       t.pin.state = "active" /\ t.pin.slot = t.parent.slot}

Token == Reservation \union Receipt \union PublicationPermit
           \union TreeToken \union NodeToken \union DecisionToken
           \union PinToken

TreeTypes ==
    /\ slots \in [Slots -> Slot]
    /\ children = [i \in Slots |-> FreeChild]
    /\ used \in Claim
    /\ nextGeneration \in Nat
    /\ roots \in [Slots -> Root]
    /\ nodes \in [Nodes -> Node]
    /\ pins \in [PinSlots -> Pin]
    /\ nextLeaseGeneration \in 1 .. MaxLeaseGeneration
    /\ reservedCompletions \in Nat
    /\ issued \subseteq Token

-----------------------------------------------------------------------------
(* The inductive invariant.                                                *)

\* What the nodes in S carry, whatever the nodes are.
Total(n, S) == TotalClaim([j \in S |-> n[j].subtree])

\* The state of a leaf while a decision of the kind is pending on it.
Undecided(kind) == CASE kind = "allocation" -> "reserved"
                     [] kind = "retire" -> "quiescing"
                     [] kind = "free" -> "free_authorized"
                     [] OTHER -> "none"

\* The root: it exists exactly while the receipt is committed and it was not
\* closed, and its pending decision is about the leaves that wait for it.
RootSound(i) ==
    LET root == roots[i] IN
    /\ root.state = "free" => root = FreeRoot /\ NodesOf(i) = {}
    /\ root.state = "active" =>
        /\ slots[i].state = "committed"
        /\ root.revision \in 0 .. MaxRevision
        /\ root.funding = "funded" => claimWithin(root.ceiling,
                                                  slots[i].claim)
        /\ root.pending.kind # "none" =>
              /\ root.pending.generation # 0
              /\ root.pending.claim = Total(nodes, PendingOf(i))
        /\ root.pending.kind = "allocation" => ~root.activated
        /\ root.pending.kind = "retire" => root.pending.freePermit # 0

\* The sums of the tree, at the root and in every scope.
SumsSound(i) ==
    /\ roots[i].current = Total(nodes, LeavesOf(i))
    /\ claimWithin(roots[i].current, roots[i].ceiling)
    /\ \A j \in NodesOf(i) : nodes[j].kind = "scope" =>
          /\ nodes[j].subtree = Total(nodes, LeavesBelow(j))
          /\ claimWithin(nodes[j].subtree, nodes[j].ceiling)

\* A leaf hangs below a scope of its tree and waits for the pending decision
\* or is live.
LeafSound(i, j) ==
    /\ nodes[j].parent \in NodesOf(i)
    /\ nodes[nodes[j].parent].kind = "scope"
    /\ nodes[j].state = "live" => nodes[j].pending = 0
    /\ nodes[j].state # "live" =>
          j \in PendingOf(i) /\ nodes[j].pinCount = 0
    /\ j \in PendingOf(i) => nodes[j].state = Undecided(roots[i].pending.kind)
    /\ roots[i].funding = "funded" =>
          (nodes[j].state = "reserved" <=> ~roots[i].activated)

LeavesSound(i) ==
    /\ \A j \in NodesOf(i) : nodes[j].tree = roots[i].identity
    /\ \A j \in LeavesOf(i) : LeafSound(i, j)

\* The pins of a tree name leaves of it, and the leaves count them.
PinsSound(i) ==
    /\ roots[i].state = "free" => PinsOf(i) = {}
    /\ roots[i].state = "active" =>
          Cardinality(PinsOf(i)) <= slots[i].claim[QueueClass]
    /\ \A p \in PinsOf(i) : /\ pins[p].tree = roots[i].identity
                            /\ pins[p].members # {}
                            /\ pins[p].members \subseteq LeavesOf(i)
    /\ \A j \in NodesOf(i) :
          nodes[j].pinCount =
             Cardinality({p \in PinsOf(i) : j \in pins[p].members})

TreeSound(i) ==
    RootSound(i) /\ SumsSound(i) /\ LeavesSound(i) /\ PinsSound(i)

ActivePins == {p \in PinSlots : pins[p].state = "active"}

Registered ==
    /\ \A i \in Slots : slots[i].state = "free" => slots[i] = FreeSlot
    /\ \A j \in Nodes : nodes[j].state = "free" => nodes[j] = FreeNode
    /\ reservedCompletions = Cardinality(ActivePins)

TreeInv == /\ TreeTypes /\ Registered
           /\ \A i \in Slots : TreeSound(i)

-----------------------------------------------------------------------------
(* Sums of claims.                                                         *)

\* A total is a sum in each class.
LEMMA TotalAt ==
    ASSUME NEW S, NEW c \in [S -> Claim], NEW k \in Classes
    PROVE  TotalClaim(c)[k] = Sum([x \in S |-> c[x][k]], S)
BY DEF TotalClaim, Sum

\* A total of finitely many claims is a claim, and that of none is zero.
LEMMA TotalType ==
    ASSUME NEW S, IsFiniteSet(S), NEW c \in [S -> Claim]
    PROVE  TotalClaim(c) \in Claim /\ (S = {} => TotalClaim(c) = ZeroClaim)
<1>1. TotalClaim(c) = [k \in Classes |-> Sum([x \in S |-> c[x][k]], S)]
  BY DEF TotalClaim, Sum
<1>2. ASSUME NEW k \in Classes
      PROVE  /\ Sum([x \in S |-> c[x][k]], S) \in Nat
             /\ S = {} => Sum([x \in S |-> c[x][k]], S) = 0
  <2> DEFINE f == [x \in S |-> c[x][k]]
  <2>1. \A x \in S : f[x] \in Nat
    BY DEF Claim
  <2> HIDE DEF f
  <2>2. Sum(f, S) \in Nat /\ (S = {} => Sum(f, S) = 0)
    BY <2>1, SumType, SumStep
  <2> QED BY <2>2 DEF f
<1> QED BY <1>1, <1>2 DEF Claim, ZeroClaim

\* The total of two disjoint sets of claims.
LEMMA TotalSplit ==
    ASSUME NEW A, NEW B, IsFiniteSet(A), IsFiniteSet(B), A \intersect B = {},
           NEW c \in [A \union B -> Claim]
    PROVE  TotalClaim(c) = addClaims(TotalClaim([x \in A |-> c[x]]),
                                     TotalClaim([x \in B |-> c[x]]))
<1> DEFINE a == [x \in A |-> c[x]]
           b == [x \in B |-> c[x]]
<1>1. a \in [A -> Claim] /\ b \in [B -> Claim]
  OBVIOUS
<1>2. ASSUME NEW k \in Classes
      PROVE  TotalClaim(c)[k] = TotalClaim(a)[k] + TotalClaim(b)[k]
  <2> DEFINE f == [x \in A \union B |-> c[x][k]]
  <2>1. \A x \in A \union B : f[x] \in Nat
    BY DEF Claim
  <2>2. Sum(f, A \union B) = Sum(f, A) + Sum(f, B)
    <3> HIDE DEF f
    <3> QED BY <2>1, SumUnion
  <2>3. Sum(f, A) = Sum([x \in A |-> a[x][k]], A)
    <3>1. \A x \in A : f[x] = [y \in A |-> a[y][k]][x]
      OBVIOUS
    <3> HIDE DEF f, a
    <3> QED BY <3>1, SumAgree
  <2>4. Sum(f, B) = Sum([x \in B |-> b[x][k]], B)
    <3>1. \A x \in B : f[x] = [y \in B |-> b[y][k]][x]
      OBVIOUS
    <3> HIDE DEF f, b
    <3> QED BY <3>1, SumAgree
  <2>5. /\ TotalClaim(c)[k] = Sum(f, A \union B)
        /\ TotalClaim(a)[k] = Sum([x \in A |-> a[x][k]], A)
        /\ TotalClaim(b)[k] = Sum([x \in B |-> b[x][k]], B)
    <3> HIDE DEF a, b
    <3> QED BY <1>1, TotalAt
  <2> QED BY <2>2, <2>3, <2>4, <2>5
<1> HIDE DEF a, b
<1>3. TotalClaim(c) = [k \in Classes |-> TotalClaim(c)[k]]
  BY DEF TotalClaim
<1>4. TotalClaim(c) = addClaims(TotalClaim(a), TotalClaim(b))
  BY <1>2, <1>3 DEF addClaims
<1> QED BY <1>4 DEF a, b

\* h names every member of T by exactly one member of S.
Enumerates(h, S, T) == /\ \A x, y \in S : h[x] = h[y] => x = y
                       /\ T = {h[x] : x \in S}

\* A total may be taken along an enumeration.
LEMMA TotalReindex ==
    ASSUME NEW S, NEW T, IsFiniteSet(S), NEW h, NEW b \in [S -> Claim],
           NEW c \in [T -> Claim], Enumerates(h, S, T),
           \A x \in S : b[x] = c[h[x]]
    PROVE  TotalClaim(c) = TotalClaim(b)
<1>1. ASSUME NEW k \in Classes PROVE TotalClaim(c)[k] = TotalClaim(b)[k]
  <2> DEFINE f == [x \in T |-> c[x][k]]
             g == [x \in S |-> b[x][k]]
  <2>1. /\ \A x \in S : g[x] = f[h[x]] /\ f[h[x]] \in Nat
        /\ \A x, y \in S : h[x] = h[y] => x = y
        /\ T = {h[x] : x \in S}
    BY DEF Claim, Enumerates
  <2> HIDE DEF f, g
  <2>2. Sum(f, {h[x] : x \in S}) = Sum(g, S)
    BY <2>1, SumReindex
  <2>3. TotalClaim(c)[k] = Sum(f, T)
    BY TotalAt DEF f
  <2>4. TotalClaim(b)[k] = Sum(g, S)
    BY TotalAt DEF g
  <2> QED BY <2>1, <2>2, <2>3, <2>4
<1>2. /\ TotalClaim(c) = [k \in Classes |-> TotalClaim(c)[k]]
      /\ TotalClaim(b) = [k \in Classes |-> TotalClaim(b)[k]]
  BY DEF TotalClaim
<1> QED BY <1>1, <1>2

\* Sets of nodes are finite.
LEMMA NodesFinite ==
    /\ IsFiniteSet(Nodes) /\ \A S \in SUBSET Nodes : IsFiniteSet(S)
<1>1. IsFiniteSet(Nodes)
  BY TreeAssumption, FS_Interval DEF Nodes
<1> QED BY <1>1, FS_Subset

\* Sets of pins are finite.
LEMMA PinsFinite ==
    \A S \in SUBSET PinSlots : IsFiniteSet(S) /\ Cardinality(S) \in Nat
<1>1. PinSlotCount - 1 \in Int
  BY TreeAssumption
<1>2. IsFiniteSet(PinSlots)
  BY <1>1, FS_Interval DEF PinSlots
<1> QED BY <1>2, FS_Subset, FS_CardinalityType

\* The records that stand for nothing have the shape of their kind.
LEMMA BlankTypes ==
    /\ NothingPending \in Pending /\ FreeRoot \in Root
    /\ FreeNode \in Node /\ FreePin \in Pin
<1>1. NothingPending \in Pending
  BY ZeroClaimType, TreeAssumption DEF NothingPending, Pending, NoNode
<1>2. FreeRoot \in Root
  BY <1>1, ZeroClaimType DEF FreeRoot, Root
<1>3. 0 \in Slots /\ NoNode \in 0 .. NodeCount
  BY BankAssumption, TreeAssumption DEF Slots, NoNode
<1>4. FreeNode \in Node
  BY <1>3, ZeroClaimType DEF FreeNode, Node
<1>5. FreePin \in Pin
  BY <1>3 DEF FreePin, Pin
<1> QED BY <1>1, <1>2, <1>4, <1>5

\* What some nodes carry is a claim; none carry nothing.
LEMMA NodesTotal ==
    ASSUME NEW n \in [Nodes -> Node], NEW S \in SUBSET Nodes
    PROVE  Total(n, S) \in Claim /\ (S = {} => Total(n, S) = ZeroClaim)
<1>1. [j \in S |-> n[j].subtree] \in [S -> Claim]
  BY DEF Node
<1> QED BY <1>1, NodesFinite, TotalType DEF Total

\* What nodes carry depends on their charges only.
LEMMA NodesAgree ==
    ASSUME NEW n, NEW m, NEW S, \A j \in S : m[j].subtree = n[j].subtree
    PROVE  Total(m, S) = Total(n, S)
<1>1. [j \in S |-> m[j].subtree] = [j \in S |-> n[j].subtree]
  OBVIOUS
<1> QED BY <1>1 DEF Total

\* What two disjoint sets of nodes carry.
LEMMA NodesSplit ==
    ASSUME NEW n \in [Nodes -> Node], NEW A \in SUBSET Nodes,
           NEW B \in SUBSET Nodes, A \intersect B = {}
    PROVE  Total(n, A \union B) = addClaims(Total(n, A), Total(n, B))
<1> DEFINE c == [j \in A \union B |-> n[j].subtree]
<1>1. c \in [A \union B -> Claim]
  BY DEF Node
<1>2. [x \in A |-> c[x]] = [j \in A |-> n[j].subtree]
      /\ [x \in B |-> c[x]] = [j \in B |-> n[j].subtree]
  OBVIOUS
<1> HIDE DEF c
<1>3. TotalClaim(c) = addClaims(TotalClaim([x \in A |-> c[x]]),
                                TotalClaim([x \in B |-> c[x]]))
  BY <1>1, NodesFinite, TotalSplit, SMTT(60)
<1> QED BY <1>2, <1>3 DEF Total, c

\* Some of the nodes carry no more than all, and the others carry the rest.
LEMMA NodesRest ==
    ASSUME NEW n \in [Nodes -> Node], NEW A \in SUBSET Nodes,
           NEW B \in SUBSET A
    PROVE  /\ claimWithin(Total(n, B), Total(n, A))
           /\ Total(n, A \ B) = subtractClaims(Total(n, A), Total(n, B))
<1>1. A = (A \ B) \union B /\ (A \ B) \intersect B = {}
      /\ A \ B \in SUBSET Nodes /\ B \in SUBSET Nodes
  OBVIOUS
<1>2. Total(n, A) = addClaims(Total(n, A \ B), Total(n, B))
  BY <1>1, NodesSplit
<1>3. Total(n, A \ B) \in Claim /\ Total(n, B) \in Claim
  BY <1>1, NodesTotal
<1>4. PICK a, b : a = Total(n, A \ B) /\ b = Total(n, B)
  OBVIOUS
<1>5. a \in Claim /\ b \in Claim /\ Total(n, A) = addClaims(a, b)
  BY <1>2, <1>3, <1>4
<1>6. ASSUME NEW k \in Classes
      PROVE  b[k] <= addClaims(a, b)[k] /\ a[k] = addClaims(a, b)[k] - b[k]
  <2>1. a[k] \in Nat /\ b[k] \in Nat /\ addClaims(a, b)[k] = a[k] + b[k]
    BY <1>5 DEF addClaims, Claim
  <2> QED BY <2>1
<1>7. a = [k \in Classes |-> a[k]]
  BY <1>5 DEF Claim
<1>8. a = subtractClaims(addClaims(a, b), b)
  BY <1>6, <1>7 DEF subtractClaims
<1>9. claimWithin(b, addClaims(a, b))
  BY <1>6 DEF claimWithin
<1> QED BY <1>4, <1>5, <1>8, <1>9
-----------------------------------------------------------------------------
(* A step on the tree of one slot leaves the others alone.                 *)

\* A record of the pool, node or pin, that is not part of the tree of slot k.
OffTree(x, k) == x.state = "free" \/ x.slot # k

NodesKept(k) ==
    \A j \in Nodes : \/ nodes'[j] = nodes[j]
                     \/ /\ OffTree(nodes[j], k)
                        /\ OffTree(nodes'[j], k)

PinsKept(k) ==
    \A p \in PinSlots : \/ pins'[p] = pins[p]
                        \/ OffTree(pins[p], k) /\ OffTree(pins'[p], k)

\* What is not in the tree of slot k may change without that tree noticing.
LEMMA KeptNodes ==
    ASSUME NEW k \in Slots, NodesKept(k)
    PROVE  /\ NodesOf(k)' = NodesOf(k)
           /\ LeavesOf(k)' = LeavesOf(k)
           /\ \A j \in NodesOf(k) : /\ nodes'[j] = nodes[j]
                                    /\ LeavesBelow(j)' = LeavesBelow(j)
<1>1. \A j \in Nodes : (j \in NodesOf(k)' <=> j \in NodesOf(k))
                       /\ (j \in NodesOf(k) => nodes'[j] = nodes[j])
  BY DEF NodesKept, OffTree, NodesOf
<1>2. NodesOf(k)' = NodesOf(k)
  BY <1>1 DEF NodesOf
<1>3. \A j \in NodesOf(k) : nodes'[j] = nodes[j] /\ nodes[j].slot = k
  BY <1>1 DEF NodesOf
<1>4. LeavesOf(k)' = LeavesOf(k)
  BY <1>2, <1>3 DEF LeavesOf
<1>5. ASSUME NEW j \in NodesOf(k) PROVE LeavesBelow(j)' = LeavesBelow(j)
  <2>1. nodes'[j].slot = k /\ nodes[j].slot = k
    BY <1>3
  <2>2. LeavesOf(k) \subseteq NodesOf(k)
    BY DEF LeavesOf
  <2> QED BY <1>3, <1>4, <2>1, <2>2 DEF LeavesBelow
<1> QED BY <1>2, <1>3, <1>4, <1>5

\* The same for the pins.
LEMMA KeptPins ==
    ASSUME NEW k \in Slots, PinsKept(k)
    PROVE  /\ PinsOf(k)' = PinsOf(k)
           /\ \A p \in PinsOf(k) : pins'[p] = pins[p]
<1>1. \A p \in PinSlots : (p \in PinsOf(k)' <=> p \in PinsOf(k))
                          /\ (p \in PinsOf(k) => pins'[p] = pins[p])
  BY DEF PinsKept, OffTree, PinsOf
<1> QED BY <1>1 DEF PinsOf

\* So the tree stays sound.
LEMMA OtherTrees ==
    ASSUME NEW k \in Slots, TreeSound(k), roots'[k] = roots[k],
           roots[k].state = "active" => /\ slots'[k].state = slots[k].state
                                        /\ slots'[k].claim = slots[k].claim,
           NodesKept(k), PinsKept(k)
    PROVE  TreeSound(k)'
<1>1. /\ NodesOf(k)' = NodesOf(k) /\ LeavesOf(k)' = LeavesOf(k)
      /\ \A j \in NodesOf(k) : /\ nodes'[j] = nodes[j]
                               /\ LeavesBelow(j)' = LeavesBelow(j)
      /\ PinsOf(k)' = PinsOf(k)
      /\ \A p \in PinsOf(k) : pins'[p] = pins[p]
  BY KeptNodes, KeptPins
<1>2. LeavesOf(k) \subseteq NodesOf(k) /\ PendingOf(k) \subseteq NodesOf(k)
      /\ \A j \in NodesOf(k) : LeavesBelow(j) \subseteq NodesOf(k)
  BY DEF LeavesOf, PendingOf, LeavesBelow, NodesOf
<1>3. PendingOf(k)' = PendingOf(k)
  BY <1>1, <1>2 DEF PendingOf
<1>4. /\ Total(nodes', LeavesOf(k)) = Total(nodes, LeavesOf(k))
      /\ Total(nodes', PendingOf(k)) = Total(nodes, PendingOf(k))
      /\ \A j \in NodesOf(k) :
            Total(nodes', LeavesBelow(j)) = Total(nodes, LeavesBelow(j))
  BY <1>1, <1>2, NodesAgree
<1>5. RootSound(k)'
  BY <1>1, <1>3, <1>4 DEF TreeSound, RootSound
<1>6. SumsSound(k)'
  BY <1>1, <1>4 DEF TreeSound, SumsSound
<1>7. LeavesSound(k)'
  <2>1. \A j \in LeavesOf(k) : nodes[j].parent \in NodesOf(k)
    BY DEF TreeSound, LeavesSound, LeafSound
  <2> QED BY <1>1, <1>2, <1>3, <2>1 DEF TreeSound, LeavesSound, LeafSound
<1>8. PinsSound(k)'
  <2>1. ASSUME NEW j
        PROVE  {p \in PinsOf(k) : j \in pins'[p].members}
                  = {p \in PinsOf(k) : j \in pins[p].members}
    BY <1>1
  <2> QED BY <1>1, <2>1 DEF TreeSound, PinsSound
<1> QED BY <1>5, <1>6, <1>7, <1>8 DEF TreeSound
-----------------------------------------------------------------------------
(* Handles and what a step may do.                                         *)

\* The handles of each kind are recognized by their kind field.
LEMMA TokenKinds ==
    ASSUME TreeTypes
    PROVE  /\ Reservations \subseteq Reservation
           /\ Receipts \subseteq Receipt
           /\ Permits \subseteq PublicationPermit
           /\ Trees \subseteq TreeToken
           /\ NodeHandles \subseteq NodeToken
           /\ Batches \union Tickets \union FreePermits \subseteq DecisionToken
           /\ PinPermits \subseteq PinToken
<1>1. \A t \in issued : t \in Token
  BY DEF TreeTypes
<1>2. \A t \in issued :
        /\ t.kind = "reservation" => t \in Reservation
        /\ t.kind = "receipt" => t \in Receipt
        /\ t.kind = "permit" => t \in PublicationPermit
        /\ t.kind = "tree" => t \in TreeToken
        /\ t.kind = "node" => t \in NodeToken
        /\ t.kind \in {"batch", "ticket", "free"} => t \in DecisionToken
        /\ t.kind = "pin" => t \in PinToken
  BY <1>1 DEF Token, Reservation, Receipt, PublicationPermit, TreeToken,
              NodeToken, DecisionToken, PinToken
<1> QED BY <1>2 DEF Reservations, Receipts, Permits, Trees, NodeHandles,
                    Batches, Tickets, FreePermits, PinPermits

\* What may become of a node that is in use: it keeps its generation and moves
\* along the life cycle, or it is cleared, a leaf only when it is not in use.
NodeMove(old, new) ==
    \/ new = old
    \/ /\ new.generation = old.generation /\ new.kind = old.kind
       /\ <<old.state, new.state>> \in
             {<<s, s>> : s \in {"reserved", "live", "quiescing",
                                "free_authorized"}}
             \union {<<"reserved", "live">>, <<"live", "quiescing">>,
                     <<"quiescing", "live">>,
                     <<"quiescing", "free_authorized">>}
    \/ /\ new.state = "free"
       /\ old.kind = "scope" \/ old.state \in {"reserved", "free_authorized"}

NodesMove == \A j \in Nodes :
                nodes[j].state # "free" => NodeMove(nodes[j], nodes'[j])

LedgerMove == TreeLedger!Next \/ UNCHANGED <<TreeCharges, used>>

Forms == NodesMove /\ LedgerMove

\* A charge is one vector, whichever module speaks of it.
LEMMA SameTreeClaims ==
    /\ TreeLedger!Claim = Claim
    /\ \A a, b : /\ TreeLedger!addClaims(a, b) = addClaims(a, b)
                 /\ TreeLedger!subtractClaims(a, b) = subtractClaims(a, b)
                 /\ TreeLedger!claimWithin(a, b) <=> claimWithin(a, b)
    /\ TreeLedger!ZeroClaim = ZeroClaim
BY DEF TreeLedger!Claim, Claim, TreeLedger!addClaims, addClaims,
       TreeLedger!subtractClaims, subtractClaims, TreeLedger!claimWithin,
       claimWithin, TreeLedger!ZeroClaim, ZeroClaim

TreeCharge(i) == IF roots[i].funding = "additive" THEN roots[i].current
                                                  ELSE ZeroClaim

\* A step of the ledger charges one receipt or one tree.
LEMMA ChargeMoves ==
    ASSUME NEW i \in Slots,
           \/ /\ \A k \in Slots : TreeCharge(k)' = TreeCharge(k)
              /\ \A k \in Slots \ {i} : slots'[k].claim = slots[k].claim
              /\ slots'[i].claim \in Claim
              /\ used' = addClaims(subtractClaims(used, slots[i].claim),
                                   slots'[i].claim)
              /\ Fits(used') \/ claimWithin(slots'[i].claim, slots[i].claim)
           \/ /\ \A k \in Slots : slots'[k].claim = slots[k].claim
              /\ \A k \in Slots \ {i} : TreeCharge(k)' = TreeCharge(k)
              /\ TreeCharge(i)' \in Claim
              /\ used' = addClaims(subtractClaims(used, TreeCharge(i)),
                                   TreeCharge(i)')
              /\ Fits(used') \/ claimWithin(TreeCharge(i)', TreeCharge(i))
    PROVE  TreeLedger!Next
<1>1. \A h \in TreeHolders :
        /\ h[2] \in Slots
        /\ TreeCharges[h] = IF h[1] = "slot" THEN slots[h[2]].claim
                                             ELSE TreeCharge(h[2])
        /\ TreeCharges'[h] = IF h[1] = "slot" THEN slots'[h[2]].claim
                                              ELSE TreeCharge(h[2])'
  BY DEF TreeCharges, TreeCharge, TreeHolders
<1>2. DOMAIN TreeCharges = TreeHolders /\ DOMAIN TreeCharges' = TreeHolders
      /\ TreeCharges = [h \in TreeHolders |-> TreeCharges[h]]
      /\ TreeCharges' = [h \in TreeHolders |-> TreeCharges'[h]]
  BY DEF TreeCharges
<1>3. ASSUME NEW g \in TreeHolders,
             \A h \in TreeHolders \ {g} : TreeCharges'[h] = TreeCharges[h],
             TreeCharges'[g] \in Claim,
             used' = addClaims(subtractClaims(used, TreeCharges[g]),
                               TreeCharges'[g]),
             Fits(used') \/ claimWithin(TreeCharges'[g], TreeCharges[g])
      PROVE  TreeLedger!Next
  <2>1. TreeCharges' = [TreeCharges EXCEPT ![g] = TreeCharges'[g]]
    BY <1>2, <1>3
  <2> QED BY <1>3, <2>1, SameTreeClaims DEF TreeLedger!Next, TreeLedger!Adjust
<1>4. \A h \in TreeHolders : h = <<h[1], h[2]>> /\ h[1] \in {"slot", "tree"}
      /\ <<"slot", i>> \in TreeHolders /\ <<"tree", i>> \in TreeHolders
  BY DEF TreeHolders
<1>5. CASE /\ \A k \in Slots : TreeCharge(k)' = TreeCharge(k)
           /\ \A l \in Slots \ {i} : slots'[l].claim = slots[l].claim
           /\ slots'[i].claim \in Claim
           /\ used' = addClaims(subtractClaims(used, slots[i].claim),
                                slots'[i].claim)
           /\ Fits(used') \/ claimWithin(slots'[i].claim, slots[i].claim)
  <2> DEFINE g == <<"slot", i>>
  <2>0. g[1] = "slot" /\ g[2] = i
    OBVIOUS
  <2>1. g \in TreeHolders /\ g[1] = "slot" /\ g[2] = i
    BY <2>0 DEF TreeHolders
  <2>2. \A h \in TreeHolders \ {g} : TreeCharges'[h] = TreeCharges[h]
    BY <1>1, <1>4, <1>5
  <2>3. TreeCharges[g] = slots[i].claim /\ TreeCharges'[g] = slots'[i].claim
    BY <1>1, <2>1
  <2> HIDE DEF g
  <2> QED BY <1>3, <1>5, <2>1, <2>2, <2>3
<1>6. CASE /\ \A k \in Slots : slots'[k].claim = slots[k].claim
           /\ \A l \in Slots \ {i} : TreeCharge(l)' = TreeCharge(l)
           /\ TreeCharge(i)' \in Claim
           /\ used' = addClaims(subtractClaims(used, TreeCharge(i)),
                                TreeCharge(i)')
           /\ Fits(used') \/ claimWithin(TreeCharge(i)', TreeCharge(i))
  <2> DEFINE g == <<"tree", i>>
  <2>0. g[1] = "tree" /\ g[2] = i
    OBVIOUS
  <2>1. g \in TreeHolders /\ g[1] = "tree" /\ g[2] = i
    BY <2>0 DEF TreeHolders
  <2>2. \A h \in TreeHolders \ {g} : TreeCharges'[h] = TreeCharges[h]
    BY <1>1, <1>4, <1>6
  <2>3. TreeCharges[g] = TreeCharge(i) /\ TreeCharges'[g] = TreeCharge(i)'
    BY <1>1, <2>1
  <2> HIDE DEF g
  <2> QED BY <1>3, <1>6, <2>1, <2>2, <2>3
<1> QED BY <1>5, <1>6

\* Without a change of charge the ledger stands still.
LEMMA ChargesStand ==
    ASSUME \A k \in Slots : slots'[k].claim = slots[k].claim,
           \A k \in Slots : TreeCharge(k)' = TreeCharge(k), used' = used
    PROVE  LedgerMove
<1>1. TreeCharges' = TreeCharges
  BY DEF TreeCharges, TreeCharge, TreeHolders
<1> QED BY <1>1 DEF LedgerMove
-----------------------------------------------------------------------------
(* Steps of a receipt and of its publication session.                      *)

\* A step that leaves all trees alone keeps the invariant if the receipt it
\* works on has no tree or stays what it is.
LEMMA BankFrame ==
    ASSUME TreeInv, UNCHANGED treeVars, UNCHANGED children, NEW i \in Slots,
           slots' \in [Slots -> Slot],
           \A k \in Slots \ {i} : slots'[k] = slots[k],
           slots'[i].state = "free" => slots'[i] = FreeSlot,
           \/ roots[i].state = "free"
           \/ /\ slots'[i].state = slots[i].state
              /\ slots'[i].claim = slots[i].claim,
           used' \in Claim, nextGeneration' \in Nat, issued' \subseteq Token
    PROVE  TreeInv' /\ NodesMove
<1>1. /\ roots' = roots /\ nodes' = nodes /\ pins' = pins
      /\ nextLeaseGeneration' = nextLeaseGeneration
      /\ reservedCompletions' = reservedCompletions
  BY DEF treeVars, generationVars
<1>2. TreeTypes'
  BY <1>1 DEF TreeInv, TreeTypes
<1>3. Registered'
  BY <1>1 DEF TreeInv, Registered, ActivePins
<1>4. ASSUME NEW k \in Slots PROVE TreeSound(k)'
  <2>1. TreeSound(k) /\ roots'[k] = roots[k] /\ NodesKept(k) /\ PinsKept(k)
    BY <1>1 DEF TreeInv, NodesKept, PinsKept
  <2>2. roots[k].state = "active" => /\ slots'[k].state = slots[k].state
                                     /\ slots'[k].claim = slots[k].claim
    BY DEF TreeInv, TreeTypes
  <2> QED BY <2>1, <2>2, OtherTrees
<1>5. NodesMove
  BY <1>1 DEF NodesMove, NodeMove
<1> QED BY <1>2, <1>3, <1>4, <1>5 DEF TreeInv

\* A step of the session moves no charge.
LEMMA SessionFrame ==
    ASSUME TreeInv, UNCHANGED treeVars,
           UNCHANGED <<childVars, used, nextGeneration>>, NEW i \in Slots,
           slots' \in [Slots -> Slot],
           \A k \in Slots \ {i} : slots'[k] = slots[k],
           slots[i].state = "committed", slots'[i].state = "committed",
           slots'[i].claim = slots[i].claim, issued' \subseteq Token
    PROVE  TreeInv' /\ Forms
<1>1. TreeInv' /\ NodesMove
  <2>1. used \in Claim /\ nextGeneration \in Nat
    BY DEF TreeInv, TreeTypes
  <2> QED BY <2>1, BankFrame DEF childVars
<1>2. \A k \in Slots : /\ slots'[k].claim = slots[k].claim
                       /\ TreeCharge(k)' = TreeCharge(k)
  BY DEF treeVars, TreeCharge
<1> QED BY <1>1, <1>2, ChargesStand DEF Forms

\* An exchange that returns well-formed handles keeps the history so.
LEMMA ExchangeTokens ==
    ASSUME TreeInv, NEW old, NEW new, new \subseteq Token, Exchange(old, new)
    PROVE  issued' \subseteq Token
BY DEF TreeInv, TreeTypes, Exchange

\* Nothing can be charged to a slot without a receipt, nor to a tree there.
LEMMA NoTreeWithoutReceipt ==
    ASSUME TreeInv, NEW i \in Slots, slots[i].state # "committed"
    PROVE  roots[i] = FreeRoot
BY DEF TreeInv, TreeTypes, TreeSound, RootSound, Root

\* reserve takes a slot that has no tree.
LEMMA ReserveTree ==
    ASSUME TreeInv, NEW c \in RequestClaims, reserve(c), UNCHANGED treeVars
    PROVE  TreeInv' /\ Forms
<1>1. /\ c \in Claim /\ used \in Claim /\ nextGeneration \in Nat
      /\ slots \in [Slots -> Slot]
  BY BankAssumption DEF TreeInv, TreeTypes
<1>2. PICK i \in Slots :
        /\ slots[i].state = "free"
        /\ slots' = [slots EXCEPT ![i] =
                        [FreeSlot EXCEPT !.state = "reserved",
                                         !.generation = nextGeneration,
                                         !.claim = c]]
        /\ Exchange({}, {ReservationAt(i, nextGeneration, c)})
  BY DEF reserve, FirstFree
<1>3. /\ used' = addClaims(used, c) /\ nextGeneration' = nextGeneration + 1
      /\ Fits(used') /\ UNCHANGED children
  BY DEF reserve, childVars
<1>4. [FreeSlot EXCEPT !.state = "reserved", !.generation = nextGeneration,
                       !.claim = c] \in Slot
  BY <1>1, FreeTypes DEF Slot
<1>5. /\ slots' \in [Slots -> Slot] /\ slots'[i].claim = c
      /\ slots'[i].state = "reserved"
      /\ \A k \in Slots \ {i} : slots'[k] = slots[k]
  BY <1>1, <1>2, <1>4 DEF FreeSlot
<1>6. roots[i] = FreeRoot /\ slots[i] = FreeSlot
  BY <1>2, NoTreeWithoutReceipt DEF TreeInv, Registered
<1>7. ReservationAt(i, nextGeneration, c) \in Token
  BY <1>1, HandleTypes DEF Token
<1>8. issued' \subseteq Token
  BY <1>2, <1>7, ExchangeTokens
<1>9. TreeInv' /\ NodesMove
  BY <1>1, <1>3, <1>5, <1>6, <1>8, AddType, BankFrame DEF FreeRoot
<1>10. LedgerMove
  <2>1. used' = addClaims(subtractClaims(used, slots[i].claim),
                          slots'[i].claim)
    <3>1. subtractClaims(used, ZeroClaim) = used
      BY <1>1 DEF subtractClaims, ZeroClaim, Claim
    <3> QED BY <1>3, <1>5, <1>6, <3>1 DEF FreeSlot
  <2>2. \A k \in Slots : TreeCharge(k)' = TreeCharge(k)
    BY DEF treeVars, TreeCharge
  <2>3. TreeLedger!Next
    BY <1>1, <1>3, <1>5, <2>1, <2>2, ChargeMoves
  <2> QED BY <2>3 DEF LedgerMove
<1> QED BY <1>9, <1>10 DEF Forms

\* commit turns a reservation into a receipt.
LEMMA CommitTree ==
    ASSUME TreeInv, NEW t \in Reservations, commit(t), UNCHANGED treeVars
    PROVE  TreeInv' /\ Forms
<1>1. t \in Reservation /\ t.slot \in Slots /\ t.generation \in Nat
      /\ t.claim \in Claim
  BY TokenKinds DEF TreeInv, Reservation
<1>2. /\ slots' = [slots EXCEPT ![t.slot].state = "committed"]
      /\ slots[t.slot].state = "reserved"
      /\ Exchange({t}, {ReceiptAt(t.slot, t.generation, t.claim)})
      /\ UNCHANGED <<childVars, used, nextGeneration>>
  BY DEF commit, validateReservation
<1>3. /\ slots \in [Slots -> Slot] /\ used \in Claim /\ nextGeneration \in Nat
  BY DEF TreeInv, TreeTypes
<1>4. /\ slots' \in [Slots -> Slot]
      /\ slots'[t.slot].state = "committed"
      /\ slots'[t.slot].claim = slots[t.slot].claim
      /\ \A k \in Slots \ {t.slot} : slots'[k] = slots[k]
  BY <1>1, <1>2, <1>3 DEF Slot
<1>5. roots[t.slot] = FreeRoot
  BY <1>1, <1>2, NoTreeWithoutReceipt
<1>6. issued' \subseteq Token
  <2>1. {ReceiptAt(t.slot, t.generation, t.claim)} \subseteq Token
    BY <1>1, HandleTypes DEF Token
  <2> QED BY <1>2, <2>1, ExchangeTokens
<1>7. TreeInv' /\ NodesMove
  BY <1>1, <1>2, <1>3, <1>4, <1>5, <1>6, BankFrame DEF FreeRoot, childVars
<1>8. \A k \in Slots : /\ slots'[k].claim = slots[k].claim
                       /\ TreeCharge(k)' = TreeCharge(k)
  BY <1>1, <1>4 DEF treeVars, TreeCharge
<1> QED BY <1>2, <1>7, <1>8, ChargesStand DEF Forms

\* cancel, release and the closing release clear a slot that has no tree.
LEMMA ClearSlotTree ==
    ASSUME TreeInv, NEW t \in issued, t \in Reservation \union Receipt,
           slots[t.slot].claim = t.claim, roots[t.slot].state = "free",
           ClearSlot(t), UNCHANGED treeVars
    PROVE  TreeInv' /\ Forms
<1>1. t.slot \in Slots /\ t.claim \in Claim
  BY DEF Reservation, Receipt
<1>2. /\ claimWithin(t.claim, used)
      /\ used' = subtractClaims(used, t.claim)
      /\ slots' = [slots EXCEPT ![t.slot] = FreeSlot]
      /\ Exchange({t}, {}) /\ UNCHANGED <<childVars, nextGeneration>>
  BY DEF ClearSlot
<1>3. /\ slots \in [Slots -> Slot] /\ used \in Claim /\ nextGeneration \in Nat
  BY DEF TreeInv, TreeTypes
<1>4. /\ slots' \in [Slots -> Slot] /\ slots'[t.slot] = FreeSlot
      /\ \A k \in Slots \ {t.slot} : slots'[k] = slots[k]
  BY <1>1, <1>2, <1>3, FreeTypes
<1>5. issued' \subseteq Token
  BY <1>2, ExchangeTokens
<1>6. used' \in Claim
  BY <1>1, <1>2, <1>3, SubtractType
<1>7. TreeInv' /\ NodesMove
  BY <1>1, <1>2, <1>3, <1>4, <1>5, <1>6, BankFrame DEF childVars
<1>8. LedgerMove
  <2>1. used' = addClaims(subtractClaims(used, slots[t.slot].claim),
                          slots'[t.slot].claim)
    <3>1. addClaims(used', ZeroClaim) = used'
      BY <1>6 DEF addClaims, ZeroClaim, Claim
    <3> QED BY <1>2, <1>4, <3>1 DEF FreeSlot
  <2>2. \A k \in Slots : TreeCharge(k)' = TreeCharge(k)
    BY DEF treeVars, TreeCharge
  <2>3. claimWithin(slots'[t.slot].claim, slots[t.slot].claim)
    BY <1>1, <1>4 DEF FreeSlot, ZeroClaim, Claim, claimWithin
  <2>4. slots'[t.slot].claim \in Claim
    BY <1>4, ZeroClaimType DEF FreeSlot
  <2>5. TreeLedger!Next
    BY <1>1, <1>4, <2>1, <2>2, <2>3, <2>4, ChargeMoves
  <2> QED BY <2>5 DEF LedgerMove
<1> QED BY <1>7, <1>8 DEF Forms

\* Binding, beginning and closing on a receipt move only its session.
LEMMA SessionTree ==
    ASSUME TreeInv, UNCHANGED treeVars, NEW t \in Receipt, NEW e \in Nat,
           NEW id \in Nat, NEW n \in Nat,
           \/ bindPublicationSessionLocked(t, e, id)
           \/ beginPublicationLocked(t, e, id, n)
           \/ closePublicationSession(t, e, id, n)
    PROVE  TreeInv' /\ Forms
<1>1. t.slot \in Slots /\ slots \in [Slots -> Slot] /\ 0 \in Nat
      /\ validateReceipt(t) /\ slots[t.slot].permitGeneration + 1 \in Nat
      /\ issued \subseteq Token
  BY DEF Receipt, TreeInv, TreeTypes, Slot, bindPublicationSessionLocked,
         beginPublicationLocked, closePublicationSession
<1>2. UNCHANGED <<childVars, used, nextGeneration>>
  BY DEF bindPublicationSessionLocked, beginPublicationLocked,
         closePublicationSession
<1>3. /\ slots' \in [Slots -> Slot]
      /\ slots'[t.slot].state = slots[t.slot].state
      /\ slots'[t.slot].claim = slots[t.slot].claim
      /\ \A k \in Slots \ {t.slot} : slots'[k] = slots[k]
  <2>1. CASE bindPublicationSessionLocked(t, e, id)
    BY <1>1, <2>1 DEF bindPublicationSessionLocked, Slot
  <2>2. CASE beginPublicationLocked(t, e, id, n)
    BY <1>1, <2>2 DEF beginPublicationLocked, Slot
  <2>3. CASE closePublicationSession(t, e, id, n)
    BY <1>1, <2>3 DEF closePublicationSession, Slot
  <2> QED BY <2>1, <2>2, <2>3
<1>4. issued' \subseteq Token
  <2>1. CASE beginPublicationLocked(t, e, id, n)
    <3> DEFINE p == PermitAt(t, e, id, n, slots[t.slot].permitGeneration + 1)
    <3>1. p \in PublicationPermit
      BY <1>1 DEF PermitAt, PublicationPermit
    <3>2. {p} \subseteq Token
      BY <3>1 DEF Token
    <3>3. Exchange({}, {p})
      BY <2>1 DEF beginPublicationLocked
    <3> HIDE DEF p
    <3> QED BY <3>2, <3>3, ExchangeTokens
  <2>2. CASE \/ bindPublicationSessionLocked(t, e, id)
             \/ closePublicationSession(t, e, id, n)
    BY <1>1, <2>2 DEF bindPublicationSessionLocked, closePublicationSession,
                      handleVars
  <2> QED BY <2>1, <2>2
<1>5. slots[t.slot].state = "committed"
  BY <1>1 DEF validateReceipt
<1> QED BY <1>1, <1>2, <1>3, <1>4, <1>5, SessionFrame

\* Commit and abort of a permit move only the session.
LEMMA PermitTree ==
    ASSUME TreeInv, UNCHANGED treeVars, NEW t \in Permits,
           commitPublicationAssumeValid(t) \/ abortPublication(t)
    PROVE  TreeInv' /\ Forms
<1>1. t \in PublicationPermit /\ t.receipt.slot \in Slots
      /\ t.sequence + 1 \in Nat /\ slots \in [Slots -> Slot]
  BY TokenKinds DEF TreeInv, TreeTypes, PublicationPermit, Receipt
<1>2. /\ UNCHANGED <<childVars, used, nextGeneration>>
      /\ Exchange({t}, {}) /\ validatePublicationPermit(t)
  BY DEF commitPublicationAssumeValid, abortPublication
<1>3. /\ slots' \in [Slots -> Slot]
      /\ slots'[t.receipt.slot].state = slots[t.receipt.slot].state
      /\ slots'[t.receipt.slot].claim = slots[t.receipt.slot].claim
      /\ \A k \in Slots \ {t.receipt.slot} : slots'[k] = slots[k]
  <2>1. CASE commitPublicationAssumeValid(t)
    BY <1>1, <2>1 DEF commitPublicationAssumeValid, Slot
  <2>2. CASE abortPublication(t)
    BY <1>1, <2>2 DEF abortPublication, Slot
  <2> QED BY <2>1, <2>2
<1>4. issued' \subseteq Token
  BY <1>2, ExchangeTokens
<1>5. slots[t.receipt.slot].state = "committed"
  BY <1>2 DEF validatePublicationPermit, validateReceipt
<1> QED BY <1>1, <1>2, <1>3, <1>4, <1>5, SessionFrame

\* A tree handle that is accepted is that of its slot's tree.
LEMMA TreeAccepted ==
    ASSUME TreeInv, NEW t \in Trees, validateLeaseTree(t)
    PROVE  /\ t \in TreeToken /\ t.parent \in Receipt /\ t.parent.slot \in Slots
           /\ roots[t.parent.slot] = t.root /\ t.root \in ActiveRoot
           /\ slots[t.parent.slot].state = "committed"
           /\ slots[t.parent.slot].claim = t.parent.claim
           /\ TreeSound(t.parent.slot)
<1>1. t \in TreeToken
  BY TokenKinds DEF TreeInv
<1> QED BY <1>1 DEF TreeToken, Receipt, validateLeaseTree, validateReceipt,
                    TreeInv, TreeTypes

\* Restoring a session moves only the session.
LEMMA RestoreTree ==
    ASSUME TreeInv, NEW t \in Trees, NEW e \in Nat, NEW id \in Nat,
           NEW n \in Nat, NEW g \in Nat,
           bindRestoredPublicationSession(t, e, id, n, g)
    PROVE  TreeInv' /\ Forms
<1>1. /\ UNCHANGED <<childVars, used, nextGeneration>>
      /\ UNCHANGED treeVars /\ UNCHANGED issued /\ validateLeaseTree(t)
  BY DEF bindRestoredPublicationSession, handleVars
<1>2. t.parent.slot \in Slots /\ slots[t.parent.slot].state = "committed"
      /\ slots \in [Slots -> Slot] /\ issued \subseteq Token
  BY <1>1, TreeAccepted, SMTT(60) DEF TreeInv, TreeTypes
<1>3. /\ slots' \in [Slots -> Slot]
      /\ slots'[t.parent.slot].state = slots[t.parent.slot].state
      /\ slots'[t.parent.slot].claim = slots[t.parent.slot].claim
      /\ \A k \in Slots \ {t.parent.slot} : slots'[k] = slots[k]
  <2>1. slots' = [slots EXCEPT
                   ![t.parent.slot].requestEpoch = e,
                   ![t.parent.slot].sessionId = id,
                   ![t.parent.slot].nextSequence = n,
                   ![t.parent.slot].permitGeneration = IF g = 0 THEN @ ELSE g]
    BY DEF bindRestoredPublicationSession
  <2> QED BY <1>2, <2>1 DEF Slot
<1> QED BY <1>1, <1>2, <1>3, SessionFrame
-----------------------------------------------------------------------------
(* Steps of a tree.                                                        *)

InTree(x, i) == x.state = "free" \/ x.slot = i

NodesOnly(i) == \A j \in Nodes : \/ nodes'[j] = nodes[j]
                                 \/ /\ InTree(nodes[j], i)
                                    /\ InTree(nodes'[j], i)

PinsOnly(i) == \A p \in PinSlots : \/ pins'[p] = pins[p]
                                   \/ /\ InTree(pins[p], i)
                                      /\ InTree(pins'[p], i)

\* A step on the tree of slot i keeps the invariant if that tree stays sound.
LEMMA TreeFrame ==
    ASSUME TreeInv, NEW i \in Slots,
           \A k \in Slots \ {i} : slots'[k] = slots[k] /\ roots'[k] = roots[k],
           NodesOnly(i), PinsOnly(i), TreeTypes', Registered', TreeSound(i)'
    PROVE  TreeInv'
<1>1. ASSUME NEW k \in Slots \ {i} PROVE TreeSound(k)'
  <2>1. NodesKept(k)
    BY DEF NodesKept, NodesOnly, InTree, OffTree
  <2>2. PinsKept(k)
    BY DEF PinsKept, PinsOnly, InTree, OffTree
  <2>3. TreeSound(k) /\ roots'[k] = roots[k] /\ slots'[k] = slots[k]
    BY DEF TreeInv
  <2> QED BY <2>1, <2>2, <2>3, OtherTrees
<1> QED BY <1>1 DEF TreeInv

\* The generations that a step takes from the counter exist.
LEMMA GenerationsFit ==
    ASSUME TreeInv, NEW c \in Nat, NEW h \in Nat,
           leaseGenerationReservationFits(c, h)
    PROVE  nextLeaseGeneration + c \in 1 .. MaxLeaseGeneration
<1>1. /\ nextLeaseGeneration \in 1 .. MaxLeaseGeneration
      /\ reservedCompletions \in Nat /\ MaxLeaseGeneration \in Nat
      /\ c + reservedCompletions + h
            < MaxLeaseGeneration - nextLeaseGeneration
  BY TreeAssumption DEF TreeInv, TreeTypes, leaseGenerationReservationFits
<1> QED BY <1>1

\* The revisions that are still to be made fit below the last one.
LEMMA RevisionFits ==
    ASSUME TreeInv, NEW i \in Slots, roots[i].state = "active",
           NEW n \in Nat \ {0}, NEW h \in Nat,
           structuralRevisionHeadroom(i, n, h)
    PROVE  /\ roots[i].revision + 1 \in 0 .. MaxRevision
           /\ roots[i].revision + n <= MaxRevision
<1>1. roots[i].revision \in 0 .. MaxRevision /\ MaxRevision \in Nat
      /\ n + Cardinality(PinsOf(i)) + h <= MaxRevision - roots[i].revision
  BY TreeAssumption DEF TreeInv, TreeSound, RootSound,
                        structuralRevisionHeadroom
<1>2. Cardinality(PinsOf(i)) \in Nat
  <2>1. PinsOf(i) \in SUBSET PinSlots
    BY DEF PinsOf
  <2> QED BY <2>1, PinsFinite
<1> QED BY <1>1, <1>2

\* A new tree is empty.
LEMMA OpenTreeKeeps ==
    ASSUME TreeInv, NEW t \in Receipts, NEW ceiling \in Ceilings,
           NEW funding \in FundingModes,
           openLeaseTreeWithFundingMode(t, ceiling, funding)
    PROVE  TreeInv' /\ Forms
<1> DEFINE root == [FreeRoot EXCEPT !.state = "active",
                                    !.identity = nextLeaseGeneration,
                                    !.generation = nextLeaseGeneration + 1,
                                    !.revision = 1,
                                    !.ceiling = ceiling,
                                    !.funding = funding]
           i == t.slot
<1>1. /\ validateReceipt(t) /\ ~hasActiveLeaseTree(i)
      /\ funding = "funded" => claimWithin(ceiling, t.claim)
      /\ reserveLeaseGenerations(2)
      /\ roots' = [roots EXCEPT ![i] = root]
      /\ Exchange({}, {TreeAt(t, root)})
      /\ slots' = slots /\ used' = used /\ nextGeneration' = nextGeneration
      /\ children' = children /\ nodes' = nodes /\ pins' = pins
  BY DEF openLeaseTreeWithFundingMode, bankVars, childVars
<1>2. /\ t \in Receipt /\ i \in Slots /\ slots[i].state = "committed"
      /\ slots[i].claim = t.claim /\ ceiling \in Claim
      /\ funding \in {"additive", "funded"} /\ roots[i].state = "free"
  <2>1. t \in Receipt /\ roots \in [Slots -> Root]
    BY TokenKinds DEF TreeInv, TreeTypes
  <2> QED BY <1>1, <2>1, TreeAssumption
          DEF Receipt, validateReceipt, hasActiveLeaseTree, Root
<1>3. /\ nextLeaseGeneration' = nextLeaseGeneration + 2
      /\ nextLeaseGeneration' \in 1 .. MaxLeaseGeneration
      /\ reservedCompletions' = reservedCompletions
      /\ nextLeaseGeneration \in Nat
  BY <1>1, GenerationsFit DEF reserveLeaseGenerations, TreeInv, TreeTypes
<1>4. root \in ActiveRoot
  <2>1. nextLeaseGeneration \in Nat /\ nextLeaseGeneration + 1 \in Nat
        /\ ceiling \in Claim /\ funding \in {"additive", "funded"}
        /\ 1 \in Nat
    BY <1>2, <1>3
  <2>2. FreeRoot \in Root
    BY BlankTypes
  <2>3. root \in Root
    BY ONLY <2>1, <2>2 DEF Root
  <2>4. root.state = "active"
    BY DEF FreeRoot
  <2> QED BY <2>3, <2>4 DEF ActiveRoot
<1>5. /\ root.state = "active" /\ root.revision = 1
      /\ root.ceiling = ceiling /\ root.current = ZeroClaim
      /\ root.funding = funding /\ root.pending.kind = "none"
      /\ ~root.activated
  BY DEF FreeRoot, NothingPending
<1> HIDE DEF root
<1>6. roots'[i] = root /\ roots' \in [Slots -> Root]
      /\ \A k \in Slots \ {i} : roots'[k] = roots[k]
  BY <1>1, <1>2, <1>4 DEF TreeInv, TreeTypes, ActiveRoot
<1>7. issued' \subseteq Token
  <2>1. TreeAt(t, root) \in TreeToken
    BY <1>2, <1>4 DEF TreeAt, TreeToken
  <2>2. {TreeAt(t, root)} \subseteq Token
    BY <2>1 DEF Token
  <2> QED BY <1>1, <2>2, ExchangeTokens
<1>8. TreeTypes' /\ Registered'
  BY <1>1, <1>3, <1>6, <1>7 DEF TreeInv, TreeTypes, Registered, ActivePins
<1>9. NodesOf(i) = {} /\ PinsOf(i) = {} /\ roots[i] = FreeRoot
  BY <1>2 DEF TreeInv, TreeSound, RootSound, PinsSound
<1>10. TreeSound(i)'
  <2>1. NodesOf(i)' = {} /\ PinsOf(i)' = {}
    BY <1>1, <1>9 DEF NodesOf, PinsOf
  <2>2. LeavesOf(i)' = {}
    BY <2>1 DEF LeavesOf
  <2>3. RootSound(i)'
    BY <1>1, <1>2, <1>5, <1>6, TreeAssumption DEF RootSound
  <2>4. SumsSound(i)'
    <3>1. Total(nodes, {}) = ZeroClaim
      BY NodesTotal DEF TreeInv, TreeTypes
    <3>2. claimWithin(ZeroClaim, ceiling)
      BY <1>2 DEF claimWithin, ZeroClaim, Claim
    <3> QED BY <1>1, <1>5, <1>6, <2>1, <2>2, <3>1, <3>2 DEF SumsSound
  <2>5. LeavesSound(i)'
    BY <2>1, <2>2 DEF LeavesSound
  <2>6. PinsSound(i)'
    <3>1. Cardinality({}) = 0 /\ slots[i].claim[QueueClass] \in Nat
      BY <1>2, FS_EmptySet, TreeAssumption DEF Receipt, Claim
    <3> QED BY <1>1, <1>5, <1>6, <2>1, <3>1 DEF PinsSound
  <2> QED BY <2>3, <2>4, <2>5, <2>6 DEF TreeSound
<1>11. TreeInv'
  <2>1. NodesOnly(i) /\ PinsOnly(i)
    BY <1>1 DEF NodesOnly, PinsOnly
  <2> QED BY <1>1, <1>2, <1>6, <1>8, <1>10, <2>1, TreeFrame
<1>12. Forms
  <2>1. NodesMove
    BY <1>1 DEF NodesMove, NodeMove
  <2>2. \A k \in Slots : TreeCharge(k)' = TreeCharge(k)
    BY <1>5, <1>6, <1>9 DEF TreeCharge, FreeRoot
  <2> QED BY <1>1, <2>1, <2>2, ChargesStand DEF Forms
<1> QED BY <1>11, <1>12

\* The root at its next revision.
Advanced(root, g) ==
    [root EXCEPT !.generation = g, !.revision = root.revision + 1]

\* AdvanceTree replaces one root, by a root that has only moved on, and adds
\* its handle to those that are returned.
LEMMA AdvanceKeeps ==
    ASSUME TreeInv, NEW r \in Receipt, NEW root \in ActiveRoot, NEW g \in Nat,
           NEW old, NEW new, new \subseteq Token,
           AdvanceTree(r, root, g, old, new)
    PROVE  /\ Advanced(root, g) \in ActiveRoot
           /\ roots'[r.slot] = Advanced(root, g) /\ roots' \in [Slots -> Root]
           /\ \A k \in Slots \ {r.slot} : roots'[k] = roots[k]
           /\ issued' \subseteq Token
           /\ Exchange({TreeAt(r, roots[r.slot])} \union old,
                       {TreeAt(r, Advanced(root, g))} \union new)
<1> DEFINE next == [root EXCEPT !.generation = g, !.revision = @ + 1]
<1>1. next = Advanced(root, g)
  BY DEF Advanced
<1>2. Advanced(root, g) \in ActiveRoot
  <2>1. root \in Root /\ root.state = "active" /\ root.revision + 1 \in Nat
        /\ g \in Nat
    BY DEF ActiveRoot, Root
  <2>2. Advanced(root, g) \in Root /\ Advanced(root, g).state = "active"
    BY ONLY <2>1 DEF Advanced, Root
  <2> QED BY <2>2 DEF ActiveRoot
<1>3. /\ roots' = [roots EXCEPT ![r.slot] = next]
      /\ Exchange({TreeAt(r, roots[r.slot])} \union old,
                  {TreeAt(r, next)} \union new)
  BY DEF AdvanceTree
<1> HIDE DEF next
<1>4. r.slot \in Slots /\ roots \in [Slots -> Root]
  BY DEF Receipt, TreeInv, TreeTypes
<1>5. TreeAt(r, Advanced(root, g)) \in TreeToken
  BY <1>2 DEF TreeAt, TreeToken
<1>6. {TreeAt(r, next)} \union new \subseteq Token
  BY <1>1, <1>5 DEF Token
<1>7. issued' \subseteq Token
  BY <1>3, <1>6, ExchangeTokens
<1> QED BY <1>1, <1>2, <1>3, <1>4, <1>7 DEF ActiveRoot

\* A root that has moved on is still that of a tree.
LEMMA AdvancedType ==
    ASSUME NEW root \in ActiveRoot, NEW g \in Nat
    PROVE  /\ Advanced(root, g) \in ActiveRoot
           /\ Advanced(root, g).pending = root.pending
<1>1. root \in Root /\ root.state = "active" /\ root.revision + 1 \in Nat
      /\ g \in Nat
  BY DEF ActiveRoot, Root
<1>2. /\ Advanced(root, g) \in Root /\ Advanced(root, g).state = "active"
      /\ Advanced(root, g).pending = root.pending
  BY ONLY <1>1 DEF Advanced, Root
<1> QED BY <1>2 DEF ActiveRoot

\* What moving on leaves alone.
LEMMA AdvancedFields ==
    ASSUME NEW root \in Root, NEW g \in Nat
    PROVE  LET n == Advanced(root, g) IN
           /\ n.state = root.state /\ n.identity = root.identity
           /\ n.ceiling = root.ceiling /\ n.current = root.current
           /\ n.funding = root.funding /\ n.activated = root.activated
           /\ n.pending = root.pending /\ n.generation = g
           /\ n.revision = root.revision + 1
BY DEF Advanced, Root

\* A handle to a node of the pool is well formed.
LEMMA NodeHandleType ==
    ASSUME NEW r \in Receipt, NEW j \in Nodes, NEW n \in Node
    PROVE  NodeAt(r, j, n) \in NodeToken
BY DEF NodeAt, NodeToken, Node

\* The shape of a step on the tree of receipt r, once the step is known to keep
\* that tree sound: the receipt stays, the root moves on, and the counters
\* still account for the pins.
LEMMA TreeStep ==
    ASSUME TreeInv, NEW r \in Receipt, NEW root \in ActiveRoot, NEW g \in Nat,
           NEW old, NEW new, new \subseteq Token,
           AdvanceTree(r, root, g, old, new),
           slots' = slots, children' = children,
           nextGeneration' = nextGeneration, used' \in Claim,
           nodes' \in [Nodes -> Node], NodesOnly(r.slot),
           \A j \in Nodes : nodes'[j].state = "free" => nodes'[j] = FreeNode,
           pins' \in [PinSlots -> Pin], PinsOnly(r.slot),
           nextLeaseGeneration' \in 1 .. MaxLeaseGeneration,
           reservedCompletions' = Cardinality(ActivePins'),
           TreeSound(r.slot)'
    PROVE  TreeInv'
<1>1. r.slot \in Slots
  BY DEF Receipt
<1>2. /\ roots' \in [Slots -> Root] /\ issued' \subseteq Token
      /\ \A k \in Slots \ {r.slot} : roots'[k] = roots[k]
  BY AdvanceKeeps
<1>3. reservedCompletions' \in Nat
  <2>1. ActivePins' \in SUBSET PinSlots
    BY DEF ActivePins
  <2> QED BY <2>1, PinsFinite
<1>4. TreeTypes'
  BY <1>2, <1>3 DEF TreeInv, TreeTypes
<1>5. Registered'
  BY DEF TreeInv, Registered
<1> QED BY <1>1, <1>2, <1>4, <1>5, TreeFrame

\* A new scope is empty: no leaf of the tree hangs below a free node.
LEMMA OpenScopeKeeps ==
    ASSUME TreeInv, NEW t \in Trees, NEW key \in Keys, NEW ceiling \in Ceilings,
           openLeaseScope(t, key, ceiling)
    PROVE  TreeInv' /\ Forms
<1> DEFINE i == t.parent.slot
           root == t.root
           node == [FreeNode EXCEPT !.state = "live", !.slot = i,
                                    !.tree = t.root.identity,
                                    !.generation = nextLeaseGeneration,
                                    !.key = key, !.ceiling = ceiling]
           g == nextLeaseGeneration + 1
<1>1. /\ validateLeaseTree(t) /\ root.pending.kind = "none"
      /\ structuralRevisionHeadroom(i, 1, 0) /\ reserveLeaseGenerations(2)
      /\ slots' = slots /\ used' = used /\ nextGeneration' = nextGeneration
      /\ children' = children /\ pins' = pins
  BY DEF openLeaseScope, bankVars, childVars
<1>2. PICK j \in FreeNodes :
        /\ nodes' = [nodes EXCEPT ![j] = node]
        /\ AdvanceTree(t.parent, root, g, {}, {NodeAt(t.parent, j, node)})
  BY DEF openLeaseScope
<1>3. /\ t.parent \in Receipt /\ i \in Slots /\ roots[i] = root
      /\ root \in ActiveRoot /\ TreeSound(i) /\ ceiling \in Claim
      /\ slots[i].state = "committed" /\ root \in Root
      /\ root.state = "active"
  BY <1>1, TreeAccepted, TreeAssumption DEF ActiveRoot
<1>4. /\ nextLeaseGeneration' \in 1 .. MaxLeaseGeneration
      /\ reservedCompletions' = reservedCompletions
      /\ nextLeaseGeneration \in Nat /\ g \in Nat
  BY <1>1, GenerationsFit DEF reserveLeaseGenerations, TreeInv, TreeTypes
<1>5. j \in Nodes /\ nodes[j] = FreeNode /\ nodes \in [Nodes -> Node]
  BY <1>2 DEF FreeNodes, TreeInv, TreeTypes, Registered
<1>6. node \in Node
  <2>1. nextLeaseGeneration \in Nat /\ t.root.identity \in Nat
        /\ key \in Keys \union {0} /\ ceiling \in Claim /\ i \in Slots
    BY <1>3, <1>4 DEF Root
  <2>2. FreeNode \in Node
    BY BlankTypes
  <2> QED BY ONLY <2>1, <2>2 DEF Node
<1>7. /\ node.state = "live" /\ node.kind = "scope" /\ node.slot = i
      /\ node.tree = root.identity /\ node.subtree = ZeroClaim
      /\ node.ceiling = ceiling /\ node.pinCount = 0 /\ node.pending = 0
  BY DEF FreeNode
<1> HIDE DEF node
<1>8. /\ nodes' \in [Nodes -> Node] /\ nodes'[j] = node
      /\ \A l \in Nodes \ {j} : nodes'[l] = nodes[l]
  BY <1>2, <1>5, <1>6
<1>9. {NodeAt(t.parent, j, node)} \subseteq Token
  BY <1>3, <1>5, <1>6, NodeHandleType DEF Token
<1>10. roots'[i] = Advanced(root, g)
       /\ \A k \in Slots \ {i} : roots'[k] = roots[k]
  <2> DEFINE new == {NodeAt(t.parent, j, node)}
  <2>1. new \subseteq Token /\ AdvanceTree(t.parent, root, g, {}, new)
        /\ g \in Nat
    BY <1>2, <1>4, <1>9
  <2> HIDE DEF new, g
  <2> QED BY <1>3, <2>1, AdvanceKeeps
<1>11. /\ roots'[i].state = "active" /\ roots'[i].identity = root.identity
       /\ roots'[i].ceiling = root.ceiling /\ roots'[i].current = root.current
       /\ roots'[i].funding = root.funding
       /\ roots'[i].activated = root.activated
       /\ roots'[i].pending.kind = "none"
       /\ roots'[i].revision = root.revision + 1
  BY <1>1, <1>3, <1>4, <1>10, AdvancedFields
<1>12. j \notin NodesOf(i)
  BY <1>5 DEF NodesOf, FreeNode
<1>13. NodesOf(i)' = NodesOf(i) \union {j}
  BY <1>5, <1>7, <1>8, <1>12 DEF NodesOf
<1>14. LeavesOf(i)' = LeavesOf(i)
  <2>1. \A l \in NodesOf(i) : l \in Nodes \ {j}
    BY <1>12 DEF NodesOf
  <2>2. nodes'[j].kind = "scope" /\ j \notin NodesOf(i)
        /\ \A l \in NodesOf(i) : nodes'[l] = nodes[l]
    BY <1>7, <1>8, <1>12, <2>1
  <2> QED BY <1>13, <2>2 DEF LeavesOf
<1>15. \A l \in NodesOf(i) : l \in Nodes \ {j} /\ nodes'[l] = nodes[l]
  BY <1>8, <1>12 DEF NodesOf
<1>16. LeavesOf(i) \subseteq NodesOf(i) /\ PendingOf(i) = {}
       /\ PendingOf(i)' = {}
  BY <1>1, <1>3, <1>11 DEF LeavesOf, PendingOf
<1>17. \A l \in NodesOf(i) : /\ nodes[l].slot = i /\ nodes'[l].slot = i
                              /\ LeavesBelow(l) \subseteq NodesOf(i)
                              /\ LeavesBelow(l)' = LeavesBelow(l)
  <2>1. \A l \in NodesOf(i) : nodes[l].slot = i
    BY DEF NodesOf
  <2> QED BY <1>14, <1>15, <1>16, <2>1 DEF LeavesBelow
<1>18. LeavesBelow(j)' = {}
  <2>1. \A l \in LeavesOf(i) : nodes[l].parent # j
    BY <1>3, <1>12 DEF TreeSound, LeavesSound, LeafSound
  <2> QED BY <1>7, <1>8, <1>14, <1>15, <1>16, <2>1 DEF LeavesBelow
<1>19. RootSound(i)'
  <2>1. root.revision + 1 \in 0 .. MaxRevision
    BY <1>1, <1>3, RevisionFits
  <2> QED BY <1>1, <1>3, <1>11, <2>1 DEF TreeSound, RootSound
<1>20. SumsSound(i)'
  <2>1. Total(nodes', LeavesOf(i)) = Total(nodes, LeavesOf(i))
    BY <1>15, <1>16, NodesAgree
  <2>2. \A l \in NodesOf(i) :
          Total(nodes', LeavesBelow(l)) = Total(nodes, LeavesBelow(l))
    BY <1>15, <1>17, NodesAgree
  <2>3. Total(nodes', {}) = ZeroClaim
    BY <1>8, NodesTotal
  <2>4. claimWithin(ZeroClaim, ceiling)
    BY <1>3 DEF claimWithin, ZeroClaim, Claim
  <2>5. ASSUME NEW l \in NodesOf(i)', nodes'[l].kind = "scope"
        PROVE  /\ nodes'[l].subtree = Total(nodes', LeavesBelow(l)')
               /\ claimWithin(nodes'[l].subtree, nodes'[l].ceiling)
    <3>1. CASE l \in NodesOf(i)
      BY <1>3, <1>15, <1>17, <2>2, <2>5, <3>1 DEF TreeSound, SumsSound
    <3>2. CASE l = j
      BY <1>7, <1>8, <1>18, <2>3, <2>4, <3>2
    <3> QED BY <1>13, <3>1, <3>2
  <2>6. /\ roots'[i].current = Total(nodes', LeavesOf(i)')
        /\ claimWithin(roots'[i].current, roots'[i].ceiling)
    BY <1>3, <1>11, <1>14, <2>1 DEF TreeSound, SumsSound
  <2> QED BY <2>5, <2>6 DEF SumsSound
<1>21. LeavesSound(i)'
  <2>1. \A l \in NodesOf(i)' : nodes'[l].tree = roots'[i].identity
    BY <1>3, <1>7, <1>8, <1>11, <1>13, <1>15 DEF TreeSound, LeavesSound
  <2>2. \A l \in LeavesOf(i) : nodes[l].parent \in NodesOf(i)
    BY <1>3 DEF TreeSound, LeavesSound, LeafSound
  <2>3. \A l \in LeavesOf(i)' : LeafSound(i, l)'
    BY <1>3, <1>11, <1>13, <1>14, <1>15, <1>16, <2>2
       DEF TreeSound, LeavesSound, LeafSound
  <2> QED BY <2>1, <2>3 DEF LeavesSound
<1>22. PinsSound(i)'
  <2>1. PinsOf(i)' = PinsOf(i)
    BY <1>1 DEF PinsOf
  <2>2. {p \in PinsOf(i) : j \in pins[p].members} = {}
    BY <1>3, <1>12, <1>16 DEF TreeSound, PinsSound
  <2>3. nodes'[j].pinCount = Cardinality({p \in PinsOf(i) :
                                              j \in pins[p].members})
    BY <1>7, <1>8, <2>2, FS_EmptySet
  <2>4. \A l \in NodesOf(i)' :
          nodes'[l].pinCount = Cardinality({p \in PinsOf(i) :
                                               l \in pins[p].members})
    BY <1>3, <1>13, <1>15, <2>3 DEF TreeSound, PinsSound
  <2> QED BY <1>1, <1>3, <1>11, <1>14, <2>1, <2>4 DEF TreeSound, PinsSound
<1>23. TreeInv'
  <2>1. NodesOnly(i) /\ PinsOnly(i)
    BY <1>1, <1>5, <1>7, <1>8 DEF NodesOnly, PinsOnly, InTree, FreeNode
  <2>2. \A l \in Nodes : nodes'[l].state = "free" => nodes'[l] = FreeNode
    BY <1>7, <1>8 DEF TreeInv, Registered
  <2>3. /\ reservedCompletions' = Cardinality(ActivePins')
        /\ pins' \in [PinSlots -> Pin] /\ used' \in Claim
    BY <1>1, <1>4 DEF TreeInv, TreeTypes, Registered, ActivePins
  <2>4. TreeSound(i)'
    BY <1>19, <1>20, <1>21, <1>22 DEF TreeSound
  <2> QED BY <1>1, <1>2, <1>3, <1>4, <1>8, <1>9, <2>1, <2>2, <2>3, <2>4,
             TreeStep
<1>24. Forms
  <2>1. NodesMove
    BY <1>5, <1>8 DEF NodesMove, NodeMove, FreeNode
  <2>2. \A k \in Slots : TreeCharge(k)' = TreeCharge(k)
    BY <1>3, <1>10, <1>11 DEF TreeCharge
  <2> QED BY <1>1, <2>1, <2>2, ChargesStand DEF Forms
<1> QED BY <1>23, <1>24

-----------------------------------------------------------------------------
(* Decisions that keep the leaves they are about.                          *)

\* What becomes of a root when its pending leaves move to another state: the
\* decision is over and they are live, or their free is authorized.
SettledRoot(now, root, state, pending) ==
    /\ root.identity = now.identity /\ root.ceiling = now.ceiling
    /\ root.current = now.current /\ root.funding = now.funding
    /\ root.revision = now.revision
    /\ \/ /\ state = "live" /\ pending = 0
          /\ now.pending.kind \in {"allocation", "retire"}
          /\ root.pending.kind = "none"
          /\ root.funding = "funded" =>
                \/ root.activated
                \/ /\ now.pending.kind = "retire"
                   /\ root.activated = now.activated
       \/ /\ state = "free_authorized" /\ pending # 0
          /\ now.pending.kind = "retire" /\ root.pending.kind = "free"
          /\ root.pending.generation = pending
          /\ root.pending.claim = now.pending.claim
          /\ root.activated = now.activated

\* What the decision leaves alone in a leaf.
LEMMA SettledLeaf ==
    ASSUME NEW n \in Node, NEW pending \in Nat,
           NEW state \in {"live", "quiescing", "free_authorized"}
    PROVE  LET m == [n EXCEPT !.state = state, !.pending = pending] IN
           /\ m \in Node /\ m.state = state /\ m.pending = pending
           /\ m.kind = n.kind /\ m.slot = n.slot /\ m.tree = n.tree
           /\ m.generation = n.generation /\ m.parent = n.parent
           /\ m.ceiling = n.ceiling /\ m.subtree = n.subtree
           /\ m.pinCount = n.pinCount
BY DEF Node

\* The leaves that wait for the decision are exactly those it moves.
LEMMA SettleKeeps ==
    ASSUME TreeInv, NEW r \in Receipt, NEW root \in ActiveRoot, NEW g \in Nat,
           NEW i \in Slots, i = r.slot, NEW state, NEW pending \in Nat,
           NEW old, NEW new, new \subseteq Token,
           roots[i].state = "active", roots[i].revision < MaxRevision,
           SettledRoot(roots[i], root, state, pending),
           SettleLeaves(i, state, pending),
           AdvanceTree(r, root, g, old, new),
           UNCHANGED <<bankVars, pins, generationVars>>
    PROVE  TreeInv' /\ Forms
<1> DEFINE now == roots[i]
<1>1. /\ slots' = slots /\ used' = used /\ nextGeneration' = nextGeneration
      /\ children' = children /\ pins' = pins
      /\ nextLeaseGeneration' = nextLeaseGeneration
      /\ reservedCompletions' = reservedCompletions
  BY DEF bankVars, childVars, generationVars
<1>2. /\ TreeSound(i) /\ nodes \in [Nodes -> Node] /\ root \in Root
      /\ now \in Root /\ root.state = "active"
  BY DEF TreeInv, TreeTypes, ActiveRoot
<1>3. /\ roots'[i] = Advanced(root, g)
      /\ \A k \in Slots \ {i} : roots'[k] = roots[k]
  BY AdvanceKeeps
<1>4. /\ roots'[i].state = "active" /\ roots'[i].identity = now.identity
      /\ roots'[i].ceiling = now.ceiling /\ roots'[i].current = now.current
      /\ roots'[i].funding = now.funding
      /\ roots'[i].activated = root.activated
      /\ roots'[i].pending = root.pending
      /\ roots'[i].revision = now.revision + 1
  BY <1>2, <1>3, AdvancedFields DEF SettledRoot
<1>5. /\ state \in {"live", "free_authorized"}
      /\ now.pending.kind \in {"allocation", "retire"}
  BY DEF SettledRoot
<1>6. LeavesOf(i) \subseteq NodesOf(i) /\ PendingOf(i) \subseteq LeavesOf(i)
      /\ NodesOf(i) \subseteq Nodes
  BY DEF LeavesOf, PendingOf, NodesOf
<1>7. \A j \in Nodes :
        nodes'[j] = IF j \in PendingOf(i)
                    THEN [nodes[j] EXCEPT !.state = state, !.pending = pending]
                    ELSE nodes[j]
  BY DEF SettleLeaves
<1>8. \A j \in Nodes :
        /\ nodes'[j].kind = nodes[j].kind /\ nodes'[j].slot = nodes[j].slot
        /\ nodes'[j].tree = nodes[j].tree
        /\ nodes'[j].generation = nodes[j].generation
        /\ nodes'[j].parent = nodes[j].parent
        /\ nodes'[j].ceiling = nodes[j].ceiling
        /\ nodes'[j].subtree = nodes[j].subtree
        /\ nodes'[j].pinCount = nodes[j].pinCount
        /\ nodes'[j].state = IF j \in PendingOf(i) THEN state
                                                   ELSE nodes[j].state
        /\ nodes'[j].pending = IF j \in PendingOf(i) THEN pending
                                                     ELSE nodes[j].pending
  <2> SUFFICES ASSUME NEW j \in Nodes
               PROVE  /\ nodes'[j].kind = nodes[j].kind
                      /\ nodes'[j].slot = nodes[j].slot
                      /\ nodes'[j].tree = nodes[j].tree
                      /\ nodes'[j].generation = nodes[j].generation
                      /\ nodes'[j].parent = nodes[j].parent
                      /\ nodes'[j].ceiling = nodes[j].ceiling
                      /\ nodes'[j].subtree = nodes[j].subtree
                      /\ nodes'[j].pinCount = nodes[j].pinCount
                      /\ nodes'[j].state = IF j \in PendingOf(i) THEN state
                                              ELSE nodes[j].state
                      /\ nodes'[j].pending = IF j \in PendingOf(i) THEN pending
                                                ELSE nodes[j].pending
    OBVIOUS
  <2>1. CASE j \in PendingOf(i)
    <3>1. nodes[j] \in Node /\ state \in {"live", "quiescing",
                                          "free_authorized"}
      BY <1>2, <1>5
    <3>2. nodes'[j] = [nodes[j] EXCEPT !.state = state, !.pending = pending]
      BY <1>7, <2>1
    <3> DEFINE m == [nodes[j] EXCEPT !.state = state, !.pending = pending]
    <3>3. /\ m.state = state /\ m.pending = pending
          /\ m.kind = nodes[j].kind /\ m.slot = nodes[j].slot
          /\ m.tree = nodes[j].tree /\ m.generation = nodes[j].generation
          /\ m.parent = nodes[j].parent /\ m.ceiling = nodes[j].ceiling
          /\ m.subtree = nodes[j].subtree /\ m.pinCount = nodes[j].pinCount
      BY ONLY <3>1 DEF Node
    <3>4. nodes'[j] = m
      BY <3>2
    <3> HIDE DEF m
    <3> QED BY <2>1, <3>3, <3>4
  <2>2. CASE j \notin PendingOf(i)
    BY <1>7, <2>2
  <2> QED BY <2>1, <2>2
<1>9. nodes' \in [Nodes -> Node]
  <2>1. \A j \in Nodes :
          [nodes[j] EXCEPT !.state = state, !.pending = pending] \in Node
    BY <1>2, <1>5, SettledLeaf
  <2>2. nodes' = [j \in Nodes |-> nodes'[j]]
    BY DEF SettleLeaves
  <2> QED BY <1>2, <1>7, <2>1, <2>2, ZenonT(60)
<1>10. \A j \in Nodes : nodes'[j].state = "free" <=> nodes[j].state = "free"
  <2>1. \A j \in PendingOf(i) : nodes[j].state # "free"
    BY DEF PendingOf, LeavesOf, NodesOf
  <2> QED BY <1>5, <1>8, <2>1
<1>11. /\ NodesOf(i)' = NodesOf(i) /\ LeavesOf(i)' = LeavesOf(i)
       /\ \A j \in Nodes : LeavesBelow(j)' = LeavesBelow(j)
  <2>1. \A k : NodesOf(k)' = NodesOf(k)
    BY <1>8, <1>10 DEF NodesOf
  <2>2. \A k : LeavesOf(k)' = LeavesOf(k)
    <3>1. \A k : NodesOf(k) \subseteq Nodes
      BY DEF NodesOf
    <3> QED BY <1>8, <2>1, <3>1 DEF LeavesOf
  <2>3. \A k : LeavesOf(k) \subseteq Nodes
    BY DEF LeavesOf, NodesOf
  <2> QED BY <1>8, <2>1, <2>2, <2>3 DEF LeavesBelow
<1>12. \A j \in LeavesOf(i) :
         /\ LeafSound(i, j) /\ j \in Nodes
         /\ j \notin PendingOf(i) => /\ nodes[j].state = "live"
                                     /\ nodes[j].pending = 0
         /\ j \in PendingOf(i) =>
               /\ nodes[j].state = Undecided(now.pending.kind)
               /\ nodes[j].pinCount = 0
  BY <1>2, <1>5, <1>6 DEF TreeSound, LeavesSound, LeafSound, Undecided
<1>13. PendingOf(i)' = IF state = "live" THEN {} ELSE PendingOf(i)
  <2>1. CASE state = "live"
    BY <1>4, <2>1 DEF SettledRoot, PendingOf
  <2>2. CASE state # "live"
    <3>1. /\ roots'[i].pending.kind # "none" /\ pending # 0
          /\ roots'[i].pending.generation = pending
      BY <1>4, <2>2 DEF SettledRoot
    <3>2. PendingOf(i)' = {j \in LeavesOf(i) : nodes'[j].pending = pending}
      BY <1>11, <3>1 DEF PendingOf
    <3> QED BY <1>6, <1>8, <1>12, <2>2, <3>1, <3>2
  <2> QED BY <2>1, <2>2
<1>14. \A S \in SUBSET Nodes : Total(nodes', S) = Total(nodes, S)
  BY <1>8, NodesAgree
<1>15. RootSound(i)'
  <2>1. now.revision + 1 \in 0 .. MaxRevision
    BY <1>2, TreeAssumption DEF TreeSound, RootSound
  <2>2. CASE state = "live"
    BY <1>1, <1>2, <1>4, <2>1, <2>2 DEF SettledRoot, TreeSound, RootSound
  <2>3. CASE state # "live"
    <3>1. /\ roots'[i].pending.kind = "free"
          /\ roots'[i].pending.generation # 0
          /\ roots'[i].pending.claim = now.pending.claim
          /\ now.pending.kind = "retire"
      BY <1>4, <2>3 DEF SettledRoot
    <3>2. Total(nodes', PendingOf(i)') = Total(nodes, PendingOf(i))
      BY <1>6, <1>13, <1>14, <2>3
    <3> QED BY <1>1, <1>2, <1>4, <2>1, <3>1, <3>2 DEF TreeSound, RootSound
  <2> QED BY <2>2, <2>3
<1>16. SumsSound(i)'
  <2>1. \A j \in Nodes : LeavesBelow(j) \subseteq Nodes
    BY DEF LeavesBelow, LeavesOf, NodesOf
  <2>2. Total(nodes', LeavesOf(i)') = Total(nodes, LeavesOf(i))
    BY <1>6, <1>11, <1>14
  <2>3. \A j \in NodesOf(i) :
          Total(nodes', LeavesBelow(j)') = Total(nodes, LeavesBelow(j))
    BY <1>6, <1>11, <1>14, <2>1
  <2>4. \A j \in NodesOf(i) : j \in Nodes
    BY <1>6
  <2> QED BY <1>2, <1>4, <1>8, <1>11, <2>2, <2>3, <2>4
          DEF TreeSound, SumsSound
<1>17. LeavesSound(i)'
  <2>1. ASSUME NEW j \in LeavesOf(i) PROVE LeafSound(i, j)'
    <3>1. /\ nodes'[j].parent \in NodesOf(i)'
          /\ nodes'[nodes'[j].parent].kind = "scope"
      BY <1>6, <1>8, <1>11, <1>12 DEF LeafSound
    <3>2. /\ nodes'[j].state = "live" => nodes'[j].pending = 0
          /\ nodes'[j].state # "live" =>
                j \in PendingOf(i)' /\ nodes'[j].pinCount = 0
      BY <1>8, <1>12, <1>13 DEF SettledRoot
    <3>3. j \in PendingOf(i)' =>
            nodes'[j].state = Undecided(roots'[i].pending.kind)
      BY <1>4, <1>8, <1>12, <1>13 DEF SettledRoot, Undecided
    <3>4. nodes'[j].state # "reserved"
      BY <1>5, <1>8, <1>12
    <3>5. now.funding = "funded" => root.activated
      <4>1. now.funding = "funded" =>
              (nodes[j].state = "reserved" <=> ~now.activated)
        BY <1>12 DEF LeafSound
      <4>2. now.pending.kind = "retire" => nodes[j].state # "reserved"
        BY <1>12 DEF Undecided
      <4> QED BY <4>1, <4>2 DEF SettledRoot
    <3> QED BY <1>4, <3>1, <3>2, <3>3, <3>4, <3>5 DEF LeafSound
  <2>2. \A j \in NodesOf(i)' : nodes'[j].tree = roots'[i].identity
    BY <1>2, <1>4, <1>6, <1>8, <1>11 DEF TreeSound, LeavesSound
  <2> QED BY <1>11, <2>1, <2>2 DEF LeavesSound
<1>18. PinsSound(i)'
  <2>1. PinsOf(i)' = PinsOf(i)
    BY <1>1 DEF PinsOf
  <2>2. \A j \in NodesOf(i) : j \in Nodes
    BY <1>6
  <2> QED BY <1>1, <1>2, <1>4, <1>8, <1>11, <2>1, <2>2
          DEF TreeSound, PinsSound
<1>19. NodesOnly(i) /\ PinsOnly(i)
  <2>1. \A j \in PendingOf(i) : nodes[j].slot = i
    BY DEF PendingOf, LeavesOf, NodesOf
  <2> QED BY <1>1, <1>7, <1>8, <2>1 DEF NodesOnly, PinsOnly, InTree
<1>20. TreeInv'
  <2>1. \A j \in Nodes : nodes'[j].state = "free" => nodes'[j] = FreeNode
    <3>1. \A j \in PendingOf(i) : nodes[j].state # "free"
      BY DEF PendingOf, LeavesOf, NodesOf
    <3> QED BY <1>7, <1>10, <3>1 DEF TreeInv, Registered
  <2>2. /\ reservedCompletions' = Cardinality(ActivePins')
        /\ pins' \in [PinSlots -> Pin] /\ used' \in Claim
        /\ nextLeaseGeneration' \in 1 .. MaxLeaseGeneration
    BY <1>1 DEF TreeInv, TreeTypes, Registered, ActivePins
  <2>3. TreeSound(r.slot)' /\ NodesOnly(r.slot) /\ PinsOnly(r.slot)
    BY <1>15, <1>16, <1>17, <1>18, <1>19 DEF TreeSound
  <2> QED BY <1>1, <1>9, <2>1, <2>2, <2>3, TreeStep
<1>21. Forms
  <2>1. NodesMove
    <3>1. ASSUME NEW j \in PendingOf(i)
          PROVE  <<nodes[j].state, nodes'[j].state>> \in
                    {<<"reserved", "live">>, <<"quiescing", "live">>,
                     <<"quiescing", "free_authorized">>}
      <4>1. nodes'[j].state = state
            /\ nodes[j].state = Undecided(now.pending.kind)
        BY <1>6, <1>8, <1>12
      <4> QED BY <4>1 DEF SettledRoot, Undecided
    <3> QED BY <1>7, <1>8, <3>1 DEF NodesMove, NodeMove
  <2>2. \A k \in Slots : TreeCharge(k)' = TreeCharge(k)
    BY <1>3, <1>4 DEF TreeCharge
  <2> QED BY <1>1, <2>1, <2>2, ChargesStand DEF Forms
<1> QED BY <1>20, <1>21

\* A decision handle that is accepted names the decision that is pending.
LEMMA DecisionAccepted ==
    ASSUME TreeInv, NEW t \in Batches \union Tickets \union FreePermits,
           validateDecision(t)
    PROVE  /\ t.parent \in Receipt /\ t.parent.slot \in Slots
           /\ roots[t.parent.slot] = t.root /\ t.root \in ActiveRoot
           /\ t.root \in Root /\ t.root.state = "active"
           /\ t.root.pending \in Pending
           /\ t.kind = DecisionOn(t.root.pending.kind)
           /\ TreeSound(t.parent.slot) /\ slots[t.parent.slot] \in Slot
<1>1. t \in DecisionToken
  BY TokenKinds DEF TreeInv
<1> QED BY <1>1 DEF DecisionToken, ActiveRoot, Root, Receipt, validateDecision,
                    TreeInv, TreeTypes

\* A handle to a pending decision is well formed.
LEMMA DecisionType ==
    ASSUME NEW r \in Receipt, NEW root \in ActiveRoot, NEW s \in Slot,
           NEW kind \in {"batch", "ticket", "free"},
           kind = DecisionOn(root.pending.kind)
    PROVE  {DecisionAt(kind, r, root, s)} \subseteq Token
<1> DEFINE t == DecisionAt(kind, r, root, s)
<1>1. /\ t.kind = kind /\ t.parent = r /\ t.root = root
      /\ t = [kind |-> kind, parent |-> r, root |-> root,
              requestEpoch |-> s.requestEpoch, sessionId |-> s.sessionId,
              sequence |-> s.nextSequence]
  BY DEF DecisionAt
<1>2. s.requestEpoch \in Nat /\ s.sessionId \in Nat /\ s.nextSequence \in Nat
  BY DEF Slot
<1>3. t \in DecisionToken
  <2> HIDE DEF t
  <2> QED BY <1>1, <1>2 DEF DecisionToken
<1> QED BY <1>3 DEF Token

\* A step replaces the pending decision of a root, and with it whether the tree
\* is activated or what it carries.
LEMMA RootDecides ==
    ASSUME NEW root \in ActiveRoot, NEW p \in Pending
    PROVE  LET n == [root EXCEPT !.pending = p] IN
           /\ n \in ActiveRoot /\ n.pending = p
           /\ n.identity = root.identity /\ n.ceiling = root.ceiling
           /\ n.current = root.current /\ n.funding = root.funding
           /\ n.activated = root.activated /\ n.revision = root.revision
<1>1. root \in Root /\ root.state = "active" /\ p \in Pending
  BY DEF ActiveRoot
<1>2. /\ [root EXCEPT !.pending = p] \in Root
      /\ [root EXCEPT !.pending = p].state = "active"
  BY ONLY <1>1 DEF Root
<1> QED BY <1>1, <1>2 DEF ActiveRoot, Root

\* The same when the tree is activated with it.
LEMMA RootActivates ==
    ASSUME NEW root \in ActiveRoot, NEW p \in Pending
    PROVE  LET n == [root EXCEPT !.pending = p, !.activated = TRUE] IN
           /\ n \in ActiveRoot /\ n.pending = p /\ n.activated
           /\ n.identity = root.identity /\ n.ceiling = root.ceiling
           /\ n.current = root.current /\ n.funding = root.funding
           /\ n.revision = root.revision
<1>1. root \in Root /\ root.state = "active" /\ p \in Pending
  BY DEF ActiveRoot
<1>2. /\ [root EXCEPT !.pending = p, !.activated = TRUE] \in Root
      /\ [root EXCEPT !.pending = p, !.activated = TRUE].state = "active"
  BY ONLY <1>1 DEF Root
<1> QED BY <1>1, <1>2 DEF ActiveRoot, Root

\* A root with another decision and another charge.
Carrying(root, p, c) == [root EXCEPT !.pending = p, !.current = c]

\* It is still the root of a tree.
LEMMA RootCarries ==
    ASSUME NEW root \in ActiveRoot, NEW p \in Pending, NEW c \in Claim
    PROVE  LET n == Carrying(root, p, c) IN
           /\ n \in ActiveRoot /\ n.pending = p /\ n.current = c
           /\ n.identity = root.identity /\ n.ceiling = root.ceiling
           /\ n.funding = root.funding /\ n.activated = root.activated
           /\ n.revision = root.revision
<1>1. root \in Root /\ root.state = "active" /\ p \in Pending /\ c \in Claim
  BY DEF ActiveRoot
<1>2. /\ Carrying(root, p, c) \in Root
      /\ Carrying(root, p, c).state = "active"
  BY ONLY <1>1 DEF Root, Carrying
<1> QED BY <1>1, <1>2 DEF ActiveRoot, Root, Carrying

\* The allocated leaves are live; the retired leaves are live again.
LEMMA CommitAllocationsKeeps ==
    ASSUME TreeInv, NEW t \in Batches \union Tickets,
           commitAllocationsAfterAllocate(t) \/ cancelRetire(t)
    PROVE  TreeInv' /\ Forms
<1> DEFINE i == t.parent.slot
           root == [t.root EXCEPT !.pending = NothingPending]
           g == t.root.pending.completion
<1>1. /\ validateDecision(t) /\ structuralRevisionHeadroom(i, 1, 0)
      /\ SettleLeaves(i, "live", 0)
      /\ AdvanceTree(t.parent, root, g, {t}, {})
      /\ UNCHANGED <<bankVars, pins, generationVars>>
      /\ \/ t.kind = "batch" /\ t.root.funding = "additive"
         \/ t.kind = "ticket"
  BY DEF commitAllocationsAfterAllocate, cancelRetire
<1>2. /\ t.parent \in Receipt /\ i \in Slots /\ roots[i] = t.root
      /\ t.root \in ActiveRoot /\ t.root \in Root /\ t.root.state = "active"
      /\ t.root.pending \in Pending
      /\ t.kind = DecisionOn(t.root.pending.kind)
  BY <1>1, DecisionAccepted
<1>3. /\ root \in ActiveRoot /\ root.pending = NothingPending
      /\ root.identity = t.root.identity /\ root.ceiling = t.root.ceiling
      /\ root.current = t.root.current /\ root.funding = t.root.funding
      /\ root.activated = t.root.activated /\ root.revision = t.root.revision
  BY <1>2, BlankTypes, RootDecides
<1> HIDE DEF root
<1>4. g \in Nat /\ roots[i].revision < MaxRevision
  <2>1. roots[i].revision + 1 <= MaxRevision /\ t.root.revision \in Nat
    BY <1>1, <1>2, RevisionFits DEF Root
  <2> QED BY <1>2, <2>1, TreeAssumption DEF Pending
<1>5. SettledRoot(roots[i], root, "live", 0)
  <2>1. \/ t.root.pending.kind = "allocation" /\ t.root.funding = "additive"
        \/ t.root.pending.kind = "retire"
    BY <1>1, <1>2 DEF DecisionOn, Pending
  <2>2. NothingPending.kind = "none"
    BY DEF NothingPending
  <2> QED BY <1>2, <1>3, <2>1, <2>2 DEF SettledRoot
<1> DEFINE none == {}
<1>6. /\ 0 \in Nat /\ none \subseteq Token
      /\ AdvanceTree(t.parent, root, g, {t}, none)
  BY <1>1
<1> HIDE DEF g, none
<1> QED BY <1>1, <1>2, <1>3, <1>4, <1>5, <1>6, SettleKeeps

\* So are those of the one wave of a funded tree, which is activated with them.
LEMMA ActivateKeeps ==
    ASSUME TreeInv, NEW tree \in Trees, NEW t \in Batches, NEW e, NEW id,
           NEW n, NEW last,
           commitFundedAllocationsAndActivateRestoredPublication(
               tree, t, e, id, n, last)
    PROVE  TreeInv' /\ Forms
<1> DEFINE i == t.parent.slot
           root == [t.root EXCEPT !.pending = NothingPending,
                                  !.activated = TRUE]
           g == t.root.pending.completion
<1>1. /\ validateDecision(t) /\ structuralRevisionHeadroom(i, 1, 0)
      /\ SettleLeaves(i, "live", 0) /\ t.kind = "batch"
      /\ AdvanceTree(t.parent, root, g, {t}, {})
      /\ UNCHANGED <<bankVars, pins, generationVars>>
  BY DEF commitFundedAllocationsAndActivateRestoredPublication
<1>2. /\ t.parent \in Receipt /\ i \in Slots /\ roots[i] = t.root
      /\ t.root \in ActiveRoot /\ t.root \in Root /\ t.root.state = "active"
      /\ t.root.pending \in Pending
      /\ t.kind = DecisionOn(t.root.pending.kind)
  BY <1>1, DecisionAccepted
<1>3. /\ root \in ActiveRoot /\ root.pending = NothingPending
      /\ root.identity = t.root.identity /\ root.ceiling = t.root.ceiling
      /\ root.current = t.root.current /\ root.funding = t.root.funding
      /\ root.activated /\ root.revision = t.root.revision
  BY <1>2, BlankTypes, RootActivates
<1> HIDE DEF root
<1>4. g \in Nat /\ roots[i].revision < MaxRevision
  <2>1. roots[i].revision + 1 <= MaxRevision /\ t.root.revision \in Nat
    BY <1>1, <1>2, RevisionFits DEF Root
  <2> QED BY <1>2, <2>1, TreeAssumption DEF Pending
<1>5. SettledRoot(roots[i], root, "live", 0)
  <2>1. t.root.pending.kind = "allocation"
    BY <1>1, <1>2 DEF DecisionOn, Pending
  <2>2. NothingPending.kind = "none"
    BY DEF NothingPending
  <2> QED BY <1>2, <1>3, <2>1, <2>2 DEF SettledRoot
<1> DEFINE none == {}
<1>6. /\ 0 \in Nat /\ none \subseteq Token
      /\ AdvanceTree(t.parent, root, g, {t}, none)
  BY <1>1
<1> HIDE DEF g, none
<1> QED BY <1>1, <1>2, <1>3, <1>4, <1>5, <1>6, SettleKeeps

\* The retired leaves may be freed, and wait for that under another generation.
LEMMA AuthorizeKeeps ==
    ASSUME TreeInv, NEW t \in Tickets, authorizeFree(t)
    PROVE  TreeInv' /\ Forms
<1> DEFINE i == t.parent.slot
           p == t.root.pending
           q == [p EXCEPT !.kind = "free", !.generation = p.freePermit,
                          !.completion = p.freeCompletion,
                          !.freePermit = 0, !.freeCompletion = 0]
           root == [t.root EXCEPT !.pending = q]
           settled == [root EXCEPT !.generation = p.completion,
                                   !.revision = @ + 1]
           new == {DecisionAt("free", t.parent, settled, slots[i])}
<1>1. /\ t.kind = "ticket" /\ validateDecision(t)
      /\ structuralRevisionHeadroom(i, 2, 0)
      /\ SettleLeaves(i, "free_authorized", p.freePermit)
      /\ AdvanceTree(t.parent, root, p.completion, {t}, new)
      /\ UNCHANGED <<bankVars, pins, generationVars>>
  BY DEF authorizeFree
<1>2. /\ t.parent \in Receipt /\ i \in Slots /\ roots[i] = t.root
      /\ t.root \in ActiveRoot /\ t.root \in Root /\ t.root.state = "active"
      /\ p \in Pending /\ p.kind = "retire" /\ slots[i] \in Slot
      /\ TreeSound(i)
  BY <1>1, DecisionAccepted DEF DecisionOn, Pending
<1>3. q \in Pending /\ q.kind = "free" /\ q.generation = p.freePermit
      /\ q.claim = p.claim
  <2>1. \A x \in Pending :
          LET y == [x EXCEPT !.kind = "free", !.generation = x.freePermit,
                             !.completion = x.freeCompletion,
                             !.freePermit = 0, !.freeCompletion = 0]
          IN  /\ y \in Pending /\ y.kind = "free"
              /\ y.generation = x.freePermit /\ y.claim = x.claim
    BY DEF Pending
  <2> QED BY <1>2, <2>1
<1>4. p.completion \in Nat /\ p.freePermit \in Nat /\ p.freePermit # 0
  BY <1>2 DEF Pending, TreeSound, RootSound
<1> HIDE DEF q
<1>5. /\ root \in ActiveRoot /\ root.pending = q
      /\ root.identity = t.root.identity /\ root.ceiling = t.root.ceiling
      /\ root.current = t.root.current /\ root.funding = t.root.funding
      /\ root.activated = t.root.activated /\ root.revision = t.root.revision
  BY <1>2, <1>3, RootDecides
<1> HIDE DEF root
<1>6. roots[i].revision < MaxRevision
  <2>1. roots[i].revision + 2 <= MaxRevision /\ t.root.revision \in Nat
    BY <1>1, <1>2, RevisionFits DEF Root
  <2> QED BY <1>2, <2>1, TreeAssumption DEF Root
<1>7. SettledRoot(roots[i], root, "free_authorized", p.freePermit)
  BY <1>2, <1>3, <1>4, <1>5 DEF SettledRoot
<1>8. settled = Advanced(root, p.completion)
  BY DEF Advanced
<1>9. settled \in ActiveRoot /\ settled.pending = q
  BY <1>4, <1>5, <1>8, AdvancedType
<1>10. new \subseteq Token
  <2> HIDE DEF settled
  <2> QED BY <1>2, <1>3, <1>9, DecisionType DEF DecisionOn
<1> HIDE DEF new, p
<1> QED BY <1>1, <1>2, <1>4, <1>5, <1>6, <1>7, <1>10, SettleKeeps

-----------------------------------------------------------------------------
(* Decisions that clear the leaves they are about.                         *)

\* A claim within another can be taken from it.
LEMMA SubtractWithin ==
    ASSUME NEW a \in Claim, NEW b \in Claim, claimWithin(b, a)
    PROVE  subtractClaims(a, b) \in Claim /\ claimWithin(subtractClaims(a, b), a)
BY DEF subtractClaims, claimWithin, Claim

\* What is within a part is within the whole.
LEMMA WithinTransitive ==
    ASSUME NEW a \in Claim, NEW b \in Claim, NEW c \in Claim,
           claimWithin(a, b), claimWithin(b, c)
    PROVE  claimWithin(a, c)
<1>1. ASSUME NEW k \in Classes PROVE a[k] <= c[k]
  <2>1. a[k] \in Nat /\ b[k] \in Nat /\ c[k] \in Nat
    BY DEF Claim
  <2>2. a[k] <= b[k] /\ b[k] <= c[k]
    BY DEF claimWithin
  <2> QED BY <2>1, <2>2
<1> QED BY <1>1 DEF claimWithin

\* Scope, tree and Bank lose exactly what the cleared leaves carried: the
\* decision is about those leaves and no others, and none of them is pinned.
LEMMA DropKeeps ==
    ASSUME TreeInv, NEW r \in Receipt, NEW root \in ActiveRoot, NEW g \in Nat,
           NEW i \in Slots, i = r.slot, NEW old,
           roots[i].state = "active", roots[i].revision < MaxRevision,
           roots[i].pending.kind \in {"allocation", "free"},
           root.pending.kind = "none",
           root.current = subtractClaims(roots[i].current,
                                         roots[i].pending.claim),
           root.identity = roots[i].identity, root.ceiling = roots[i].ceiling,
           root.funding = roots[i].funding,
           root.activated = roots[i].activated,
           root.revision = roots[i].revision,
           DropLeaves(i), AdvanceTree(r, root, g, old, {}),
           UNCHANGED <<slots, nextGeneration, childVars, pins, generationVars>>
    PROVE  TreeInv' /\ Forms
<1> DEFINE now == roots[i]
           gone == PendingOf(i)
           claim == now.pending.claim
<1>1. /\ slots' = slots /\ nextGeneration' = nextGeneration
      /\ children' = children /\ pins' = pins
      /\ nextLeaseGeneration' = nextLeaseGeneration
      /\ reservedCompletions' = reservedCompletions
  BY DEF childVars, generationVars
<1>2. /\ TreeSound(i) /\ nodes \in [Nodes -> Node] /\ root \in Root
      /\ now \in Root /\ used \in Claim
  BY DEF TreeInv, TreeTypes, ActiveRoot
<1>3. /\ roots'[i] = Advanced(root, g)
      /\ \A k \in Slots \ {i} : roots'[k] = roots[k]
  <2> DEFINE none == {}
  <2>1. none \subseteq Token /\ AdvanceTree(r, root, g, old, none)
    OBVIOUS
  <2> HIDE DEF none
  <2> QED BY <2>1, AdvanceKeeps
<1>4. /\ roots'[i].state = "active" /\ roots'[i].identity = now.identity
      /\ roots'[i].ceiling = now.ceiling
      /\ roots'[i].current = subtractClaims(now.current, claim)
      /\ roots'[i].funding = now.funding
      /\ roots'[i].activated = now.activated
      /\ roots'[i].pending.kind = "none"
      /\ roots'[i].revision = now.revision + 1
  BY <1>2, <1>3, AdvancedFields DEF ActiveRoot
<1>5. /\ LeavesOf(i) \subseteq NodesOf(i) /\ gone \subseteq LeavesOf(i)
      /\ NodesOf(i) \subseteq Nodes /\ gone \in SUBSET Nodes
      /\ LeavesOf(i) \in SUBSET Nodes
      /\ \A j : LeavesBelow(j) \in SUBSET Nodes
      /\ \A j \in NodesOf(i) : nodes[j].slot = i /\ nodes[j].state # "free"
      /\ \A j \in LeavesOf(i) : nodes[j].kind = "allocation"
  BY DEF LeavesOf, PendingOf, NodesOf, LeavesBelow
<1>6. \A j \in LeavesOf(i) :
        /\ LeafSound(i, j) /\ j \in Nodes
        /\ j \notin gone => nodes[j].state = "live"
        /\ j \in gone => /\ nodes[j].state = Undecided(now.pending.kind)
                         /\ nodes[j].state \in {"reserved", "free_authorized"}
                         /\ nodes[j].pinCount = 0
  BY <1>2, <1>5 DEF TreeSound, LeavesSound, LeafSound, Undecided
<1> DEFINE share(j) == Total(nodes, LeavesBelow(j) \intersect gone)
<1>7. \A j \in Nodes :
        nodes'[j] = IF j \in gone THEN FreeNode
                    ELSE IF j \in NodesOf(i) /\ nodes[j].kind = "scope"
                    THEN [nodes[j] EXCEPT
                            !.subtree = subtractClaims(nodes[j].subtree,
                                                       share(j))]
                    ELSE nodes[j]
  BY DEF DropLeaves, ClaimOf, Total
<1>8. /\ UnchargeUsed(i, claim) /\ DOMAIN nodes' = Nodes
      /\ nodes' = [j \in Nodes |-> nodes'[j]]
  BY DEF DropLeaves
<1>9. \A j \in NodesOf(i) : nodes[j].kind = "scope" =>
        /\ subtractClaims(nodes[j].subtree, share(j)) \in Claim
        /\ subtractClaims(nodes[j].subtree, share(j))
              = Total(nodes, LeavesBelow(j) \ gone)
        /\ claimWithin(subtractClaims(nodes[j].subtree, share(j)),
                       nodes[j].ceiling)
  <2> SUFFICES ASSUME NEW j \in NodesOf(i), nodes[j].kind = "scope"
               PROVE  /\ subtractClaims(nodes[j].subtree, share(j)) \in Claim
                      /\ subtractClaims(nodes[j].subtree, share(j))
                            = Total(nodes, LeavesBelow(j) \ gone)
                      /\ claimWithin(subtractClaims(nodes[j].subtree, share(j)),
                                     nodes[j].ceiling)
    OBVIOUS
  <2>1. /\ nodes[j].subtree = Total(nodes, LeavesBelow(j))
        /\ claimWithin(nodes[j].subtree, nodes[j].ceiling)
        /\ nodes[j].subtree \in Claim /\ nodes[j].ceiling \in Claim
    BY <1>2, <1>5 DEF TreeSound, SumsSound, Node
  <2> DEFINE A == LeavesBelow(j)
             B == LeavesBelow(j) \intersect gone
  <2>2. A \in SUBSET Nodes /\ B \in SUBSET A /\ A \ B = A \ gone
        /\ B \in SUBSET Nodes
    BY <1>5
  <2> HIDE DEF A, B
  <2>3. /\ claimWithin(Total(nodes, B), Total(nodes, A))
        /\ Total(nodes, A \ B) = subtractClaims(Total(nodes, A),
                                                Total(nodes, B))
        /\ Total(nodes, B) \in Claim
    BY <1>2, <2>2, NodesRest, NodesTotal
  <2>4. /\ nodes[j].subtree = Total(nodes, A) /\ share(j) = Total(nodes, B)
    BY <2>1 DEF A, B
  <2> HIDE DEF share
  <2>5. /\ share(j) \in Claim /\ claimWithin(share(j), nodes[j].subtree)
        /\ subtractClaims(nodes[j].subtree, share(j)) = Total(nodes, A \ gone)
    BY <2>2, <2>3, <2>4
  <2>6. /\ subtractClaims(nodes[j].subtree, share(j)) \in Claim
        /\ claimWithin(subtractClaims(nodes[j].subtree, share(j)),
                       nodes[j].subtree)
    BY <2>1, <2>5, SubtractWithin
  <2>7. claimWithin(subtractClaims(nodes[j].subtree, share(j)),
                    nodes[j].ceiling)
    BY <2>1, <2>6, WithinTransitive
  <2> QED BY <2>5, <2>6, <2>7 DEF A
<1> HIDE DEF share
<1>10. \A j \in Nodes \ gone :
         /\ nodes'[j] \in Node
         /\ nodes'[j].kind = nodes[j].kind /\ nodes'[j].slot = nodes[j].slot
         /\ nodes'[j].tree = nodes[j].tree
         /\ nodes'[j].generation = nodes[j].generation
         /\ nodes'[j].parent = nodes[j].parent
         /\ nodes'[j].ceiling = nodes[j].ceiling
         /\ nodes'[j].state = nodes[j].state
         /\ nodes'[j].pending = nodes[j].pending
         /\ nodes'[j].pinCount = nodes[j].pinCount
         /\ j \in NodesOf(i) /\ nodes[j].kind = "scope" =>
               nodes'[j].subtree = subtractClaims(nodes[j].subtree, share(j))
         /\ ~(j \in NodesOf(i) /\ nodes[j].kind = "scope") =>
               nodes'[j] = nodes[j]
  <2> SUFFICES ASSUME NEW j \in Nodes \ gone
               PROVE  /\ nodes'[j] \in Node
                      /\ nodes'[j].kind = nodes[j].kind
                      /\ nodes'[j].slot = nodes[j].slot
                      /\ nodes'[j].tree = nodes[j].tree
                      /\ nodes'[j].generation = nodes[j].generation
                      /\ nodes'[j].parent = nodes[j].parent
                      /\ nodes'[j].ceiling = nodes[j].ceiling
                      /\ nodes'[j].state = nodes[j].state
                      /\ nodes'[j].pending = nodes[j].pending
                      /\ nodes'[j].pinCount = nodes[j].pinCount
                      /\ j \in NodesOf(i) /\ nodes[j].kind = "scope" =>
                            nodes'[j].subtree
                               = subtractClaims(nodes[j].subtree, share(j))
                      /\ ~(j \in NodesOf(i) /\ nodes[j].kind = "scope") =>
                            nodes'[j] = nodes[j]
    OBVIOUS
  <2>1. CASE j \in NodesOf(i) /\ nodes[j].kind = "scope"
    <3> DEFINE c == subtractClaims(nodes[j].subtree, share(j))
    <3>1. c \in Claim /\ nodes[j] \in Node
      BY <1>2, <1>9, <2>1
    <3>2. nodes'[j] = [nodes[j] EXCEPT !.subtree = c]
      BY <1>7, <2>1
    <3>3. c = subtractClaims(nodes[j].subtree, share(j))
      OBVIOUS
    <3> HIDE DEF c
    <3>4. LET m == [nodes[j] EXCEPT !.subtree = c] IN
           /\ m \in Node /\ m.subtree = c /\ m.state = nodes[j].state
           /\ m.pending = nodes[j].pending /\ m.kind = nodes[j].kind
           /\ m.slot = nodes[j].slot /\ m.tree = nodes[j].tree
           /\ m.generation = nodes[j].generation
           /\ m.parent = nodes[j].parent /\ m.ceiling = nodes[j].ceiling
           /\ m.pinCount = nodes[j].pinCount
      BY ONLY <3>1 DEF Node
    <3> QED BY <2>1, <3>2, <3>3, <3>4
  <2>2. CASE ~(j \in NodesOf(i) /\ nodes[j].kind = "scope")
    BY <1>2, <1>7, <2>2
  <2> QED BY <2>1, <2>2
<1>11. \A j \in gone : nodes'[j] = FreeNode /\ nodes'[j].state = "free"
                       /\ j \in Nodes
  <2>1. FreeNode.state = "free"
    BY DEF FreeNode
  <2>2. \A j \in gone : j \in Nodes
    BY <1>5
  <2> QED BY <1>7, <2>1, <2>2
<1>12. nodes' \in [Nodes -> Node]
  <2>1. \A j \in Nodes : nodes'[j] \in Node
    BY <1>10, <1>11, BlankTypes
  <2> QED BY <1>8, <2>1
<1>13. /\ NodesOf(i)' = NodesOf(i) \ gone
       /\ LeavesOf(i)' = LeavesOf(i) \ gone
       /\ \A j \in NodesOf(i) \ gone :
             LeavesBelow(j)' = LeavesBelow(j) \ gone
  <2>1. NodesOf(i)' = NodesOf(i) \ gone
    BY <1>10, <1>11 DEF NodesOf
  <2>2. LeavesOf(i)' = LeavesOf(i) \ gone
    BY <1>5, <1>10, <2>1 DEF LeavesOf
  <2>3. ASSUME NEW j \in NodesOf(i) \ gone
        PROVE  LeavesBelow(j)' = LeavesBelow(j) \ gone
    <3>1. nodes'[j].slot = i /\ nodes[j].slot = i
      BY <1>5, <1>10
    <3>2. \A l \in LeavesOf(i) \ gone : nodes'[l].parent = nodes[l].parent
      BY <1>5, <1>10
    <3> QED BY <2>2, <3>1, <3>2 DEF LeavesBelow
  <2> QED BY <2>1, <2>2, <2>3
<1>14. \A S \in SUBSET (LeavesOf(i) \ gone) : Total(nodes', S) = Total(nodes, S)
  <2>1. \A j \in LeavesOf(i) \ gone : nodes'[j] = nodes[j]
    BY <1>5, <1>10
  <2> QED BY <2>1, NodesAgree
<1>15. /\ claim = Total(nodes, gone) /\ claim \in Claim
       /\ now.current = Total(nodes, LeavesOf(i)) /\ now.current \in Claim
       /\ claimWithin(claim, now.current)
       /\ subtractClaims(now.current, claim) = Total(nodes, LeavesOf(i) \ gone)
       /\ subtractClaims(now.current, claim) \in Claim
       /\ claimWithin(subtractClaims(now.current, claim), now.current)
  <2>1. claim = Total(nodes, gone) /\ now.current = Total(nodes, LeavesOf(i))
    BY <1>2 DEF TreeSound, RootSound, SumsSound
  <2>2. /\ claimWithin(Total(nodes, gone), Total(nodes, LeavesOf(i)))
        /\ Total(nodes, LeavesOf(i) \ gone)
              = subtractClaims(Total(nodes, LeavesOf(i)), Total(nodes, gone))
        /\ Total(nodes, gone) \in Claim
        /\ Total(nodes, LeavesOf(i)) \in Claim
    <3> HIDE DEF gone
    <3> QED BY <1>2, <1>5, NodesRest, NodesTotal
  <2> QED BY <2>1, <2>2, SubtractWithin
<1>16. RootSound(i)'
  <2>1. now.revision + 1 \in 0 .. MaxRevision
    BY <1>2, TreeAssumption DEF TreeSound, RootSound
  <2> QED BY <1>1, <1>2, <1>4, <2>1 DEF TreeSound, RootSound
<1>17. SumsSound(i)'
  <2>1. roots'[i].current = Total(nodes', LeavesOf(i)')
    BY <1>4, <1>13, <1>14, <1>15
  <2>2. claimWithin(roots'[i].current, roots'[i].ceiling)
    <3>1. claimWithin(now.current, now.ceiling) /\ now.ceiling \in Claim
      BY <1>2 DEF TreeSound, SumsSound, Root
    <3> QED BY <1>4, <1>15, <3>1, WithinTransitive
  <2>3. ASSUME NEW j \in NodesOf(i)', nodes'[j].kind = "scope"
        PROVE  /\ nodes'[j].subtree = Total(nodes', LeavesBelow(j)')
               /\ claimWithin(nodes'[j].subtree, nodes'[j].ceiling)
    <3>1. j \in NodesOf(i) \ gone /\ j \in Nodes \ gone
          /\ nodes[j].kind = "scope" /\ nodes[j].slot = i
      BY <1>5, <1>10, <1>13, <2>3
    <3>2. LeavesBelow(j) \ gone \in SUBSET (LeavesOf(i) \ gone)
      BY <3>1 DEF LeavesBelow
    <3>3. Total(nodes', LeavesBelow(j)') = Total(nodes, LeavesBelow(j) \ gone)
      BY <1>13, <1>14, <3>1, <3>2
    <3> QED BY <1>9, <1>10, <3>1, <3>3
  <2> QED BY <2>1, <2>2, <2>3 DEF SumsSound
<1>18. LeavesSound(i)'
  <2>1. ASSUME NEW j \in LeavesOf(i)' PROVE LeafSound(i, j)'
    <3>1. /\ j \in LeavesOf(i) \ gone /\ j \in Nodes \ gone
          /\ LeafSound(i, j) /\ nodes[j].state = "live"
      BY <1>5, <1>6, <1>13
    <3>2. /\ nodes[j].parent \in NodesOf(i)
          /\ nodes[nodes[j].parent].kind = "scope"
      BY <3>1 DEF LeafSound
    <3>3. nodes[j].parent \in NodesOf(i) \ gone
          /\ nodes[j].parent \in Nodes \ gone
      BY <1>5, <3>2
    <3>4. PendingOf(i)' = {}
      BY <1>4 DEF PendingOf
    <3>5. nodes'[j] = nodes[j] /\ nodes'[nodes[j].parent].kind = "scope"
      BY <1>5, <1>10, <3>1, <3>2, <3>3
    <3> QED BY <1>4, <1>13, <3>1, <3>3, <3>4, <3>5 DEF LeafSound
  <2>2. \A j \in NodesOf(i)' : nodes'[j].tree = roots'[i].identity
    BY <1>2, <1>4, <1>5, <1>10, <1>13 DEF TreeSound, LeavesSound
  <2> QED BY <2>1, <2>2 DEF LeavesSound
<1>19. PinsSound(i)'
  <2>1. PinsOf(i)' = PinsOf(i)
    BY <1>1 DEF PinsOf
  <2>2. ASSUME NEW p \in PinsOf(i), NEW j \in gone PROVE j \notin pins[p].members
    <3>1. nodes[j].pinCount = Cardinality({q \in PinsOf(i) :
                                              j \in pins[q].members})
          /\ nodes[j].pinCount = 0
      BY <1>2, <1>5, <1>6 DEF TreeSound, PinsSound
    <3>2. {q \in PinsOf(i) : j \in pins[q].members} \in SUBSET PinSlots
      BY DEF PinsOf
    <3>3. {q \in PinsOf(i) : j \in pins[q].members} = {}
      BY <3>1, <3>2, PinsFinite, FS_EmptySet
    <3> QED BY <3>3
  <2>3. \A j \in NodesOf(i)' : nodes'[j].pinCount = nodes[j].pinCount
                               /\ j \in NodesOf(i)
    BY <1>5, <1>10, <1>13
  <2> QED BY <1>1, <1>2, <1>4, <1>13, <2>1, <2>2, <2>3 DEF TreeSound, PinsSound
<1>20. /\ used' \in Claim
       /\ used' = IF now.funding = "additive"
                  THEN subtractClaims(used, claim) ELSE used
  BY <1>2, <1>8, <1>15, SubtractWithin DEF UnchargeUsed
<1>21. TreeInv'
  <2>1. NodesOnly(i) /\ PinsOnly(i)
    BY <1>1, <1>5, <1>10, <1>11 DEF NodesOnly, PinsOnly, InTree
  <2>2. \A j \in Nodes : nodes'[j].state = "free" => nodes'[j] = FreeNode
    BY <1>5, <1>10, <1>11 DEF TreeInv, Registered
  <2>3. /\ reservedCompletions' = Cardinality(ActivePins')
        /\ pins' \in [PinSlots -> Pin]
        /\ nextLeaseGeneration' \in 1 .. MaxLeaseGeneration
    BY <1>1 DEF TreeInv, TreeTypes, Registered, ActivePins
  <2>4. TreeSound(r.slot)' /\ NodesOnly(r.slot) /\ PinsOnly(r.slot)
    BY <1>16, <1>17, <1>18, <1>19, <2>1 DEF TreeSound
  <2> DEFINE none == {}
  <2>5. none \subseteq Token /\ AdvanceTree(r, root, g, old, none)
    OBVIOUS
  <2> HIDE DEF none
  <2> QED BY <1>1, <1>12, <1>20, <2>2, <2>3, <2>4, <2>5, TreeStep
<1>22. Forms
  <2>1. NodesMove
    <3>1. \A j \in gone : nodes[j].state \in {"reserved", "free_authorized"}
      BY <1>5, <1>6
    <3>2. ASSUME NEW j \in Nodes \ gone, nodes[j].state # "free"
          PROVE  NodeMove(nodes[j], nodes'[j])
      <4>1. /\ nodes'[j].generation = nodes[j].generation
            /\ nodes'[j].kind = nodes[j].kind
            /\ nodes'[j].state = nodes[j].state
            /\ nodes[j].state \in {"reserved", "live", "quiescing",
                                   "free_authorized"}
        BY <1>2, <1>10, <3>2 DEF Node
      <4> QED BY <4>1 DEF NodeMove
    <3> QED BY <1>11, <3>1, <3>2 DEF NodesMove, NodeMove
  <2>2. CASE now.funding = "additive"
    <3>1. /\ TreeCharge(i) = now.current
          /\ TreeCharge(i)' = subtractClaims(now.current, claim)
      BY <1>4, <2>2 DEF TreeCharge
    <3>2. \A k \in Slots \ {i} : TreeCharge(k)' = TreeCharge(k)
      BY <1>3 DEF TreeCharge
    <3>3. used' = addClaims(subtractClaims(used, now.current),
                            subtractClaims(now.current, claim))
      <4>1. \A a, b, c \in Claim :
              subtractClaims(a, c) = addClaims(subtractClaims(a, b),
                                               subtractClaims(b, c))
        BY DEF subtractClaims, addClaims, Claim
      <4> QED BY <1>2, <1>15, <1>20, <2>2, <4>1
    <3>4. TreeLedger!Next
      BY <1>1, <1>15, <3>1, <3>2, <3>3, ChargeMoves
    <3> QED BY <2>1, <3>4 DEF Forms, LedgerMove
  <2>3. CASE now.funding # "additive"
    <3>1. \A k \in Slots : TreeCharge(k)' = TreeCharge(k)
      BY <1>3, <1>4, <2>3 DEF TreeCharge
    <3> QED BY <1>1, <1>20, <2>1, <2>3, <3>1, ChargesStand DEF Forms
  <2> QED BY <2>2, <2>3
<1> QED BY <1>21, <1>22

\* The aborted or freed leaves are cleared.
LEMMA AbortKeeps ==
    ASSUME TreeInv, NEW t \in Batches \union FreePermits,
           abortAllocationsAfterFree(t) \/ commitFreeAfterAllocatorFree(t)
    PROVE  TreeInv' /\ Forms
<1> DEFINE i == t.parent.slot
           left == subtractClaims(t.root.current, t.root.pending.claim)
           root == [t.root EXCEPT !.pending = NothingPending, !.current = left]
           g == t.root.pending.completion
           old == {t} \union LeafHandles(t.parent, PendingOf(i))
<1>1. /\ validateDecision(t) /\ structuralRevisionHeadroom(i, 1, 0)
      /\ DropLeaves(i) /\ t.kind \in {"batch", "free"}
      /\ AdvanceTree(t.parent, root, g, old, {})
      /\ UNCHANGED <<slots, nextGeneration, childVars, pins, generationVars>>
  BY DEF abortAllocationsAfterFree, commitFreeAfterAllocatorFree
<1>2. /\ t.parent \in Receipt /\ i \in Slots /\ roots[i] = t.root
      /\ t.root \in ActiveRoot /\ t.root \in Root /\ t.root.state = "active"
      /\ t.root.pending \in Pending /\ TreeSound(i)
      /\ t.kind = DecisionOn(t.root.pending.kind)
  BY <1>1, DecisionAccepted
<1>3. t.root.pending.kind \in {"allocation", "free"}
  BY <1>1, <1>2 DEF DecisionOn, Pending
<1>4. left \in Claim
  <2>1. /\ t.root.pending.claim = Total(nodes, PendingOf(i))
        /\ t.root.current = Total(nodes, LeavesOf(i))
    BY <1>2, <1>3 DEF TreeSound, RootSound, SumsSound
  <2>2. /\ LeavesOf(i) \in SUBSET Nodes /\ PendingOf(i) \in SUBSET LeavesOf(i)
        /\ nodes \in [Nodes -> Node]
    BY DEF LeavesOf, NodesOf, PendingOf, TreeInv, TreeTypes
  <2>3. claimWithin(Total(nodes, PendingOf(i)), Total(nodes, LeavesOf(i)))
    BY <2>2, NodesRest
  <2>4. t.root.current \in Claim /\ t.root.pending.claim \in Claim
    BY <1>2 DEF Root, Pending
  <2> QED BY <2>1, <2>3, <2>4, SubtractWithin
<1> HIDE DEF left
<1>5. /\ root \in ActiveRoot /\ root.pending = NothingPending
      /\ root.current = left
      /\ root.identity = t.root.identity /\ root.ceiling = t.root.ceiling
      /\ root.funding = t.root.funding
      /\ root.activated = t.root.activated /\ root.revision = t.root.revision
  <2>1. t.root \in ActiveRoot /\ left \in Claim /\ NothingPending \in Pending
    BY <1>2, <1>4, BlankTypes
  <2>2. root = Carrying(t.root, NothingPending, left)
    BY DEF Carrying
  <2> HIDE DEF root
  <2> QED BY <2>1, <2>2, RootCarries
<1> HIDE DEF root
<1>6. g \in Nat /\ roots[i].revision < MaxRevision
  <2>1. roots[i].revision + 1 <= MaxRevision /\ t.root.revision \in Nat
    BY <1>1, <1>2, RevisionFits DEF Root
  <2> QED BY <1>2, <2>1, TreeAssumption DEF Pending
<1>7. /\ root.pending.kind = "none"
      /\ root.current = subtractClaims(roots[i].current,
                                       roots[i].pending.claim)
  BY <1>2, <1>5 DEF NothingPending, left
<1> HIDE DEF g, old
<1> QED BY <1>1, <1>2, <1>3, <1>5, <1>6, <1>7, DropKeeps

-----------------------------------------------------------------------------
(* Closing a tree.                                                         *)

\* A tree without leaves carries nothing and holds no pins: its scopes are
\* cleared with its root, and the receipt may go with it.
LEMMA ClearKeeps ==
    ASSUME TreeInv, NEW t \in Trees, NEW old, validateLeaseTree(t),
           ClearTree(t, old),
           \/ slots' = slots /\ used' = used
           \/ /\ t.root.funding = "funded"
              /\ claimWithin(t.parent.claim, used)
              /\ used' = subtractClaims(used, t.parent.claim)
              /\ slots' = [slots EXCEPT ![t.parent.slot] = FreeSlot]
    PROVE  TreeInv' /\ Forms
<1> DEFINE i == t.parent.slot
<1>1. /\ t.root.pending.kind = "none" /\ t.root.current = ZeroClaim
      /\ LeavesOf(i) = {}
      /\ nodes' = [j \in Nodes |-> IF j \in NodesOf(i) THEN FreeNode
                                                       ELSE nodes[j]]
      /\ roots' = [roots EXCEPT ![i] = FreeRoot]
      /\ Exchange({t} \union LeafHandles(t.parent, NodesOf(i)) \union old, {})
      /\ nextGeneration' = nextGeneration /\ children' = children
      /\ pins' = pins /\ nextLeaseGeneration' = nextLeaseGeneration
      /\ reservedCompletions' = reservedCompletions
  BY DEF ClearTree, childVars, generationVars
<1>2. /\ t.parent \in Receipt /\ i \in Slots /\ roots[i] = t.root
      /\ t.root \in ActiveRoot /\ TreeSound(i) /\ t.parent.claim \in Claim
      /\ slots[i].claim = t.parent.claim
  BY TreeAccepted DEF Receipt
<1>3. /\ slots \in [Slots -> Slot] /\ roots \in [Slots -> Root]
      /\ nodes \in [Nodes -> Node] /\ pins \in [PinSlots -> Pin]
      /\ used \in Claim /\ issued \subseteq Token
  BY DEF TreeInv, TreeTypes
<1>4. /\ slots' \in [Slots -> Slot]
      /\ \A k \in Slots \ {i} : slots'[k] = slots[k]
      /\ slots' = slots \/ slots'[i] = FreeSlot
  BY <1>2, <1>3, FreeTypes
<1>5. used' \in Claim
  BY <1>2, <1>3, SubtractType
<1>6. /\ roots' \in [Slots -> Root] /\ roots'[i] = FreeRoot
      /\ \A k \in Slots \ {i} : roots'[k] = roots[k]
  BY <1>1, <1>2, <1>3, BlankTypes
<1>7. nodes' \in [Nodes -> Node]
  BY <1>1, <1>3, BlankTypes
<1>8. \A j \in Nodes : /\ j \in NodesOf(i) => nodes'[j] = FreeNode
                       /\ j \notin NodesOf(i) => nodes'[j] = nodes[j]
  BY <1>1
<1>9. issued' \subseteq Token
  BY <1>1, <1>3 DEF Exchange
<1>10. TreeTypes' /\ Registered'
  <2>1. TreeTypes'
    BY <1>1, <1>3, <1>4, <1>5, <1>6, <1>7, <1>9 DEF TreeInv, TreeTypes
  <2>2. \A j \in Nodes : nodes'[j].state = "free" => nodes'[j] = FreeNode
    BY <1>8 DEF TreeInv, Registered
  <2>3. \A k \in Slots : slots'[k].state = "free" => slots'[k] = FreeSlot
    BY <1>4 DEF TreeInv, Registered
  <2>4. reservedCompletions' = Cardinality(ActivePins')
    BY <1>1 DEF TreeInv, Registered, ActivePins
  <2> QED BY <2>1, <2>2, <2>3, <2>4 DEF Registered
<1>11. PinsOf(i) = {}
  BY <1>1, <1>2 DEF TreeSound, PinsSound
<1>12. NodesOf(i)' = {} /\ LeavesOf(i)' = {} /\ PinsOf(i)' = {}
  <2>1. FreeNode.state = "free"
    BY DEF FreeNode
  <2>2. NodesOf(i)' = {}
    BY <1>8, <2>1 DEF NodesOf
  <2>3. LeavesOf(i)' = {} /\ PinsOf(i)' = {}
    BY <1>1, <1>11, <2>2 DEF LeavesOf, PinsOf
  <2> QED BY <2>2, <2>3
<1>13. TreeSound(i)'
  <2>1. FreeRoot.state = "free" /\ FreeRoot.current = ZeroClaim
        /\ FreeRoot.ceiling = ZeroClaim
    BY DEF FreeRoot
  <2>2. Total(nodes', {}) = ZeroClaim
    BY <1>7, NodesTotal
  <2>3. claimWithin(ZeroClaim, ZeroClaim)
    BY DEF claimWithin, ZeroClaim
  <2> QED BY <1>6, <1>12, <2>1, <2>2, <2>3
          DEF TreeSound, RootSound, SumsSound, LeavesSound, PinsSound
<1>14. TreeInv'
  <2>1. FreeNode.state = "free" /\ \A j \in NodesOf(i) : nodes[j].slot = i
    BY DEF FreeNode, NodesOf
  <2>2. NodesOnly(i) /\ PinsOnly(i)
    BY <1>1, <1>8, <2>1 DEF NodesOnly, PinsOnly, InTree
  <2> QED BY <1>2, <1>4, <1>6, <1>10, <1>13, <2>2, TreeFrame
<1>15. Forms
  <2>1. NodesMove
    <3>1. \A j \in NodesOf(i) : j \in Nodes /\ nodes[j].kind = "scope"
      BY <1>1, <1>3 DEF NodesOf, LeavesOf, Node
    <3>2. FreeNode.state = "free"
      BY DEF FreeNode
    <3> QED BY <1>8, <3>1, <3>2 DEF NodesMove, NodeMove
  <2>2. /\ TreeCharge(i) = ZeroClaim /\ TreeCharge(i)' = ZeroClaim
        /\ \A k \in Slots : TreeCharge(k)' = TreeCharge(k)
    BY <1>1, <1>2, <1>6 DEF TreeCharge, FreeRoot
  <2>3. CASE slots' = slots /\ used' = used
    BY <2>1, <2>2, <2>3, ChargesStand DEF Forms
  <2>4. CASE /\ t.root.funding = "funded"
             /\ claimWithin(t.parent.claim, used)
             /\ used' = subtractClaims(used, t.parent.claim)
             /\ slots' = [slots EXCEPT ![t.parent.slot] = FreeSlot]
    <3>1. slots'[i].claim = ZeroClaim
      BY <1>2, <1>3, <2>4 DEF FreeSlot
    <3>2. used' = addClaims(subtractClaims(used, slots[i].claim),
                            slots'[i].claim)
      <4>1. addClaims(used', ZeroClaim) = used'
        BY <1>5 DEF addClaims, ZeroClaim, Claim
      <4> QED BY <1>2, <2>4, <3>1, <4>1
    <3>3. claimWithin(slots'[i].claim, slots[i].claim)
      BY <1>2, <3>1 DEF ZeroClaim, Claim, claimWithin
    <3>4. TreeLedger!Next
      BY <1>2, <1>4, <2>2, <3>1, <3>2, <3>3, ZeroClaimType, ChargeMoves
    <3> QED BY <2>1, <3>4 DEF Forms, LedgerMove
  <2> QED BY <2>3, <2>4
<1> QED BY <1>14, <1>15

\* The two ways to close a tree.
LEMMA CloseKeeps ==
    ASSUME TreeInv, NEW t \in Trees, NEW e, NEW id, NEW n,
           \/ closeLeaseTree(t)
           \/ closeActivatedRestoredPublicationSession(t, e, id, n)
    PROVE  TreeInv' /\ Forms
<1>1. CASE closeLeaseTree(t)
  <2>1. /\ validateLeaseTree(t) /\ ClearTree(t, {})
        /\ slots' = slots /\ used' = used
    BY <1>1 DEF closeLeaseTree
  <2> QED BY <2>1, ClearKeeps
<1>2. CASE closeActivatedRestoredPublicationSession(t, e, id, n)
  <2>1. /\ validateLeaseTree(t) /\ ClearTree(t, {t.parent})
        /\ t.root.funding = "funded"
        /\ claimWithin(t.parent.claim, used)
        /\ used' = subtractClaims(used, t.parent.claim)
        /\ slots' = [slots EXCEPT ![t.parent.slot] = FreeSlot]
    BY <1>2 DEF closeActivatedRestoredPublicationSession
  <2> QED BY <2>1, ClearKeeps
<1> QED BY <1>1, <1>2

-----------------------------------------------------------------------------
(* Command pins.                                                           *)

\* A leaf with another pin count.
Counting(n, c) == [n EXCEPT !.pinCount = c]

\* It is otherwise the same leaf.
LEMMA LeafCounts ==
    ASSUME NEW n \in Node, NEW c \in Nat
    PROVE  LET m == Counting(n, c) IN
           /\ m \in Node /\ m.pinCount = c /\ m.state = n.state
           /\ m.pending = n.pending /\ m.kind = n.kind /\ m.slot = n.slot
           /\ m.tree = n.tree /\ m.generation = n.generation
           /\ m.parent = n.parent /\ m.ceiling = n.ceiling
           /\ m.subtree = n.subtree
<1>1. n \in Node /\ c \in Nat
  OBVIOUS
<1> QED BY ONLY <1>1 DEF Node, Counting

Recount(members, count) ==
    /\ nodes' = [j \in Nodes |-> nodes'[j]]
    /\ \A j \in Nodes :
          nodes'[j] = IF j \in members THEN Counting(nodes[j], count[j])
                                       ELSE nodes[j]

\* The pins of slot i afterwards, and how many of them hold each leaf.
PinsAfter(i, root, members, count) ==
    /\ Cardinality(PinsOf(i)') <= slots[i].claim[QueueClass]
    /\ \A p \in PinsOf(i)' :
          /\ pins'[p].tree = root.identity /\ pins'[p].members # {}
          /\ pins'[p].members \subseteq LeavesOf(i)
    /\ \A j \in NodesOf(i) :
          Cardinality({p \in PinsOf(i)' : j \in pins'[p].members})
             = IF j \in members THEN count[j] ELSE nodes[j].pinCount

\* When the leaves that are pinned or unpinned change in nothing but their
\* count, and the count is that of the pins afterwards, the tree stays sound.
LEMMA CountKeeps ==
    ASSUME TreeInv, NEW r \in Receipt, NEW root \in ActiveRoot, NEW g \in Nat,
           NEW i \in Slots, i = r.slot, NEW old, NEW new, new \subseteq Token,
           roots[i] = root, root.pending.kind = "none",
           root.revision < MaxRevision,
           AdvanceTree(r, root, g, old, new), UNCHANGED bankVars,
           NEW members \in SUBSET LeavesOf(i), NEW count \in [Nodes -> Nat],
           \A j \in members : nodes[j].state = "live",
           Recount(members, count), pins' \in [PinSlots -> Pin], PinsOnly(i),
           PinsAfter(i, root, members, count),
           nextLeaseGeneration' \in 1 .. MaxLeaseGeneration,
           reservedCompletions' = Cardinality(ActivePins')
    PROVE  TreeInv' /\ Forms
<1>1. /\ slots' = slots /\ used' = used /\ nextGeneration' = nextGeneration
      /\ children' = children
  BY DEF bankVars, childVars
<1>2. /\ TreeSound(i) /\ nodes \in [Nodes -> Node] /\ root \in Root
      /\ root.state = "active"
  BY DEF TreeInv, TreeTypes, ActiveRoot
<1>3. /\ roots'[i] = Advanced(root, g)
      /\ \A k \in Slots \ {i} : roots'[k] = roots[k]
  BY AdvanceKeeps
<1>4. /\ roots'[i].state = "active" /\ roots'[i].identity = root.identity
      /\ roots'[i].ceiling = root.ceiling /\ roots'[i].current = root.current
      /\ roots'[i].funding = root.funding
      /\ roots'[i].activated = root.activated
      /\ roots'[i].pending.kind = "none"
      /\ roots'[i].revision = root.revision + 1
  BY <1>2, <1>3, AdvancedFields
<1>5. /\ LeavesOf(i) \subseteq NodesOf(i) /\ NodesOf(i) \subseteq Nodes
      /\ \A j \in NodesOf(i) : nodes[j].slot = i
      /\ \A j \in Nodes : LeavesBelow(j) \subseteq Nodes
      /\ members \subseteq NodesOf(i)
  BY DEF LeavesOf, NodesOf, LeavesBelow
<1>6. \A j \in Nodes :
        /\ nodes'[j] \in Node
        /\ nodes'[j].kind = nodes[j].kind /\ nodes'[j].slot = nodes[j].slot
        /\ nodes'[j].tree = nodes[j].tree
        /\ nodes'[j].generation = nodes[j].generation
        /\ nodes'[j].parent = nodes[j].parent
        /\ nodes'[j].ceiling = nodes[j].ceiling
        /\ nodes'[j].subtree = nodes[j].subtree
        /\ nodes'[j].state = nodes[j].state
        /\ nodes'[j].pending = nodes[j].pending
        /\ nodes'[j].pinCount = IF j \in members THEN count[j]
                                                 ELSE nodes[j].pinCount
  BY <1>2, LeafCounts DEF Recount
<1>7. nodes' \in [Nodes -> Node]
  BY <1>6 DEF Recount
<1>8. /\ NodesOf(i)' = NodesOf(i) /\ LeavesOf(i)' = LeavesOf(i)
      /\ \A j \in NodesOf(i) : LeavesBelow(j)' = LeavesBelow(j)
      /\ PendingOf(i) = {} /\ PendingOf(i)' = {}
  <2>1. NodesOf(i)' = NodesOf(i)
    BY <1>6 DEF NodesOf
  <2>2. LeavesOf(i)' = LeavesOf(i)
    BY <1>5, <1>6, <2>1 DEF LeavesOf
  <2>3. \A j \in NodesOf(i) : LeavesBelow(j)' = LeavesBelow(j)
    <3>1. \A j \in NodesOf(i) : nodes[j].slot = i /\ nodes'[j].slot = i
      BY <1>5, <1>6
    <3>2. \A l \in LeavesOf(i) : nodes'[l].parent = nodes[l].parent
      BY <1>5, <1>6
    <3> QED BY <2>2, <3>1, <3>2 DEF LeavesBelow
  <2> QED BY <1>4, <2>1, <2>2, <2>3 DEF PendingOf
<1>9. \A S \in SUBSET Nodes : Total(nodes', S) = Total(nodes, S)
  BY <1>6, NodesAgree
<1>10. RootSound(i)'
  <2>1. root.revision + 1 \in 0 .. MaxRevision
    BY <1>2, TreeAssumption DEF TreeSound, RootSound
  <2> QED BY <1>1, <1>2, <1>4, <2>1 DEF TreeSound, RootSound
<1>11. SumsSound(i)'
  <2>1. Total(nodes', LeavesOf(i)') = Total(nodes, LeavesOf(i))
    BY <1>5, <1>8, <1>9
  <2>2. \A j \in NodesOf(i) :
          Total(nodes', LeavesBelow(j)') = Total(nodes, LeavesBelow(j))
    BY <1>5, <1>8, <1>9
  <2>3. \A j \in NodesOf(i) : j \in Nodes
    BY <1>5
  <2> QED BY <1>2, <1>4, <1>6, <1>8, <2>1, <2>2, <2>3
          DEF TreeSound, SumsSound
<1>12. LeavesSound(i)'
  <2>1. ASSUME NEW j \in LeavesOf(i) PROVE LeafSound(i, j)'
    <3>1. /\ j \in Nodes /\ LeafSound(i, j) /\ nodes[j].parent \in NodesOf(i)
          /\ nodes[j].parent \in Nodes /\ nodes[j].state = "live"
      BY <1>2, <1>5, <1>8 DEF TreeSound, LeavesSound, LeafSound
    <3> QED BY <1>4, <1>6, <1>8, <3>1 DEF LeafSound
  <2>2. \A j \in NodesOf(i)' : nodes'[j].tree = roots'[i].identity
    BY <1>2, <1>4, <1>5, <1>6, <1>8 DEF TreeSound, LeavesSound
  <2> QED BY <1>8, <2>1, <2>2 DEF LeavesSound
<1>13. PinsSound(i)'
  <2>1. \A j \in NodesOf(i) : j \in Nodes
    BY <1>5
  <2> QED BY <1>1, <1>4, <1>6, <1>8, <2>1 DEF PinsSound, PinsAfter
<1>14. NodesOnly(i)
  BY <1>5, <1>6 DEF NodesOnly, InTree, Recount
<1>15. TreeInv'
  <2>1. \A j \in Nodes : nodes'[j].state = "free" => nodes'[j] = FreeNode
    <3>1. \A j \in members : nodes'[j].state = "live"
      BY <1>5, <1>6
    <3> QED BY <3>1 DEF TreeInv, Registered, Recount
  <2>2. TreeSound(r.slot)' /\ NodesOnly(r.slot) /\ PinsOnly(r.slot)
    BY <1>10, <1>11, <1>12, <1>13, <1>14 DEF TreeSound
  <2>3. used' \in Claim
    BY <1>1 DEF TreeInv, TreeTypes
  <2> QED BY <1>1, <1>7, <2>1, <2>2, <2>3, TreeStep
<1>16. Forms
  <2>1. NodesMove
    <3>1. \A j \in Nodes : /\ nodes[j].state # "free"
                           /\ nodes[j].state \in
                                 {"free", "reserved", "live", "quiescing",
                                  "free_authorized"}
            => <<nodes[j].state, nodes[j].state>> \in
                  {<<s, s>> : s \in {"reserved", "live", "quiescing",
                                     "free_authorized"}}
      OBVIOUS
    <3>2. \A j \in Nodes : nodes[j].state \in {"free", "reserved", "live",
                                     "quiescing", "free_authorized"}
      BY <1>2 DEF Node
    <3> QED BY <1>6, <3>1, <3>2 DEF NodesMove, NodeMove
  <2>2. \A k \in Slots : TreeCharge(k)' = TreeCharge(k)
    BY <1>3, <1>4 DEF TreeCharge
  <2> QED BY <1>1, <2>1, <2>2, ChargesStand DEF Forms
<1> QED BY <1>15, <1>16

\* A node handle that is accepted with a tree names a node of that tree.
LEMMA NodeAccepted ==
    ASSUME TreeInv, NEW t \in NodeHandles, validateLeaseNode(t)
    PROVE  /\ t.index \in NodesOf(t.parent.slot) /\ t.index \in Nodes
           /\ nodes[t.index].kind = t.nodeKind
           /\ nodes[t.index].tree = t.tree
           /\ t.nodeKind = "allocation" => t.index \in LeavesOf(t.parent.slot)
<1>1. t \in NodeToken
  BY TokenKinds DEF TreeInv
<1> QED BY <1>1 DEF NodeToken, validateLeaseNode, NodesOf, LeavesOf

\* A pin that is taken.
LEMMA AcquireKeeps ==
    ASSUME TreeInv, NEW t \in Trees, NEW scope \in NodeHandles,
           NEW e \in Nat, NEW id \in Nat, NEW n \in Nat,
           NEW leaves \in SUBSET NodeHandles,
           acquireLeasePinsForSession(t, scope, e, id, n, leaves)
    PROVE  TreeInv' /\ Forms
<1> DEFINE i == t.parent.slot
           root == t.root
           g == nextLeaseGeneration
           members == {l.index : l \in leaves}
           pin == [state |-> "active", slot |-> i, tree |-> t.root.identity,
                   generation |-> g, treeGeneration |-> g + 1,
                   requestEpoch |-> e, sessionId |-> id, sequence |-> n,
                   scope |-> scope.index, members |-> members]
           count == [j \in Nodes |-> nodes[j].pinCount + 1]
<1>1. /\ leaves # {} /\ validateLeaseTree(t) /\ root.pending.kind = "none"
      /\ \A l \in leaves \union {scope} :
            /\ validateLeaseNode(l) /\ l.parent = t.parent
            /\ nodes[l.index].state = "live"
      /\ \A l \in leaves : l.nodeKind = "allocation"
      /\ Cardinality(PinsOf(i)) < t.parent.claim[QueueClass]
      /\ structuralRevisionHeadroom(i, 1, 1)
      /\ leaseGenerationReservationFits(3, 1)
      /\ nextLeaseGeneration' = g + 3
      /\ reservedCompletions' = reservedCompletions + 1
      /\ UNCHANGED bankVars
  BY DEF acquireLeasePinsForSession
<1>2. PICK p \in PinSlots :
        /\ pins[p].state = "free" /\ pins' = [pins EXCEPT ![p] = pin]
        /\ AdvanceTree(t.parent, root, g + 1, {}, {PinAt(t.parent, p, pin)})
  BY DEF acquireLeasePinsForSession
<1>3. nodes' = [j \in Nodes |-> IF j \in members
                                THEN [nodes[j] EXCEPT !.pinCount = @ + 1]
                                ELSE nodes[j]]
  BY DEF acquireLeasePinsForSession
<1>4. /\ t.parent \in Receipt /\ i \in Slots /\ roots[i] = root
      /\ root \in ActiveRoot /\ root \in Root /\ root.state = "active"
      /\ TreeSound(i) /\ slots[i].claim = t.parent.claim
      /\ t.parent.claim \in Claim
  BY <1>1, TreeAccepted DEF ActiveRoot, Receipt
<1>5. members \in SUBSET LeavesOf(i) /\ members # {}
      /\ \A j \in members : nodes[j].state = "live"
  <2>1. \A l \in leaves : l.index \in LeavesOf(i)
                          /\ nodes[l.index].state = "live"
    BY <1>1, NodeAccepted
  <2> QED BY <1>1, <2>1
<1>6. /\ g \in Nat /\ g + 1 \in Nat /\ g + 3 \in 1 .. MaxLeaseGeneration
      /\ root.identity \in Nat
      /\ nodes \in [Nodes -> Node] /\ pins \in [PinSlots -> Pin]
      /\ reservedCompletions = Cardinality(ActivePins)
      /\ reservedCompletions \in Nat
  BY <1>1, <1>4, GenerationsFit
     DEF TreeInv, TreeTypes, Registered, Root
<1>7. scope.index \in 0 .. NodeCount
  <2>1. scope.index \in Nodes
    BY <1>1, NodeAccepted
  <2> QED BY <2>1, TreeAssumption DEF Nodes
<1>8. /\ pin \in Pin /\ pin.state = "active" /\ pin.slot = i
      /\ pin.tree = root.identity /\ pin.members = members
  <2>1. members \in SUBSET Nodes
    BY <1>5 DEF LeavesOf, NodesOf
  <2> HIDE DEF members
  <2> QED BY <1>4, <1>6, <1>7, <2>1 DEF Pin
<1> HIDE DEF pin
<1>9. {PinAt(t.parent, p, pin)} \subseteq Token
  <2>1. PinAt(t.parent, p, pin) \in PinToken
    BY <1>4, <1>8 DEF PinAt, PinToken
  <2> QED BY <2>1 DEF Token
<1>10. /\ pins' \in [PinSlots -> Pin] /\ pins'[p] = pin
       /\ \A q \in PinSlots \ {p} : pins'[q] = pins[q]
  BY <1>2, <1>6, <1>8
<1>11. /\ PinsOf(i)' = PinsOf(i) \union {p} /\ p \notin PinsOf(i)
       /\ ActivePins' = ActivePins \union {p} /\ p \notin ActivePins
  BY <1>2, <1>8, <1>10 DEF PinsOf, ActivePins
<1>12. /\ IsFiniteSet(PinsOf(i)) /\ Cardinality(PinsOf(i)) \in Nat
       /\ IsFiniteSet(ActivePins)
  <2>1. PinsOf(i) \in SUBSET PinSlots /\ ActivePins \in SUBSET PinSlots
    BY DEF PinsOf, ActivePins
  <2> QED BY <2>1, PinsFinite
<1>13. reservedCompletions' = Cardinality(ActivePins')
  BY <1>1, <1>6, <1>11, <1>12, FS_AddElement
<1>14. Cardinality(PinsOf(i)') <= slots[i].claim[QueueClass]
  <2>1. Cardinality(PinsOf(i)') = Cardinality(PinsOf(i)) + 1
    BY <1>11, <1>12, FS_AddElement
  <2>2. t.parent.claim[QueueClass] \in Nat
    BY <1>4, TreeAssumption DEF Claim
  <2> QED BY <1>1, <1>4, <1>12, <2>1, <2>2
<1>15. \A j \in NodesOf(i) :
         Cardinality({q \in PinsOf(i)' : j \in pins'[q].members})
            = IF j \in members THEN count[j] ELSE nodes[j].pinCount
  <2> SUFFICES ASSUME NEW j \in NodesOf(i)
               PROVE  Cardinality({q \in PinsOf(i)' : j \in pins'[q].members})
                         = IF j \in members THEN count[j] ELSE nodes[j].pinCount
    OBVIOUS
  <2> DEFINE before == {q \in PinsOf(i) : j \in pins[q].members}
             after == {q \in PinsOf(i)' : j \in pins'[q].members}
  <2>1. j \in Nodes /\ nodes[j].pinCount = Cardinality(before)
    BY <1>4 DEF TreeSound, PinsSound, NodesOf
  <2>2. before \subseteq PinsOf(i) /\ IsFiniteSet(before) /\ p \notin before
    BY <1>11, <1>12, FS_Subset
  <2>3. \A q \in PinsOf(i) : pins'[q] = pins[q]
    BY <1>10, <1>11 DEF PinsOf
  <2>4. after = IF j \in members THEN before \union {p} ELSE before
    BY <1>8, <1>10, <1>11, <2>3
  <2> HIDE DEF before, after, members
  <2> QED BY <2>1, <2>2, <2>4, FS_AddElement, ZenonT(60) DEF after
<1>16. \A q \in PinsOf(i)' :
         /\ pins'[q].tree = root.identity /\ pins'[q].members # {}
         /\ pins'[q].members \subseteq LeavesOf(i)
  <2>1. \A q \in PinsOf(i) : pins'[q] = pins[q]
    BY <1>10, <1>11 DEF PinsOf
  <2> QED BY <1>4, <1>5, <1>8, <1>10, <1>11, <2>1 DEF TreeSound, PinsSound
<1>17. Recount(members, count)
  <2> HIDE DEF members
  <2> QED BY <1>3 DEF Counting, Recount
<1>18. count \in [Nodes -> Nat]
  BY <1>6 DEF Node
<1>19. PinsOnly(i)
  BY <1>2, <1>8, <1>10 DEF PinsOnly, InTree
<1>20. root.revision < MaxRevision
  <2>1. roots[i].revision + 1 <= MaxRevision /\ root.revision \in Nat
    BY <1>1, <1>4, RevisionFits DEF Root
  <2> QED BY <1>4, <2>1, TreeAssumption DEF Root
<1>21. nextLeaseGeneration' \in 1 .. MaxLeaseGeneration
  BY <1>1, <1>6
<1> DEFINE new == {PinAt(t.parent, p, pin)}
           h == g + 1
           old == {}
<1>22. /\ new \subseteq Token /\ h \in Nat
       /\ AdvanceTree(t.parent, root, h, old, new)
  BY <1>2, <1>6, <1>9
<1>23. PinsAfter(i, root, members, count)
  BY <1>14, <1>15, <1>16 DEF PinsAfter
<1> HIDE DEF new, h, old, members, count, g
<1> QED BY <1>1, <1>4, <1>5, <1>10, <1>13, <1>17, <1>18, <1>19, <1>20, <1>21,
           <1>22, <1>23, CountKeeps

\* A pin that is given back.
LEMMA ReleaseKeeps ==
    ASSUME TreeInv, NEW t \in PinPermits, releaseLeasePins(t)
    PROVE  TreeInv' /\ Forms
<1> DEFINE i == t.parent.slot
           root == roots[i]
           p == t.index
           members == t.pin.members
           count == [j \in Nodes |-> IF j \in members THEN nodes[j].pinCount - 1
                                                      ELSE 0]
<1>1. /\ validateLeasePin(t) /\ root.pending.kind = "none"
      /\ root.revision < MaxRevision
      /\ \A j \in members : nodes[j].state = "live" /\ nodes[j].pinCount > 0
      /\ nextLeaseGeneration < MaxLeaseGeneration
      /\ nextLeaseGeneration' = nextLeaseGeneration + 1
      /\ reservedCompletions' = reservedCompletions - 1
      /\ nodes' = [j \in Nodes |-> IF j \in t.pin.members
                                   THEN [nodes[j] EXCEPT !.pinCount = @ - 1]
                                   ELSE nodes[j]]
      /\ pins' = [pins EXCEPT ![t.index] = FreePin]
      /\ AdvanceTree(t.parent, roots[i], nextLeaseGeneration, {t}, {})
      /\ UNCHANGED bankVars
  BY DEF releaseLeasePins, CanRelease
<1>2. /\ t.parent \in Receipt /\ i \in Slots /\ p \in PinSlots
      /\ pins[p] = t.pin /\ t.pin.state = "active" /\ t.pin.slot = i
      /\ root \in ActiveRoot /\ root \in Root /\ root.state = "active"
      /\ TreeSound(i) /\ nodes \in [Nodes -> Node]
      /\ pins \in [PinSlots -> Pin]
  <2>1. t \in PinToken
    BY TokenKinds DEF TreeInv
  <2> QED BY <1>1, <2>1 DEF PinToken, Receipt, validateLeasePin, TreeInv,
                            TreeTypes, ActiveRoot
<1>3. p \in PinsOf(i) /\ p \in ActivePins
  BY <1>2 DEF PinsOf, ActivePins
<1>4. members \in SUBSET LeavesOf(i) /\ members \subseteq Nodes
  BY <1>2, <1>3 DEF TreeSound, PinsSound, LeavesOf, NodesOf
<1>5. /\ nextLeaseGeneration \in 1 .. MaxLeaseGeneration
      /\ nextLeaseGeneration' \in 1 .. MaxLeaseGeneration
      /\ nextLeaseGeneration \in Nat
      /\ reservedCompletions = Cardinality(ActivePins)
  BY <1>1, TreeAssumption DEF TreeInv, TreeTypes, Registered
<1>6. /\ pins' \in [PinSlots -> Pin] /\ pins'[p] = FreePin
      /\ \A q \in PinSlots \ {p} : pins'[q] = pins[q]
      /\ FreePin.state = "free"
  BY <1>1, <1>2, BlankTypes DEF FreePin
<1>7. PinsOf(i)' = PinsOf(i) \ {p} /\ ActivePins' = ActivePins \ {p}
  BY <1>3, <1>6 DEF PinsOf, ActivePins
<1>8. /\ IsFiniteSet(PinsOf(i)) /\ Cardinality(PinsOf(i)) \in Nat
      /\ IsFiniteSet(ActivePins)
  <2>1. PinsOf(i) \in SUBSET PinSlots /\ ActivePins \in SUBSET PinSlots
    BY DEF PinsOf, ActivePins
  <2> QED BY <2>1, PinsFinite
<1>9. reservedCompletions' = Cardinality(ActivePins')
  BY <1>1, <1>3, <1>5, <1>7, <1>8, FS_RemoveElement
<1>10. Cardinality(PinsOf(i)') <= slots[i].claim[QueueClass]
  <2>1. Cardinality(PinsOf(i)') = Cardinality(PinsOf(i)) - 1
    <3> HIDE DEF i, p
    <3> QED BY ONLY <1>3, <1>7, <1>8, FS_RemoveElement
  <2>2. slots[i].claim[QueueClass] \in Nat
    BY <1>2, TreeAssumption DEF TreeInv, TreeTypes, Slot, Claim
  <2>3. Cardinality(PinsOf(i)) <= slots[i].claim[QueueClass]
    BY <1>2 DEF TreeSound, PinsSound
  <2> QED BY <1>8, <2>1, <2>2, <2>3
<1>11. \A j \in NodesOf(i) :
         Cardinality({q \in PinsOf(i)' : j \in pins'[q].members})
            = IF j \in members THEN count[j] ELSE nodes[j].pinCount
  <2> SUFFICES ASSUME NEW j \in NodesOf(i)
               PROVE  Cardinality({q \in PinsOf(i)' : j \in pins'[q].members})
                         = IF j \in members THEN count[j] ELSE nodes[j].pinCount
    OBVIOUS
  <2> DEFINE before == {q \in PinsOf(i) : j \in pins[q].members}
             after == {q \in PinsOf(i)' : j \in pins'[q].members}
  <2>1. j \in Nodes /\ nodes[j].pinCount = Cardinality(before)
    BY <1>2 DEF TreeSound, PinsSound, NodesOf
  <2>2. before \subseteq PinsOf(i) /\ IsFiniteSet(before)
        /\ (p \in before <=> j \in members)
    BY <1>2, <1>3, <1>8, FS_Subset
  <2>3. \A q \in PinsOf(i) \ {p} : pins'[q] = pins[q]
    BY <1>6 DEF PinsOf
  <2>4. after = before \ {p}
    BY <1>7, <2>3
  <2>5. j \in members => count[j] = nodes[j].pinCount - 1
    BY <2>1
  <2> HIDE DEF before, after, members, count
  <2>6. CASE j \in members
    BY <2>1, <2>2, <2>4, <2>5, <2>6, FS_RemoveElement DEF after
  <2>7. CASE j \notin members
    <3>1. after = before
      BY <2>2, <2>4, <2>7
    <3> QED BY <2>1, <2>7, <3>1 DEF after
  <2> QED BY <2>6, <2>7
<1>12. \A q \in PinsOf(i)' :
         /\ pins'[q].tree = root.identity /\ pins'[q].members # {}
         /\ pins'[q].members \subseteq LeavesOf(i)
  <2>1. \A q \in PinsOf(i) \ {p} : pins'[q] = pins[q]
    BY <1>6 DEF PinsOf
  <2> QED BY <1>2, <1>7, <2>1 DEF TreeSound, PinsSound
<1>13. Recount(members, count)
  <2>1. nodes' = [j \in Nodes |-> IF j \in members
                                  THEN [nodes[j] EXCEPT !.pinCount = @ - 1]
                                  ELSE nodes[j]]
    BY <1>1
  <2>2. \A j \in members : count[j] = nodes[j].pinCount - 1
    BY <1>4
  <2> HIDE DEF members, count
  <2> QED BY <2>1, <2>2 DEF Counting, Recount
<1>14. count \in [Nodes -> Nat]
  <2>1. \A j \in members : nodes[j].pinCount - 1 \in Nat
    <3>1. \A j \in members : nodes[j].pinCount > 0 /\ nodes[j].pinCount \in Nat
      BY <1>1, <1>2, <1>4 DEF Node
    <3> QED BY <3>1
  <2> HIDE DEF members
  <2> QED BY <2>1
<1>15. PinsOnly(i)
  BY <1>2, <1>6 DEF PinsOnly, InTree
<1> DEFINE none == {}
           h == nextLeaseGeneration
           old == {t}
<1>16. /\ none \subseteq Token /\ h \in Nat
       /\ AdvanceTree(t.parent, root, h, old, none)
       /\ \A j \in members : nodes[j].state = "live"
  BY <1>1, <1>5
<1>17. PinsAfter(i, root, members, count)
  BY <1>10, <1>11, <1>12 DEF PinsAfter
<1> HIDE DEF none, old, h, members, count, p
<1> QED BY <1>1, <1>2, <1>4, <1>5, <1>6, <1>9, <1>13, <1>14, <1>15, <1>16,
           <1>17, CountKeeps

-----------------------------------------------------------------------------
(* Retiring the leaves of a scope.                                         *)

\* The leaves of the scope begin to wait for the decision, and no others do:
\* without a decision every leaf of the tree was live and waited for nothing.
LEMMA RetireKeeps ==
    ASSUME TreeInv, NEW t \in Trees, NEW scope \in NodeHandles,
           NEW e, NEW id, NEW n,
           beginRetireSubtreeForSession(t, scope, e, id, n)
    PROVE  TreeInv' /\ Forms
<1> DEFINE i == t.parent.slot
           g == nextLeaseGeneration
           leaves == LeavesBelow(scope.index)
           q == [kind |-> "retire", generation |-> g,
                 completion |-> g + 2, freePermit |-> g + 3,
                 freeCompletion |-> g + 4, scope |-> scope.index,
                 claim |-> ClaimOf(leaves)]
           root == [t.root EXCEPT !.pending = q]
           settled == [root EXCEPT !.generation = g + 1, !.revision = @ + 1]
           new == {DecisionAt("ticket", t.parent, settled, slots[i])}
<1>1. /\ validateLeaseTree(t) /\ t.root.pending.kind = "none"
      /\ t.root.funding = "funded" => t.root.activated
      /\ validateLeaseNode(scope) /\ scope.parent = t.parent
      /\ scope.nodeKind = "scope"
      /\ \A j \in leaves : Retirable(j)
      /\ structuralRevisionHeadroom(i, 3, 0)
      /\ reserveLeaseGenerations(5)
      /\ nodes' = [j \in Nodes |->
                     IF j \in leaves
                     THEN [nodes[j] EXCEPT !.state = "quiescing", !.pending = g]
                     ELSE nodes[j]]
      /\ AdvanceTree(t.parent, root, g + 1, {}, new)
      /\ UNCHANGED <<bankVars, pins>>
  BY DEF beginRetireSubtreeForSession
<1>2. /\ t.parent \in Receipt /\ i \in Slots /\ roots[i] = t.root
      /\ t.root \in ActiveRoot /\ t.root \in Root /\ t.root.state = "active"
      /\ TreeSound(i) /\ slots[i] \in Slot
  BY <1>1, TreeAccepted DEF ActiveRoot, TreeInv, TreeTypes
<1>3. /\ slots' = slots /\ used' = used /\ nextGeneration' = nextGeneration
      /\ children' = children /\ pins' = pins
      /\ reservedCompletions' = reservedCompletions
      /\ nodes \in [Nodes -> Node]
  BY <1>1 DEF bankVars, childVars, reserveLeaseGenerations, TreeInv, TreeTypes
<1>4. /\ g \in Nat /\ g # 0 /\ nextLeaseGeneration' \in 1 .. MaxLeaseGeneration
      /\ g + 1 \in Nat /\ g + 2 \in Nat /\ g + 3 \in Nat /\ g + 4 \in Nat
      /\ g + 3 # 0
  <2>1. nextLeaseGeneration' \in 1 .. MaxLeaseGeneration
    BY <1>1, GenerationsFit DEF reserveLeaseGenerations
  <2>2. g \in 1 .. MaxLeaseGeneration
    BY DEF TreeInv, TreeTypes
  <2> QED BY <2>1, <2>2, TreeAssumption
<1>5. /\ scope.index \in NodesOf(i) /\ scope.index \in Nodes
      /\ scope.index \in 0 .. NodeCount
      /\ nodes[scope.index].slot = i
  <2>1. scope.index \in NodesOf(i) /\ scope.index \in Nodes
    BY <1>1, NodeAccepted
  <2> QED BY <2>1, TreeAssumption DEF Nodes, NodesOf
<1>6. /\ leaves \subseteq LeavesOf(i) /\ LeavesOf(i) \subseteq NodesOf(i)
      /\ NodesOf(i) \subseteq Nodes
      /\ \A j \in Nodes : LeavesBelow(j) \subseteq Nodes
      /\ \A j \in NodesOf(i) : nodes[j].slot = i
      /\ leaves \in SUBSET Nodes
  BY <1>5 DEF LeavesOf, NodesOf, LeavesBelow
<1>7. ClaimOf(leaves) = Total(nodes, leaves) /\ ClaimOf(leaves) \in Claim
  BY <1>3, <1>6, NodesTotal DEF ClaimOf, Total
<1>8. /\ q \in Pending /\ q.kind = "retire" /\ q.generation = g
      /\ q.freePermit = g + 3 /\ q.claim = ClaimOf(leaves)
  <2> HIDE DEF g, leaves
  <2>1. g \in Nat /\ g + 2 \in Nat /\ g + 3 \in Nat /\ g + 4 \in Nat
        /\ ClaimOf(leaves) \in Claim /\ scope.index \in 0 .. NodeCount
    BY <1>4, <1>5, <1>7
  <2> QED BY ONLY <2>1 DEF Pending
<1> HIDE DEF q
<1>9. /\ root \in ActiveRoot /\ root.pending = q
      /\ root.identity = t.root.identity /\ root.ceiling = t.root.ceiling
      /\ root.current = t.root.current /\ root.funding = t.root.funding
      /\ root.activated = t.root.activated /\ root.revision = t.root.revision
  BY <1>2, <1>8, RootDecides
<1> HIDE DEF root
<1>10. settled = Advanced(root, g + 1) /\ settled \in ActiveRoot
       /\ settled.pending = q
  <2>1. settled = Advanced(root, g + 1)
    BY DEF Advanced
  <2> QED BY <1>4, <1>9, <2>1, AdvancedType
<1>11. new \subseteq Token
  <2> HIDE DEF settled
  <2> QED BY <1>2, <1>8, <1>10, DecisionType DEF DecisionOn
<1> HIDE DEF new
<1>12. /\ roots'[i] = Advanced(root, g + 1)
       /\ \A k \in Slots \ {i} : roots'[k] = roots[k]
  BY <1>1, <1>2, <1>4, <1>9, <1>11, AdvanceKeeps
<1>13. /\ roots'[i].state = "active" /\ roots'[i].identity = t.root.identity
       /\ roots'[i].ceiling = t.root.ceiling
       /\ roots'[i].current = t.root.current
       /\ roots'[i].funding = t.root.funding
       /\ roots'[i].activated = t.root.activated
       /\ roots'[i].pending = q /\ roots'[i].revision = t.root.revision + 1
  BY <1>4, <1>9, <1>12, AdvancedFields DEF ActiveRoot
<1>14. \A j \in LeavesOf(i) :
         /\ LeafSound(i, j) /\ j \in Nodes
         /\ nodes[j].state = "live" /\ nodes[j].pending = 0
  <2>1. PendingOf(i) = {}
    BY <1>1, <1>2 DEF PendingOf
  <2> QED BY <1>2, <1>6, <2>1 DEF TreeSound, LeavesSound, LeafSound
<1>15. \A j \in leaves : j \in Nodes /\ nodes[j].pinCount = 0
                         /\ nodes[j].state = "live"
  BY <1>1, <1>6 DEF Retirable
<1>16. \A j \in Nodes :
         /\ nodes'[j] \in Node
         /\ nodes'[j].kind = nodes[j].kind /\ nodes'[j].slot = nodes[j].slot
         /\ nodes'[j].tree = nodes[j].tree
         /\ nodes'[j].generation = nodes[j].generation
         /\ nodes'[j].parent = nodes[j].parent
         /\ nodes'[j].ceiling = nodes[j].ceiling
         /\ nodes'[j].subtree = nodes[j].subtree
         /\ nodes'[j].pinCount = nodes[j].pinCount
         /\ nodes'[j].state = IF j \in leaves THEN "quiescing"
                                              ELSE nodes[j].state
         /\ nodes'[j].pending = IF j \in leaves THEN g ELSE nodes[j].pending
  <2> SUFFICES ASSUME NEW j \in Nodes
               PROVE  /\ nodes'[j] \in Node
                      /\ nodes'[j].kind = nodes[j].kind
                      /\ nodes'[j].slot = nodes[j].slot
                      /\ nodes'[j].tree = nodes[j].tree
                      /\ nodes'[j].generation = nodes[j].generation
                      /\ nodes'[j].parent = nodes[j].parent
                      /\ nodes'[j].ceiling = nodes[j].ceiling
                      /\ nodes'[j].subtree = nodes[j].subtree
                      /\ nodes'[j].pinCount = nodes[j].pinCount
                      /\ nodes'[j].state = IF j \in leaves THEN "quiescing"
                                              ELSE nodes[j].state
                      /\ nodes'[j].pending = IF j \in leaves THEN g
                                                ELSE nodes[j].pending
    OBVIOUS
  <2> HIDE DEF leaves, g
  <2>1. CASE j \in leaves
    <3> DEFINE m == [nodes[j] EXCEPT !.state = "quiescing", !.pending = g]
    <3>1. nodes[j] \in Node /\ g \in Nat
      BY <1>3, <1>4
    <3>2. /\ m \in Node /\ m.state = "quiescing" /\ m.pending = g
          /\ m.kind = nodes[j].kind /\ m.slot = nodes[j].slot
          /\ m.tree = nodes[j].tree /\ m.generation = nodes[j].generation
          /\ m.parent = nodes[j].parent /\ m.ceiling = nodes[j].ceiling
          /\ m.subtree = nodes[j].subtree /\ m.pinCount = nodes[j].pinCount
      BY ONLY <3>1 DEF Node
    <3>3. nodes'[j] = m
      BY <1>1, <2>1
    <3> HIDE DEF m
    <3> QED BY <2>1, <3>2, <3>3
  <2>2. CASE j \notin leaves
    BY <1>1, <1>3, <2>2
  <2> QED BY <2>1, <2>2
<1>17. nodes' \in [Nodes -> Node]
  BY <1>1, <1>16
<1>18. \A j \in Nodes : nodes'[j].state = "free" <=> nodes[j].state = "free"
  BY <1>15, <1>16
<1>19. /\ NodesOf(i)' = NodesOf(i) /\ LeavesOf(i)' = LeavesOf(i)
       /\ \A j \in NodesOf(i) : LeavesBelow(j)' = LeavesBelow(j)
       /\ PendingOf(i)' = leaves
  <2>1. NodesOf(i)' = NodesOf(i)
    BY <1>16, <1>18 DEF NodesOf
  <2>2. LeavesOf(i)' = LeavesOf(i)
    BY <1>6, <1>16, <2>1 DEF LeavesOf
  <2>3. \A j \in NodesOf(i) : LeavesBelow(j)' = LeavesBelow(j)
    <3>1. \A j \in NodesOf(i) : nodes[j].slot = i /\ nodes'[j].slot = i
      BY <1>6, <1>16
    <3>2. \A l \in LeavesOf(i) : nodes'[l].parent = nodes[l].parent
      BY <1>6, <1>16
    <3> QED BY <2>2, <3>1, <3>2 DEF LeavesBelow
  <2>4. PendingOf(i)' = leaves
    <3>1. PendingOf(i)' = {j \in LeavesOf(i) : nodes'[j].pending = g}
      BY <1>8, <1>13, <2>2 DEF PendingOf
    <3>2. \A j \in LeavesOf(i) : nodes'[j].pending = g <=> j \in leaves
      BY <1>4, <1>14, <1>16
    <3>3. leaves \subseteq LeavesOf(i)
      BY <1>6
    <3> HIDE DEF leaves
    <3> QED BY <3>1, <3>2, <3>3
  <2> QED BY <2>1, <2>2, <2>3, <2>4
<1>20. \A S \in SUBSET Nodes : Total(nodes', S) = Total(nodes, S)
  BY <1>16, NodesAgree
<1>21. RootSound(i)'
  <2>1. t.root.revision + 1 \in 0 .. MaxRevision
    <3>1. structuralRevisionHeadroom(i, 3, 0)
      BY DEF beginRetireSubtreeForSession
    <3>2. /\ roots[i].revision + 1 \in 0 .. MaxRevision
          /\ roots[i].revision + 3 <= MaxRevision
      BY <1>2, <3>1, RevisionFits
    <3> QED BY <1>2, <3>2
  <2>2. q.claim = Total(nodes', PendingOf(i)')
    BY <1>6, <1>7, <1>8, <1>19, <1>20
  <2> QED BY <1>2, <1>3, <1>4, <1>8, <1>13, <2>1, <2>2 DEF TreeSound, RootSound
<1>22. SumsSound(i)'
  <2>1. Total(nodes', LeavesOf(i)') = Total(nodes, LeavesOf(i))
    BY <1>6, <1>19, <1>20
  <2>2. \A j \in NodesOf(i) :
          Total(nodes', LeavesBelow(j)') = Total(nodes, LeavesBelow(j))
    BY <1>6, <1>19, <1>20
  <2>3. \A j \in NodesOf(i) : j \in Nodes
    BY <1>6
  <2> QED BY <1>2, <1>13, <1>16, <1>19, <2>1, <2>2, <2>3
          DEF TreeSound, SumsSound
<1>23. LeavesSound(i)'
  <2>1. ASSUME NEW j \in LeavesOf(i) PROVE LeafSound(i, j)'
    <3>1. /\ nodes[j].parent \in NodesOf(i) /\ nodes[j].parent \in Nodes
          /\ nodes[nodes[j].parent].kind = "scope"
      BY <1>6, <1>14 DEF LeafSound
    <3>2. /\ nodes'[j].parent \in NodesOf(i)'
          /\ nodes'[nodes'[j].parent].kind = "scope"
      BY <1>14, <1>16, <1>19, <3>1
    <3>3. /\ nodes'[j].state = "live" => nodes'[j].pending = 0
          /\ nodes'[j].state # "live" =>
                j \in PendingOf(i)' /\ nodes'[j].pinCount = 0
          /\ j \in PendingOf(i)' => nodes'[j].state = "quiescing"
          /\ nodes'[j].state # "reserved"
      BY <1>14, <1>15, <1>16, <1>19
    <3>4. Undecided(roots'[i].pending.kind) = "quiescing"
      BY <1>8, <1>13 DEF Undecided
    <3> QED BY <1>1, <1>13, <3>2, <3>3, <3>4 DEF LeafSound
  <2>2. \A j \in NodesOf(i)' : nodes'[j].tree = roots'[i].identity
    BY <1>2, <1>6, <1>13, <1>16, <1>19 DEF TreeSound, LeavesSound
  <2> QED BY <1>19, <2>1, <2>2 DEF LeavesSound
<1>24. PinsSound(i)'
  <2>1. PinsOf(i)' = PinsOf(i)
    BY <1>3 DEF PinsOf
  <2>2. \A j \in NodesOf(i) : j \in Nodes
    BY <1>6
  <2> QED BY <1>2, <1>3, <1>13, <1>16, <1>19, <2>1, <2>2
          DEF TreeSound, PinsSound
<1>25. TreeInv'
  <2>1. NodesOnly(i) /\ PinsOnly(i)
    <3>1. \A j \in Nodes \ leaves : nodes'[j] = nodes[j]
      BY <1>1
    <3>2. \A j \in leaves : nodes[j].slot = i /\ nodes'[j].slot = i
      BY <1>6, <1>16
    <3> HIDE DEF leaves
    <3> QED BY <1>3, <3>1, <3>2 DEF NodesOnly, PinsOnly, InTree
  <2>2. \A j \in Nodes : nodes'[j].state = "free" => nodes'[j] = FreeNode
    <3>1. \A j \in Nodes \ leaves : nodes'[j] = nodes[j]
      BY <1>1
    <3>2. \A j \in leaves : nodes'[j].state = "quiescing"
      BY <1>15, <1>16
    <3> HIDE DEF leaves
    <3> QED BY <3>1, <3>2 DEF TreeInv, Registered
  <2>3. /\ reservedCompletions' = Cardinality(ActivePins')
        /\ pins' \in [PinSlots -> Pin] /\ used' \in Claim
    BY <1>3 DEF TreeInv, TreeTypes, Registered, ActivePins
  <2>4. TreeSound(i)'
    BY <1>21, <1>22, <1>23, <1>24 DEF TreeSound
  <2> DEFINE h == g + 1
             old == {}
  <2>5. h \in Nat /\ AdvanceTree(t.parent, root, h, old, new)
    BY <1>1, <1>4
  <2> HIDE DEF g, h, old
  <2> QED BY <1>2, <1>3, <1>4, <1>9, <1>11, <1>17, <2>1, <2>2, <2>3, <2>4,
             <2>5, TreeStep
<1>26. Forms
  <2>1. NodesMove
    <3>1. \A j \in Nodes \ leaves : nodes'[j] = nodes[j]
      BY <1>1
    <3>2. \A j \in leaves : <<nodes[j].state, nodes'[j].state>>
                               = <<"live", "quiescing">>
      BY <1>15, <1>16
    <3>3. \A j \in Nodes : nodes'[j].generation = nodes[j].generation
                           /\ nodes'[j].kind = nodes[j].kind
      BY <1>16
    <3> HIDE DEF leaves
    <3> QED BY <3>1, <3>2, <3>3 DEF NodesMove, NodeMove
  <2>2. \A k \in Slots : TreeCharge(k)' = TreeCharge(k)
    BY <1>2, <1>12, <1>13 DEF TreeCharge
  <2> QED BY <1>3, <2>1, <2>2, ChargesStand DEF Forms
<1> QED BY <1>25, <1>26

-----------------------------------------------------------------------------
(* Allocation waves.                                                       *)

\* The k-th spec of a wave gets a free node of its own: the free nodes are
\* ranked by how many of them come before, and no two have the same rank.
LEMMA NodesForWave ==
    ASSUME NEW size \in Nat, size <= Cardinality(FreeNodes)
    PROVE  /\ \A k \in 1 .. size : NodeFor(k) \in FreeNodes
           /\ \A k, l \in 1 .. size : NodeFor(k) = NodeFor(l) => k = l
<1> DEFINE before(j) == {l \in FreeNodes : l < j}
           count == Cardinality(FreeNodes)
           rank == [j \in FreeNodes |-> Cardinality(before(j))]
           ranks == 0 .. count - 1
<1>1. /\ IsFiniteSet(FreeNodes) /\ count \in Nat
      /\ \A j \in FreeNodes : j \in Int
  <2>1. FreeNodes \in SUBSET Nodes
    BY DEF FreeNodes
  <2> QED BY <2>1, NodesFinite, FS_CardinalityType DEF Nodes
<1>2. \A j \in FreeNodes : /\ before(j) \subseteq FreeNodes \ {j}
                           /\ IsFiniteSet(before(j))
                           /\ Cardinality(before(j)) \in ranks
  <2> SUFFICES ASSUME NEW j \in FreeNodes
               PROVE  /\ before(j) \subseteq FreeNodes \ {j}
                      /\ IsFiniteSet(before(j))
                      /\ Cardinality(before(j)) \in ranks
    OBVIOUS
  <2>1. before(j) \subseteq FreeNodes \ {j}
    BY <1>1
  <2>2. IsFiniteSet(FreeNodes \ {j}) /\ Cardinality(FreeNodes \ {j}) = count - 1
    BY <1>1, FS_RemoveElement
  <2> HIDE DEF before
  <2>3. /\ IsFiniteSet(before(j)) /\ Cardinality(before(j)) <= count - 1
        /\ Cardinality(before(j)) \in Nat
    BY <2>1, <2>2, FS_Subset, FS_CardinalityType
  <2> QED BY <1>1, <2>1, <2>3
<1>3. \A j, l \in FreeNodes :
         j < l => Cardinality(before(j)) # Cardinality(before(l))
  <2> SUFFICES ASSUME NEW j \in FreeNodes, NEW l \in FreeNodes, j < l
               PROVE  Cardinality(before(j)) # Cardinality(before(l))
    OBVIOUS
  <2>1. before(j) \subseteq before(l) /\ j \in before(l) /\ j \notin before(j)
    BY <1>1
  <2>2. before(j) # before(l)
    BY <2>1
  <2>3. IsFiniteSet(before(l))
    BY <1>2
  <2> HIDE DEF before
  <2> QED BY <2>1, <2>2, <2>3, FS_Subset
<1>4. rank \in Injection(FreeNodes, ranks)
  <2>1. rank \in [FreeNodes -> ranks]
    BY <1>2
  <2>2. \A j, l \in FreeNodes : j # l => rank[j] # rank[l]
    BY <1>1, <1>3
  <2> HIDE DEF rank
  <2> QED BY <2>1, <2>2 DEF Injection, IsInjective
<1>5. IsFiniteSet(ranks) /\ Cardinality(ranks) = count
  <2>1. 0 \in Int /\ count - 1 \in Int
    BY <1>1
  <2>2. /\ IsFiniteSet(ranks)
        /\ Cardinality(ranks) = IF 0 > count - 1 THEN 0
                                ELSE (count - 1) - 0 + 1
    BY <2>1, FS_Interval
  <2> HIDE DEF ranks, count
  <2> QED BY <1>1, <2>2
<1>6. rank \in Surjection(FreeNodes, ranks)
  <2> HIDE DEF rank, ranks
  <2> QED BY <1>4, <1>5, FS_Injection
<1>7. ASSUME NEW k \in 1 .. size
      PROVE  NodeFor(k) \in FreeNodes /\ rank[NodeFor(k)] = k - 1
  <2>1. k - 1 \in ranks
    BY <1>1
  <2>2. \E j \in FreeNodes : rank[j] = k - 1
    <3> HIDE DEF rank, ranks
    <3> QED BY <1>6, <2>1 DEF Surjection
  <2>3. \E j \in FreeNodes : Cardinality(before(j)) = k - 1
    BY <2>2
  <2>4. NodeFor(k) = CHOOSE j \in FreeNodes : Cardinality(before(j)) = k - 1
    BY DEF NodeFor
  <2>5. NodeFor(k) \in FreeNodes /\ Cardinality(before(NodeFor(k))) = k - 1
    <3> HIDE DEF before
    <3> QED BY <2>3, <2>4
  <2> QED BY <2>5
<1> HIDE DEF rank
<1>8. ASSUME NEW k \in 1 .. size, NEW l \in 1 .. size, NodeFor(k) = NodeFor(l)
      PROVE  k = l
  <2>1. k - 1 = l - 1
    BY <1>7, <1>8
  <2> QED BY <2>1
<1> QED BY <1>7, <1>8

\* A list of specs has as many members as it has positions.
LEMMA SpecListType ==
    ASSUME NEW specs \in SpecLists
    PROVE  /\ Len(specs) \in Nat /\ DOMAIN specs = 1 .. Len(specs)
           /\ \A k \in 1 .. Len(specs) :
                /\ specs[k].scope \in NodeHandles /\ specs[k].key \in Keys
                /\ specs[k].claim \in Claim
<1>1. PICK m \in 1 .. MaxBatch : specs \in [1 .. m -> LeafSpec]
  BY DEF SpecLists
<1>2. m \in Nat
  BY TreeAssumption
<1>3. specs \in Seq(LeafSpec)
  BY <1>1, <1>2
<1>4. Len(specs) \in Nat /\ DOMAIN specs = 1 .. Len(specs)
      /\ \A k \in 1 .. Len(specs) : specs[k] \in LeafSpec
  BY <1>3
<1> QED BY <1>4, TreeAssumption DEF LeafSpec

\* Nothing added changes nothing.
LEMMA AddNothing ==
    ASSUME NEW a \in Claim PROVE addClaims(a, ZeroClaim) = a
<1>1. \A k \in Classes : a[k] \in Nat /\ a[k] + 0 = a[k]
  BY DEF Claim
<1>2. a = [k \in Classes |-> a[k]]
  BY DEF Claim
<1>3. addClaims(a, ZeroClaim) = [k \in Classes |-> a[k]]
  BY <1>1 DEF addClaims, ZeroClaim
<1> QED BY <1>2, <1>3

\* A node that carries more than before.
Enlarged(n, c) == [n EXCEPT !.subtree = addClaims(@, c)]

\* What enlarging leaves alone.
LEMMA EnlargedType ==
    ASSUME NEW n \in Node, NEW c \in Claim
    PROVE  LET m == Enlarged(n, c) IN
           /\ m \in Node /\ m.subtree = addClaims(n.subtree, c)
           /\ m.state = n.state /\ m.pending = n.pending /\ m.kind = n.kind
           /\ m.slot = n.slot /\ m.tree = n.tree
           /\ m.generation = n.generation /\ m.parent = n.parent
           /\ m.ceiling = n.ceiling /\ m.pinCount = n.pinCount
           /\ c = ZeroClaim => m = n
<1>1. n \in Node /\ n.subtree \in Claim /\ addClaims(n.subtree, c) \in Claim
  BY AddType DEF Node
<1>2. c = ZeroClaim => addClaims(n.subtree, c) = n.subtree
  BY <1>1, AddNothing
<1> QED BY ONLY <1>1, <1>2 DEF Node, Enlarged

\* The nodes of a wave in the tree of slot i: the fresh ones were free and are
\* leaves that wait for the wave, and every scope grows by those put below it.
Planted(i, fresh, add) ==
    /\ nodes' = [j \in Nodes |-> nodes'[j]]
    /\ \A j \in fresh :
        /\ nodes[j].state = "free" /\ nodes'[j] \in Node
        /\ nodes'[j].state = "reserved" /\ nodes'[j].kind = "allocation"
        /\ nodes'[j].slot = i /\ nodes'[j].tree = roots[i].identity
        /\ nodes'[j].parent \in NodesOf(i)
        /\ nodes[nodes'[j].parent].kind = "scope"
        /\ nodes'[j].pending = nextLeaseGeneration /\ nodes'[j].pinCount = 0
    /\ \A j \in Nodes \ fresh : nodes'[j] = Enlarged(nodes[j], add[j])
    /\ \A j \in Nodes :
        IF j \in NodesOf(i) /\ nodes[j].kind = "scope"
        THEN /\ add[j] = Total(nodes', {l \in fresh : nodes'[l].parent = j})
             /\ claimWithin(addClaims(nodes[j].subtree, add[j]),
                            nodes[j].ceiling)
        ELSE add[j] = ZeroClaim

\* What the tree of a wave looks like: its old leaves are as they were.
LEMMA PlantedNodes ==
    ASSUME TreeInv, NEW i \in Slots, NEW fresh \in SUBSET Nodes,
           NEW add \in [Nodes -> Claim], Planted(i, fresh, add)
    PROVE  /\ nodes' \in [Nodes -> Node]
           /\ \A j \in Nodes \ fresh :
                /\ nodes'[j].subtree = addClaims(nodes[j].subtree, add[j])
                /\ nodes'[j].state = nodes[j].state
                /\ nodes'[j].pending = nodes[j].pending
                /\ nodes'[j].kind = nodes[j].kind
                /\ nodes'[j].slot = nodes[j].slot
                /\ nodes'[j].tree = nodes[j].tree
                /\ nodes'[j].generation = nodes[j].generation
                /\ nodes'[j].parent = nodes[j].parent
                /\ nodes'[j].ceiling = nodes[j].ceiling
                /\ nodes'[j].pinCount = nodes[j].pinCount
                /\ j \notin NodesOf(i) => nodes'[j] = nodes[j]
           /\ NodesOf(i) \subseteq Nodes \ fresh
           /\ LeavesOf(i) \subseteq NodesOf(i)
           /\ NodesOf(i)' = NodesOf(i) \union fresh
           /\ LeavesOf(i)' = LeavesOf(i) \union fresh
           /\ \A j \in NodesOf(i) :
                LeavesBelow(j)' = LeavesBelow(j)
                                    \union {l \in fresh : nodes'[l].parent = j}
           /\ \A j \in LeavesOf(i) : nodes'[j] = nodes[j]
<1>1. nodes \in [Nodes -> Node]
  BY DEF TreeInv, TreeTypes
<1>2. ASSUME NEW j \in Nodes \ fresh
      PROVE  /\ nodes'[j] \in Node
             /\ nodes'[j].subtree = addClaims(nodes[j].subtree, add[j])
             /\ nodes'[j].state = nodes[j].state
             /\ nodes'[j].pending = nodes[j].pending
             /\ nodes'[j].kind = nodes[j].kind
             /\ nodes'[j].slot = nodes[j].slot
             /\ nodes'[j].tree = nodes[j].tree
             /\ nodes'[j].generation = nodes[j].generation
             /\ nodes'[j].parent = nodes[j].parent
             /\ nodes'[j].ceiling = nodes[j].ceiling
             /\ nodes'[j].pinCount = nodes[j].pinCount
             /\ add[j] = ZeroClaim => nodes'[j] = nodes[j]
  <2>1. /\ nodes[j] \in Node /\ add[j] \in Claim
        /\ nodes'[j] = Enlarged(nodes[j], add[j])
    BY <1>1 DEF Planted
  <2> QED BY <2>1, EnlargedType
<1>3. nodes' \in [Nodes -> Node]
  <2>1. \A j \in fresh : nodes'[j] \in Node
    BY DEF Planted
  <2>2. \A j \in Nodes : nodes'[j] \in Node
    BY <1>2, <2>1
  <2>3. nodes' = [j \in Nodes |-> nodes'[j]]
    BY DEF Planted
  <2> QED BY <2>2, <2>3
<1>4. /\ NodesOf(i) \subseteq Nodes \ fresh
      /\ LeavesOf(i) \subseteq NodesOf(i)
      /\ \A j \in NodesOf(i) : nodes[j].slot = i
  BY DEF NodesOf, LeavesOf, Planted
<1>5. \A j \in fresh : /\ nodes'[j].state = "reserved" /\ nodes'[j].slot = i
                       /\ nodes'[j].kind = "allocation"
  BY DEF Planted
<1>6. NodesOf(i)' = NodesOf(i) \union fresh
  BY <1>2, <1>5 DEF NodesOf
<1>7. LeavesOf(i)' = LeavesOf(i) \union fresh
  BY <1>2, <1>4, <1>5, <1>6 DEF LeavesOf
<1>8. ASSUME NEW j \in NodesOf(i)
      PROVE  LeavesBelow(j)' = LeavesBelow(j)
                                 \union {l \in fresh : nodes'[l].parent = j}
  <2>1. nodes[j].slot = i /\ nodes'[j].slot = i
    BY <1>2, <1>4
  <2>2. \A l \in LeavesOf(i) : nodes'[l].parent = nodes[l].parent
    BY <1>2, <1>4
  <2> QED BY <1>7, <2>1, <2>2 DEF LeavesBelow
<1>9. \A j \in Nodes : ~(j \in NodesOf(i) /\ nodes[j].kind = "scope")
                          => add[j] = ZeroClaim
  BY DEF Planted
<1>10. \A j \in LeavesOf(i) : nodes'[j] = nodes[j]
  <2>1. \A j \in LeavesOf(i) : j \in Nodes \ fresh /\ nodes[j].kind # "scope"
    BY <1>4 DEF LeavesOf
  <2> QED BY <1>2, <1>9, <2>1
<1> QED BY <1>2, <1>3, <1>4, <1>6, <1>7, <1>8, <1>9, <1>10

\* A wave: its leaves are the ones that wait for the decision, and tree, scopes
\* and Bank grow by what they carry.
LEMMA PlantKeeps ==
    ASSUME TreeInv, NEW r \in Receipt, NEW i \in Slots, i = r.slot,
           NEW root \in ActiveRoot, NEW g \in Nat, NEW old, NEW new,
           new \subseteq Token, NEW fresh \in SUBSET Nodes,
           NEW add \in [Nodes -> Claim], NEW total \in Claim,
           Planted(i, fresh, add), total = Total(nodes', fresh),
           roots[i].state = "active", roots[i].pending.kind = "none",
           ~roots[i].activated, roots[i].revision < MaxRevision,
           root.pending.kind = "allocation",
           root.pending.generation = nextLeaseGeneration,
           root.pending.claim = total,
           root.current = addClaims(roots[i].current, total),
           root.identity = roots[i].identity,
           root.ceiling = roots[i].ceiling, root.funding = roots[i].funding,
           root.activated = roots[i].activated,
           root.revision = roots[i].revision,
           claimWithin(root.current, root.ceiling),
           roots[i].funding = "additive" => Fits(addClaims(used, total)),
           ChargeUsed(i, total), AdvanceTree(r, root, g, old, new),
           nextLeaseGeneration' \in 1 .. MaxLeaseGeneration,
           UNCHANGED <<slots, nextGeneration, children, pins,
                       reservedCompletions>>
    PROVE  TreeInv' /\ Forms
<1> DEFINE now == roots[i]
<1>1. /\ TreeSound(i) /\ nodes \in [Nodes -> Node] /\ used \in Claim
      /\ now \in Root /\ root \in Root /\ root.state = "active"
      /\ nextLeaseGeneration # 0
  BY DEF TreeInv, TreeTypes, ActiveRoot
<1>2. /\ nodes' \in [Nodes -> Node]
      /\ \A j \in Nodes \ fresh :
           /\ nodes'[j].subtree = addClaims(nodes[j].subtree, add[j])
           /\ nodes'[j].state = nodes[j].state
           /\ nodes'[j].pending = nodes[j].pending
           /\ nodes'[j].kind = nodes[j].kind
           /\ nodes'[j].slot = nodes[j].slot
           /\ nodes'[j].tree = nodes[j].tree
           /\ nodes'[j].generation = nodes[j].generation
           /\ nodes'[j].parent = nodes[j].parent
           /\ nodes'[j].ceiling = nodes[j].ceiling
           /\ nodes'[j].pinCount = nodes[j].pinCount
           /\ j \notin NodesOf(i) => nodes'[j] = nodes[j]
      /\ NodesOf(i) \subseteq Nodes \ fresh
      /\ LeavesOf(i) \subseteq NodesOf(i)
      /\ NodesOf(i)' = NodesOf(i) \union fresh
      /\ LeavesOf(i)' = LeavesOf(i) \union fresh
      /\ \A j \in NodesOf(i) :
           LeavesBelow(j)' = LeavesBelow(j)
                               \union {l \in fresh : nodes'[l].parent = j}
      /\ \A j \in LeavesOf(i) : nodes'[j] = nodes[j]
  BY PlantedNodes, ZenonT(60)
<1>3. \A j \in fresh :
        /\ nodes[j].state = "free" /\ nodes'[j].state = "reserved"
        /\ nodes'[j].kind = "allocation" /\ nodes'[j].slot = i
        /\ nodes'[j].tree = now.identity
        /\ nodes'[j].parent \in NodesOf(i)
        /\ nodes[nodes'[j].parent].kind = "scope"
        /\ nodes'[j].pending = nextLeaseGeneration /\ nodes'[j].pinCount = 0
  BY DEF Planted
<1>4. /\ roots'[i] = Advanced(root, g) /\ roots' \in [Slots -> Root]
      /\ \A k \in Slots \ {i} : roots'[k] = roots[k]
  BY AdvanceKeeps
<1>5. /\ roots'[i].state = "active" /\ roots'[i].identity = now.identity
      /\ roots'[i].ceiling = now.ceiling /\ roots'[i].current = root.current
      /\ roots'[i].funding = now.funding
      /\ roots'[i].activated = now.activated
      /\ roots'[i].pending = root.pending
      /\ roots'[i].revision = now.revision + 1
  BY <1>1, <1>4, AdvancedFields
<1>6. used' \in Claim
  BY <1>1, AddType DEF ChargeUsed
<1>7. \A j \in LeavesOf(i) :
        /\ LeafSound(i, j) /\ nodes[j].state = "live" /\ nodes[j].pending = 0
  <2>1. PendingOf(i) = {}
    BY DEF PendingOf
  <2> QED BY <1>1, <2>1 DEF TreeSound, LeavesSound, LeafSound
<1>8. PendingOf(i)' = fresh
  <2>1. PendingOf(i)' = {j \in LeavesOf(i) \union fresh :
                            nodes'[j].pending = nextLeaseGeneration}
    BY <1>2, <1>5 DEF PendingOf
  <2> QED BY <1>1, <1>2, <1>3, <1>7, <2>1
<1>9. RootSound(i)'
  <2>1. now.revision + 1 \in 0 .. MaxRevision
    BY <1>1, TreeAssumption DEF TreeSound, RootSound
  <2> QED BY <1>1, <1>5, <1>8, <2>1 DEF TreeSound, RootSound
<1>10. SumsSound(i)'
  <2>1. \A S \in SUBSET LeavesOf(i) : Total(nodes', S) = Total(nodes, S)
    BY <1>2, NodesAgree
  <2>2. ASSUME NEW S \in SUBSET LeavesOf(i), NEW T \in SUBSET fresh
        PROVE  Total(nodes', S \union T)
                  = addClaims(Total(nodes, S), Total(nodes', T))
    <3>1. S \in SUBSET Nodes /\ T \in SUBSET Nodes /\ S \intersect T = {}
      BY <1>2
    <3>2. Total(nodes', S \union T)
             = addClaims(Total(nodes', S), Total(nodes', T))
      BY <1>2, <3>1, NodesSplit
    <3> QED BY <2>1, <3>2
  <2>3. roots'[i].current = Total(nodes', LeavesOf(i)')
    BY <1>1, <1>2, <1>5, <2>2 DEF TreeSound, SumsSound
  <2>4. ASSUME NEW j \in NodesOf(i), nodes[j].kind = "scope"
        PROVE  /\ nodes'[j].subtree = Total(nodes', LeavesBelow(j)')
               /\ claimWithin(nodes'[j].subtree, nodes'[j].ceiling)
    <3> DEFINE put == {l \in fresh : nodes'[l].parent = j}
    <3>1. /\ add[j] = Total(nodes', put) /\ j \in Nodes \ fresh
          /\ claimWithin(addClaims(nodes[j].subtree, add[j]),
                         nodes[j].ceiling)
      BY <1>2, <2>4, SMTT(60) DEF Planted
    <3>2. /\ LeavesBelow(j)' = LeavesBelow(j) \union put
          /\ LeavesBelow(j) \in SUBSET LeavesOf(i) /\ put \in SUBSET fresh
      BY <1>2 DEF LeavesBelow, NodesOf
    <3>3. nodes[j].subtree = Total(nodes, LeavesBelow(j))
      BY <1>1, <2>4 DEF TreeSound, SumsSound
    <3> HIDE DEF put
    <3> QED BY <1>2, <2>2, <3>1, <3>2, <3>3
  <2>5. \A j \in NodesOf(i)' : nodes'[j].kind = "scope" =>
           j \in NodesOf(i) /\ nodes[j].kind = "scope"
    BY <1>2, <1>3
  <2> QED BY <1>5, <2>3, <2>4, <2>5 DEF SumsSound
<1>11. LeavesSound(i)'
  <2>1. \A j \in NodesOf(i)' : nodes'[j].tree = roots'[i].identity
    BY <1>1, <1>2, <1>3, <1>5 DEF TreeSound, LeavesSound
  <2>2. \A j \in NodesOf(i) : /\ j \in NodesOf(i)'
                              /\ nodes'[j].kind = nodes[j].kind
    BY <1>2
  <2>3. ASSUME NEW j \in LeavesOf(i) PROVE LeafSound(i, j)'
    BY <1>1, <1>2, <1>5, <1>7, <1>8, <2>2 DEF LeafSound
  <2>4. ASSUME NEW j \in fresh PROVE LeafSound(i, j)'
    <3>1. Undecided(roots'[i].pending.kind) = "reserved"
      BY <1>5 DEF Undecided
    <3> QED BY <1>3, <1>5, <1>8, <2>2, <3>1 DEF LeafSound
  <2> QED BY <1>2, <2>1, <2>3, <2>4 DEF LeavesSound
<1>12. PinsSound(i)'
  <2>1. pins' = pins /\ PinsOf(i)' = PinsOf(i)
    BY DEF PinsOf
  <2>2. ASSUME NEW j \in fresh
        PROVE  nodes'[j].pinCount
                  = Cardinality({p \in PinsOf(i) : j \in pins[p].members})
    <3>1. j \notin LeavesOf(i)
      BY <1>2
    <3>2. \A p \in PinsOf(i) : pins[p].members \subseteq LeavesOf(i)
      BY <1>1 DEF TreeSound, PinsSound
    <3>3. \A p \in PinsOf(i) : j \notin pins[p].members
      BY <3>1, <3>2
    <3> DEFINE holders == {p \in PinsOf(i) : j \in pins[p].members}
    <3>4. holders = {} /\ nodes'[j].pinCount = 0
      BY <1>3, <3>3
    <3> HIDE DEF holders
    <3>5. Cardinality(holders) = 0
      BY ONLY <3>4, FS_EmptySet
    <3> QED BY ONLY <3>4, <3>5 DEF holders
  <2>3. \A j \in NodesOf(i)' :
          nodes'[j].pinCount = Cardinality({p \in PinsOf(i) :
                                               j \in pins[p].members})
    BY <1>1, <1>2, <2>2 DEF TreeSound, PinsSound
  <2> QED BY <1>1, <1>2, <1>5, <2>1, <2>3 DEF TreeSound, PinsSound
<1>13. TreeInv'
  <2>1. NodesOnly(i) /\ PinsOnly(i)
    BY <1>2, <1>3 DEF NodesOnly, PinsOnly, InTree, NodesOf
  <2>2. \A j \in Nodes : nodes'[j].state = "free" => nodes'[j] = FreeNode
    BY <1>2, <1>3 DEF TreeInv, Registered, NodesOf
  <2>3. /\ reservedCompletions' = Cardinality(ActivePins')
        /\ pins' \in [PinSlots -> Pin]
    BY DEF TreeInv, TreeTypes, Registered, ActivePins
  <2>4. TreeSound(i)'
    BY <1>9, <1>10, <1>11, <1>12 DEF TreeSound
  <2> QED BY <1>2, <1>6, <2>1, <2>2, <2>3, <2>4, TreeStep
<1>14. Forms
  <2>1. NodesMove
    <3>1. ASSUME NEW j \in Nodes, nodes[j].state # "free"
          PROVE  NodeMove(nodes[j], nodes'[j])
      <4>1. nodes[j].state \in {"reserved", "live", "quiescing",
                                "free_authorized"}
        BY <1>1, <3>1 DEF Node
      <4> QED BY <1>2, <1>3, <3>1, <4>1 DEF NodeMove
    <3> QED BY <3>1 DEF NodesMove
  <2>2. \A k \in Slots : slots'[k].claim = slots[k].claim
    OBVIOUS
  <2>3. ASSUME now.funding = "funded" PROVE LedgerMove
    <3>1. \A k \in Slots : TreeCharge(k)' = TreeCharge(k)
      BY <1>4, <1>5, <2>3 DEF TreeCharge
    <3>2. used' = used
      BY <2>3 DEF ChargeUsed
    <3> QED BY <2>2, <3>1, <3>2, ChargesStand
  <2>4. ASSUME now.funding = "additive" PROVE TreeLedger!Next
    <3>1. \A k \in Slots \ {i} : TreeCharge(k)' = TreeCharge(k)
      BY <1>4 DEF TreeCharge
    <3>2. /\ TreeCharge(i) = now.current
          /\ TreeCharge(i)' = addClaims(now.current, total)
          /\ used' = addClaims(used, total)
      BY <1>5, <2>4 DEF TreeCharge, ChargeUsed
    <3>3. addClaims(used, total)
             = addClaims(subtractClaims(used, now.current),
                         addClaims(now.current, total))
      <4>1. \A k \in Classes : used[k] \in Nat /\ now.current[k] \in Nat
                               /\ total[k] \in Nat
        BY <1>1 DEF Root, Claim
      <4> QED BY <4>1 DEF addClaims, subtractClaims
    <3>4. TreeCharge(i)' \in Claim
      BY <1>1, <3>2, AddType DEF Root
    <3>5. Fits(used')
      BY <2>4, <3>2
    <3>6. used' = addClaims(subtractClaims(used, TreeCharge(i)),
                            TreeCharge(i)')
      BY <3>2, <3>3
    <3> QED BY <2>2, <3>1, <3>4, <3>5, <3>6, ChargeMoves
  <2>5. now.funding \in {"additive", "funded"}
    BY <1>1 DEF Root
  <2> QED BY <2>1, <2>3, <2>4, <2>5 DEF Forms, LedgerMove
<1> QED BY <1>13, <1>14

\* The leaf that a spec asks for, in the tree with the root.
LeafFor(i, root, g, spec, k) ==
    [FreeNode EXCEPT !.state = "reserved", !.kind = "allocation",
                     !.slot = i, !.tree = root.identity,
                     !.generation = g + k, !.parent = spec.scope.index,
                     !.key = spec.key, !.ceiling = spec.claim,
                     !.subtree = spec.claim, !.pending = g]

\* It is a node, with the fields the spec gives it.
LEMMA LeafForType ==
    ASSUME NEW i \in Slots, NEW root \in Root, NEW g \in Nat, NEW k \in Nat,
           NEW spec, spec.scope.index \in Nodes, spec.key \in Keys,
           spec.claim \in Claim
    PROVE  LET n == LeafFor(i, root, g, spec, k) IN
           /\ n \in Node /\ n.state = "reserved" /\ n.kind = "allocation"
           /\ n.slot = i /\ n.tree = root.identity
           /\ n.parent = spec.scope.index /\ n.subtree = spec.claim
           /\ n.pending = g /\ n.pinCount = 0
<1> DEFINE parent == spec.scope.index
           key == spec.key
           claim == spec.claim
<1>1. /\ FreeNode \in Node /\ FreeNode.pinCount = 0 /\ i \in Slots
      /\ root.identity \in Nat /\ g + k \in Nat /\ g \in Nat
      /\ parent \in 0 .. NodeCount /\ key \in Keys \union {0}
      /\ claim \in Claim
  BY BlankTypes, TreeAssumption DEF Root, FreeNode, Nodes
<1>2. LeafFor(i, root, g, spec, k)
        = [FreeNode EXCEPT !.state = "reserved", !.kind = "allocation",
                           !.slot = i, !.tree = root.identity,
                           !.generation = g + k, !.parent = parent,
                           !.key = key, !.ceiling = claim,
                           !.subtree = claim, !.pending = g]
  BY DEF LeafFor
<1> HIDE DEF parent, key, claim
<1>3. LET n == LeafFor(i, root, g, spec, k) IN
      /\ n \in Node /\ n.state = "reserved" /\ n.kind = "allocation"
      /\ n.slot = i /\ n.tree = root.identity /\ n.parent = parent
      /\ n.subtree = claim /\ n.pending = g /\ n.pinCount = 0
  BY ONLY <1>1, <1>2, ZenonT(60) DEF Node
<1> QED BY <1>3 DEF parent, claim

\* What a list of specs asks for: its nodes, what they add to each scope, and
\* what they carry.
WaveNodes(specs) == {NodeFor(k) : k \in 1 .. Len(specs)}
WaveAdds(specs) == [j \in Nodes |-> ScopeAddition(specs, j)]
WaveTotal(specs) == TotalClaim([k \in DOMAIN specs |-> specs[k].claim])

\* The wave that is asked for is planted, and the root carries its total.
LEMMA WavePlants ==
    ASSUME TreeInv, NEW t \in Trees, NEW specs \in SpecLists,
           NEW e, NEW id, NEW n, NEW fresh, NEW add, NEW total,
           reserveAllocationsForSession(t, e, id, n, specs),
           fresh = WaveNodes(specs), add = WaveAdds(specs),
           total = WaveTotal(specs)
    PROVE  /\ fresh \in SUBSET Nodes /\ add \in [Nodes -> Claim]
           /\ total \in Claim /\ total = Total(nodes', fresh)
           /\ Planted(t.parent.slot, fresh, add)
           /\ \A k \in 1 .. Len(specs) :
                /\ NodeFor(k) \in Nodes
                /\ LeafFor(t.parent.slot, t.root, nextLeaseGeneration,
                           specs[k], k) \in Node
<1> DEFINE i == t.parent.slot
           g == nextLeaseGeneration
           size == Len(specs)
           leaf(k) == LeafFor(i, t.root, g, specs[k], k)
           claims == [k \in 1 .. size |-> specs[k].claim]
<1>0. /\ fresh = {NodeFor(k) : k \in 1 .. size}
      /\ add = [j \in Nodes |-> ScopeAddition(specs, j)]
      /\ total = TotalClaim([k \in DOMAIN specs |-> specs[k].claim])
  BY DEF WaveNodes, WaveAdds, WaveTotal
<1> USE <1>0
<1>1. /\ validateLeaseTree(t) /\ size <= Cardinality(FreeNodes)
      /\ ValidSpecs(t, specs)
      /\ nodes' = [j \in Nodes |->
                     IF \E k \in 1 .. size : NodeFor(k) = j
                     THEN leaf(CHOOSE k \in 1 .. size : NodeFor(k) = j)
                     ELSE Enlarged(nodes[j], ScopeAddition(specs, j))]
  BY DEF reserveAllocationsForSession, LeafFor, Enlarged
<1>2. /\ i \in Slots /\ roots[i] = t.root /\ t.root \in Root /\ TreeSound(i)
      /\ g \in Nat /\ nodes \in [Nodes -> Node]
  BY <1>1, TreeAccepted, TreeAssumption DEF ActiveRoot, TreeInv, TreeTypes
<1>3. /\ size \in Nat /\ DOMAIN specs = 1 .. size /\ IsFiniteSet(1 .. size)
      /\ \A k \in 1 .. size : k \in Nat
      /\ \A k \in 1 .. size :
           /\ specs[k].scope \in NodeHandles /\ specs[k].key \in Keys
           /\ specs[k].claim \in Claim
  <2>1. size \in Nat /\ DOMAIN specs = 1 .. size
        /\ \A k \in 1 .. size :
             /\ specs[k].scope \in NodeHandles /\ specs[k].key \in Keys
             /\ specs[k].claim \in Claim
    BY SpecListType
  <2>2. IsFiniteSet(1 .. size)
    <3>1. 1 \in Int /\ size \in Int
      BY <2>1
    <3> QED BY <3>1, FS_Interval
  <2> QED BY <2>1, <2>2
<1>4. /\ \A k \in 1 .. size : NodeFor(k) \in FreeNodes
      /\ \A k, l \in 1 .. size : NodeFor(k) = NodeFor(l) => k = l
  BY <1>1, <1>3, NodesForWave
<1>5. \A k \in 1 .. size :
        LET scope == specs[k].scope IN
        /\ scope.index \in NodesOf(i) /\ scope.index \in Nodes
        /\ nodes[scope.index].kind = "scope"
        /\ claimWithin(addClaims(nodes[scope.index].subtree,
                                 ScopeAddition(specs, scope.index)),
                       nodes[scope.index].ceiling)
  <2> SUFFICES ASSUME NEW k \in 1 .. size
               PROVE  LET scope == specs[k].scope IN
                      /\ scope.index \in NodesOf(i) /\ scope.index \in Nodes
                      /\ nodes[scope.index].kind = "scope"
                      /\ claimWithin(addClaims(nodes[scope.index].subtree,
                                        ScopeAddition(specs, scope.index)),
                                     nodes[scope.index].ceiling)
    OBVIOUS
  <2>1. LET scope == specs[k].scope IN
        /\ validateLeaseNode(scope) /\ scope.parent = t.parent
        /\ scope.nodeKind = "scope"
        /\ claimWithin(addClaims(nodes[scope.index].subtree,
                                 ScopeAddition(specs, scope.index)),
                       nodes[scope.index].ceiling)
    BY <1>1, <1>3 DEF ValidSpecs
  <2> QED BY <1>3, <2>1, NodeAccepted
<1>6. \A k \in 1 .. size :
        /\ leaf(k) \in Node /\ leaf(k).state = "reserved"
        /\ leaf(k).kind = "allocation" /\ leaf(k).slot = i
        /\ leaf(k).tree = t.root.identity
        /\ leaf(k).parent = specs[k].scope.index
        /\ leaf(k).subtree = specs[k].claim
        /\ leaf(k).pending = g /\ leaf(k).pinCount = 0
  <2> HIDE DEF g, i, size
  <2> QED BY <1>2, <1>3, <1>5, LeafForType
<1> HIDE DEF leaf
<1>7. /\ fresh \in SUBSET Nodes
      /\ \A k \in 1 .. size : NodeFor(k) \in Nodes /\ NodeFor(k) \in fresh
      /\ \A j \in fresh : nodes[j].state = "free"
  BY <1>4 DEF FreeNodes
<1>8. \A k \in 1 .. size : nodes'[NodeFor(k)] = leaf(k)
  <2> SUFFICES ASSUME NEW k \in 1 .. size PROVE nodes'[NodeFor(k)] = leaf(k)
    OBVIOUS
  <2>1. (CHOOSE l \in 1 .. size : NodeFor(l) = NodeFor(k)) = k
    BY <1>4
  <2> QED BY <1>1, <1>7, <2>1
<1>9. \A j \in Nodes \ fresh :
        nodes'[j] = Enlarged(nodes[j], ScopeAddition(specs, j))
  BY <1>1
<1>10. total \in Claim /\ total = Total(nodes', fresh)
  <2> DEFINE h == [k \in 1 .. size |-> NodeFor(k)]
             carried == [j \in fresh |-> nodes'[j].subtree]
  <2>1. claims \in [1 .. size -> Claim]
    BY <1>3
  <2>2. carried \in [fresh -> Claim]
    BY <1>3, <1>6, <1>8
  <2>3. /\ \A k, l \in 1 .. size : h[k] = h[l] => k = l
        /\ fresh = {h[k] : k \in 1 .. size}
    BY <1>4
  <2>4. \A k \in 1 .. size : claims[k] = carried[h[k]]
    BY <1>6, <1>7, <1>8
  <2>5. total = TotalClaim(claims)
    BY <1>3
  <2>6. Total(nodes', fresh) = TotalClaim(carried)
    BY DEF Total
  <2> HIDE DEF h, carried, claims, size
  <2>7. TotalClaim(carried) = TotalClaim(claims)
    <3> DEFINE S == 1 .. size
    <3>1. /\ IsFiniteSet(S) /\ claims \in [S -> Claim]
          /\ Enumerates(h, S, fresh)
          /\ \A k \in S : claims[k] = carried[h[k]]
      BY <1>3, <2>1, <2>3, <2>4 DEF Enumerates
    <3> HIDE DEF S
    <3> QED BY ONLY <2>2, <3>1, TotalReindex
  <2>8. TotalClaim(claims) \in Claim
    BY <1>3, <2>1, TotalType
  <2> QED BY <2>5, <2>6, <2>7, <2>8
<1>11. ASSUME NEW j \in Nodes
       PROVE  /\ ScopeAddition(specs, j) \in Claim
              /\ ScopeAddition(specs, j)
                    = Total(nodes', {l \in fresh : nodes'[l].parent = j})
              /\ (\A k \in 1 .. size : specs[k].scope.index # j)
                    => ScopeAddition(specs, j) = ZeroClaim
  <2> DEFINE S == {k \in 1 .. size : specs[k].scope.index = j}
             T == {l \in fresh : nodes'[l].parent = j}
             h == [k \in S |-> NodeFor(k)]
             b == [k \in S |-> specs[k].claim]
             c == [l \in T |-> nodes'[l].subtree]
  <2>1. IsFiniteSet(S) /\ b \in [S -> Claim]
    BY <1>3, FS_Subset
  <2>2. c \in [T -> Claim]
    BY <1>3, <1>6, <1>8
  <2>3. \A k, l \in S : h[k] = h[l] => k = l
    BY <1>4
  <2>4. T = {h[k] : k \in S}
    <3>1. \A k \in 1 .. size : nodes'[NodeFor(k)].parent
                                  = specs[k].scope.index
      BY <1>6, <1>8
    <3>2. \A k \in S : NodeFor(k) \in T
      BY <1>7, <3>1
    <3>3. fresh = {NodeFor(k) : k \in 1 .. size}
      BY <1>4
    <3>4. \A l \in T : \E k \in S : l = NodeFor(k)
      BY <3>1, <3>3
    <3> HIDE DEF S, T
    <3>5. \A k \in S : h[k] = NodeFor(k)
      OBVIOUS
    <3> HIDE DEF h
    <3> QED BY ONLY <3>2, <3>4, <3>5
  <2>5. \A k \in S : b[k] = c[h[k]]
    <3>1. \A k \in S : h[k] \in T /\ nodes'[h[k]].subtree = specs[k].claim
      BY <1>6, <1>8, <2>4
    <3> QED BY <3>1
  <2>6. ScopeAddition(specs, j) = TotalClaim(b)
    BY <1>3 DEF ScopeAddition
  <2>7. Total(nodes', T) = TotalClaim(c)
    BY DEF Total
  <2>8. (\A k \in 1 .. size : specs[k].scope.index # j) => S = {}
    OBVIOUS
  <2> HIDE DEF h, b, c, S, T
  <2>9. TotalClaim(c) = TotalClaim(b)
    <3>1. Enumerates(h, S, T)
      BY <2>3, <2>4 DEF Enumerates
    <3> QED BY ONLY <2>1, <2>2, <2>5, <3>1, TotalReindex
  <2>10. TotalClaim(b) \in Claim /\ (S = {} => TotalClaim(b) = ZeroClaim)
    BY <2>1, TotalType
  <2> QED BY <2>6, <2>7, <2>8, <2>9, <2>10 DEF T
<1>12. add \in [Nodes -> Claim]
  BY <1>11
<1>13. Planted(i, fresh, add)
  <2>1. nodes' = [j \in Nodes |-> nodes'[j]]
    BY <1>1
  <2>2. ASSUME NEW j \in fresh
        PROVE  /\ nodes[j].state = "free" /\ nodes'[j] \in Node
               /\ nodes'[j].state = "reserved"
               /\ nodes'[j].kind = "allocation"
               /\ nodes'[j].slot = i /\ nodes'[j].tree = roots[i].identity
               /\ nodes'[j].parent \in NodesOf(i)
               /\ nodes[nodes'[j].parent].kind = "scope"
               /\ nodes'[j].pending = nextLeaseGeneration
               /\ nodes'[j].pinCount = 0
    <3>1. PICK k \in 1 .. size : j = NodeFor(k)
      OBVIOUS
    <3>2. nodes'[j] = leaf(k)
      BY <1>8, <3>1
    <3>3. /\ nodes'[j] \in Node /\ nodes'[j].state = "reserved"
          /\ nodes'[j].kind = "allocation" /\ nodes'[j].slot = i
          /\ nodes'[j].tree = t.root.identity
          /\ nodes'[j].parent = specs[k].scope.index
          /\ nodes'[j].pending = g /\ nodes'[j].pinCount = 0
      BY <1>6, <3>2
    <3>4. /\ specs[k].scope.index \in NodesOf(i)
          /\ nodes[specs[k].scope.index].kind = "scope"
      BY <1>5
    <3> QED BY <1>2, <1>7, <3>3, <3>4
  <2>3. \A j \in Nodes \ fresh : nodes'[j] = Enlarged(nodes[j], add[j])
    BY <1>9
  <2>4. ASSUME NEW j \in Nodes
        PROVE  IF j \in NodesOf(i) /\ nodes[j].kind = "scope"
               THEN /\ add[j] = Total(nodes', {l \in fresh :
                                                  nodes'[l].parent = j})
                    /\ claimWithin(addClaims(nodes[j].subtree, add[j]),
                                   nodes[j].ceiling)
               ELSE add[j] = ZeroClaim
    <3>1. /\ add[j] = ScopeAddition(specs, j)
          /\ add[j] = Total(nodes', {l \in fresh : nodes'[l].parent = j})
      BY <1>11
    <3>2. CASE \E k \in 1 .. size : specs[k].scope.index = j
      BY <1>5, <3>1, <3>2
    <3>3. CASE \A k \in 1 .. size : specs[k].scope.index # j
      <4>1. add[j] = ZeroClaim
        BY <1>11, <3>1, <3>3
      <4>2. nodes[j].subtree \in Claim
        BY <1>2 DEF Node
      <4>3. addClaims(nodes[j].subtree, add[j]) = nodes[j].subtree
        BY <4>1, <4>2, AddNothing
      <4> QED BY <1>2, <3>1, <4>1, <4>3 DEF TreeSound, SumsSound
    <3> QED BY <3>2, <3>3
  <2> QED BY <2>1, <2>2, <2>3, <2>4 DEF Planted
<1> QED BY <1>6, <1>7, <1>10, <1>12, <1>13 DEF leaf

\* A wave of reservations.
LEMMA ReserveKeeps ==
    ASSUME TreeInv, NEW t \in Trees, NEW specs \in SpecLists,
           NEW e, NEW id, NEW n,
           reserveAllocationsForSession(t, e, id, n, specs)
    PROVE  TreeInv' /\ Forms
<1> DEFINE i == t.parent.slot
           g == nextLeaseGeneration
           size == Len(specs)
           total == TotalClaim([k \in DOMAIN specs |-> specs[k].claim])
           fresh == {NodeFor(k) : k \in 1 .. size}
           add == [j \in Nodes |-> ScopeAddition(specs, j)]
           leaf(k) == LeafFor(i, t.root, g, specs[k], k)
           q == [NothingPending EXCEPT !.kind = "allocation",
                                       !.generation = g,
                                       !.completion = g + size + 2,
                                       !.claim = total]
           current == addClaims(t.root.current, total)
           root == [t.root EXCEPT !.current = current, !.pending = q]
           settled == [root EXCEPT !.generation = g + size + 1,
                                   !.revision = @ + 1]
           handles == {NodeAt(t.parent, NodeFor(k), leaf(k)) : k \in 1 .. size}
           new == handles
                    \union {DecisionAt("batch", t.parent, settled, slots[i])}
           none == {}
<1>1. /\ validateLeaseTree(t) /\ t.root.pending.kind = "none"
      /\ ~t.root.activated
      /\ claimWithin(root.current, root.ceiling)
      /\ t.root.funding = "additive" => Fits(addClaims(used, total))
      /\ structuralRevisionHeadroom(i, 2, 0)
      /\ reserveLeaseGenerations(size + 3)
      /\ ChargeUsed(i, total)
      /\ AdvanceTree(t.parent, root, g + size + 1, none, new)
      /\ UNCHANGED <<slots, nextGeneration, childVars, pins>>
  BY DEF reserveAllocationsForSession, LeafFor
<1>2. /\ t.parent \in Receipt /\ i \in Slots /\ roots[i] = t.root
      /\ t.root \in ActiveRoot /\ t.root \in Root /\ t.root.state = "active"
      /\ slots[i] \in Slot
  BY <1>1, TreeAccepted DEF ActiveRoot, TreeInv, TreeTypes
<1>3. /\ fresh \in SUBSET Nodes /\ add \in [Nodes -> Claim]
      /\ total \in Claim /\ total = Total(nodes', fresh)
      /\ Planted(i, fresh, add)
      /\ \A k \in 1 .. size : NodeFor(k) \in Nodes /\ leaf(k) \in Node
  <2>1. /\ fresh = WaveNodes(specs) /\ add = WaveAdds(specs)
        /\ total = WaveTotal(specs)
    BY DEF WaveNodes, WaveAdds, WaveTotal
  <2> HIDE DEF fresh, add, total
  <2>2. /\ fresh \in SUBSET Nodes /\ add \in [Nodes -> Claim]
        /\ total \in Claim /\ total = Total(nodes', fresh)
        /\ Planted(t.parent.slot, fresh, add)
        /\ \A k \in 1 .. Len(specs) :
             /\ NodeFor(k) \in Nodes
             /\ LeafFor(t.parent.slot, t.root, nextLeaseGeneration,
                        specs[k], k) \in Node
    BY <2>1, WavePlants
  <2> QED BY <2>2
<1>4. size \in Nat
  BY SpecListType
<1> HIDE DEF fresh, add, total, leaf, size
<1>5. handles \subseteq Token
  BY <1>2, <1>3, NodeHandleType DEF Token
<1>6. /\ g \in Nat /\ g + size + 1 \in Nat /\ g + size + 2 \in Nat
      /\ nextLeaseGeneration' \in 1 .. MaxLeaseGeneration
      /\ reservedCompletions' = reservedCompletions
  <2>1. size + 3 \in Nat /\ 0 \in Nat
    BY <1>4
  <2> DEFINE count == size + 3
  <2> HIDE DEF count
  <2>2. g \in Nat
    BY TreeAssumption DEF TreeInv, TreeTypes
  <2>3. reserveLeaseGenerations(count) /\ count \in Nat
    BY <1>1, <2>1 DEF count
  <2>4. /\ nextLeaseGeneration' \in 1 .. MaxLeaseGeneration
        /\ reservedCompletions' = reservedCompletions
    BY <2>3, GenerationsFit DEF reserveLeaseGenerations
  <2> QED BY <1>4, <2>2, <2>4
<1>7. /\ q \in Pending /\ q.kind = "allocation" /\ q.generation = g
      /\ q.claim = total
  <2> DEFINE c == g + size + 2
  <2>1. /\ NothingPending \in Pending /\ g \in Nat /\ c \in Nat
        /\ total \in Claim
    BY <1>3, <1>6, BlankTypes
  <2> HIDE DEF g, c
  <2>2. q = [NothingPending EXCEPT !.kind = "allocation", !.generation = g,
                                   !.completion = c, !.claim = total]
    BY DEF c
  <2> HIDE DEF q
  <2> QED BY ONLY <2>1, <2>2 DEF Pending
<1>8. current \in Claim
  BY <1>2, <1>3, AddType DEF Root
<1> HIDE DEF q, current
<1>9. /\ root \in ActiveRoot /\ root.pending = q /\ root.current = current
      /\ root.identity = t.root.identity /\ root.ceiling = t.root.ceiling
      /\ root.funding = t.root.funding
      /\ root.activated = t.root.activated /\ root.revision = t.root.revision
  <2>1. root = Carrying(t.root, q, current)
    <3>1. t.root \in Root
      BY <1>2
    <3> QED BY ONLY <3>1 DEF Carrying, Root
  <2> HIDE DEF root
  <2> QED BY <1>2, <1>7, <1>8, <2>1, RootCarries
<1> HIDE DEF root
<1> DEFINE h == g + size + 1
<1>10. settled = Advanced(root, h) /\ settled \in ActiveRoot
       /\ settled.pending = q
  <2>1. settled = Advanced(root, h) /\ h \in Nat
    BY <1>6 DEF Advanced
  <2> HIDE DEF settled, h
  <2> QED BY <1>9, <2>1, AdvancedType
<1> HIDE DEF settled, handles
<1>11. new \subseteq Token
  <2>1. {DecisionAt("batch", t.parent, settled, slots[i])} \subseteq Token
    BY <1>2, <1>7, <1>10, DecisionType DEF DecisionOn
  <2> QED BY <1>5, <2>1
<1>12. /\ AdvanceTree(t.parent, root, h, none, new) /\ h \in Nat
       /\ children' = children /\ UNCHANGED <<slots, nextGeneration, pins>>
  BY <1>1, <1>6 DEF childVars
<1>13. roots[i].revision < MaxRevision
  <2>1. roots[i].revision + 2 <= MaxRevision /\ t.root.revision \in Nat
    BY <1>1, <1>2, RevisionFits DEF Root
  <2> QED BY <1>2, <2>1, TreeAssumption
<1>14. root.current = addClaims(roots[i].current, total)
  BY <1>2, <1>9 DEF current
<1> HIDE DEF new, none, h
<1> QED BY <1>1, <1>2, <1>3, <1>6, <1>7, <1>9, <1>11, <1>12, <1>13, <1>14,
           PlantKeeps

-----------------------------------------------------------------------------
(* Every step.                                                             *)

\* What callers present are numbers.
LEMMA CallersPresentNumbers ==
    /\ \A e \in RequestEpochs : e \in Nat
    /\ \A id \in SessionIds : id \in Nat
    /\ \A n \in Sequences : n \in Nat
    /\ \A g \in 0 .. MaxPermitGeneration : g \in Nat
    /\ \A point \in RestorePoints : point[1] \in Nat /\ point[2] \in Nat
BY BankAssumption, TreeAssumption DEF Sequences

\* The receipt operations keep the invariant.
LEMMA ReceiptStepKeeps ==
    ASSUME TreeInv, ReceiptStep PROVE TreeInv' /\ Forms
<1>1. UNCHANGED treeVars
  BY DEF ReceiptStep
<1>2. /\ roots \in [Slots -> Root]
      /\ \A t \in Receipts : t \in issued /\ t \in Receipt /\ t.slot \in Slots
      /\ \A t \in Reservations : t \in issued /\ t \in Reservation
                                 /\ t.slot \in Slots
  BY TokenKinds DEF TreeInv, TreeTypes, Receipts, Reservations, Receipt,
                    Reservation
<1>3. ASSUME NEW c \in RequestClaims, reserve(c) PROVE TreeInv' /\ Forms
  BY <1>1, <1>3, ReserveTree
<1>4. ASSUME NEW t \in Reservations, commit(t) PROVE TreeInv' /\ Forms
  BY <1>1, <1>4, CommitTree
<1>5. ASSUME NEW t \in Reservations, cancel(t) PROVE TreeInv' /\ Forms
  <2>1. /\ slots[t.slot].state # "committed" /\ slots[t.slot].claim = t.claim
        /\ ClearSlot(t)
    BY <1>5 DEF cancel, validateReservation
  <2>2. roots[t.slot].state = "free"
    BY <1>2, <2>1, NoTreeWithoutReceipt DEF FreeRoot
  <2> QED BY <1>1, <1>2, <2>1, <2>2, ClearSlotTree
<1>6. ASSUME NEW t \in Receipts, ~hasActiveLeaseTree(t.slot),
             validateReceipt(t), ClearSlot(t)
      PROVE  TreeInv' /\ Forms
  <2>1. /\ slots[t.slot].claim = t.claim /\ roots[t.slot].state = "free"
    BY <1>2, <1>6 DEF validateReceipt, hasActiveLeaseTree, Root
  <2> QED BY <1>1, <1>2, <1>6, <2>1, ClearSlotTree
<1>7. ASSUME NEW t \in Receipts, NEW e \in Nat, NEW id \in Nat, NEW n \in Nat,
             \/ bindPublicationSessionLocked(t, e, id)
             \/ beginPublicationLocked(t, e, id, n)
             \/ closePublicationSession(t, e, id, n)
      PROVE  TreeInv' /\ Forms
  BY <1>1, <1>2, <1>7, SessionTree
<1>8. ASSUME NEW t \in Permits,
             commitPublicationAssumeValid(t) \/ abortPublication(t)
      PROVE  TreeInv' /\ Forms
  BY <1>1, <1>8, PermitTree
<1>9. CASE \E c \in RequestClaims : reserve(c)
  BY <1>3, <1>9
<1>10. CASE \E t \in Reservations : commit(t) \/ cancel(t)
  BY <1>4, <1>5, <1>10
<1>11. ASSUME NEW t \in Receipts, ~hasActiveLeaseTree(t.slot),
              \/ release(t)
              \/ \E e \in RequestEpochs, id \in SessionIds :
                   bindPublicationSession(t, e, id)
              \/ \E e \in RequestEpochs, id \in SessionIds, n \in Sequences :
                   \/ beginPublication(t, e, id, n)
                   \/ closePublicationSessionAndRelease(t, e, id, n)
       PROVE  TreeInv' /\ Forms
  <2>1. CASE release(t)
    BY <1>6, <1>11, <2>1 DEF release
  <2>2. ASSUME NEW e \in RequestEpochs, NEW id \in SessionIds,
               bindPublicationSession(t, e, id)
        PROVE  TreeInv' /\ Forms
    <3>1. e \in Nat /\ id \in Nat /\ 0 \in Nat
      BY CallersPresentNumbers
    <3>2. bindPublicationSessionLocked(t, e, id)
      BY <2>2 DEF bindPublicationSession
    <3> QED BY <1>7, <3>1, <3>2
  <2>3. ASSUME NEW e \in RequestEpochs, NEW id \in SessionIds,
               NEW n \in Sequences, beginPublication(t, e, id, n)
        PROVE  TreeInv' /\ Forms
    <3>1. beginPublicationLocked(t, e, id, n)
      BY <2>3 DEF beginPublication
    <3> QED BY <1>7, <3>1, CallersPresentNumbers
  <2>4. ASSUME NEW e \in RequestEpochs, NEW id \in SessionIds,
               NEW n \in Sequences,
               closePublicationSessionAndRelease(t, e, id, n)
        PROVE  TreeInv' /\ Forms
    BY <1>6, <1>11, <2>4 DEF closePublicationSessionAndRelease
  <2> QED BY <1>11, <2>1, <2>2, <2>3, <2>4
<1>12. CASE \E t \in Receipts, e \in RequestEpochs, id \in SessionIds,
               n \in Sequences : closePublicationSession(t, e, id, n)
  BY <1>7, <1>12, CallersPresentNumbers
<1>13. CASE \E t \in Permits :
              commitPublicationAssumeValid(t) \/ abortPublication(t)
  BY <1>8, <1>13
<1> QED BY <1>9, <1>10, <1>11, <1>12, <1>13 DEF ReceiptStep

\* Publication over a tree keeps the invariant.
LEMMA BindKeeps ==
    ASSUME TreeInv, NEW t \in Trees, NEW e \in Nat, NEW id \in Nat,
           NEW n \in Nat,
           \/ bindPublicationSessionWithLeaseTree(t, e, id)
           \/ beginPublicationWithLeaseTree(t, e, id, n)
    PROVE  TreeInv' /\ Forms
<1>1. validateLeaseTree(t) /\ UNCHANGED treeVars
      /\ \/ bindPublicationSessionLocked(t.parent, e, id)
         \/ beginPublicationLocked(t.parent, e, id, n)
  BY DEF bindPublicationSessionWithLeaseTree, beginPublicationWithLeaseTree
<1>2. t.parent \in Receipt
  BY <1>1, TreeAccepted
<1> DEFINE r == t.parent
<1> HIDE DEF r
<1>3. r \in Receipt /\ \/ bindPublicationSessionLocked(r, e, id)
                       \/ beginPublicationLocked(r, e, id, n)
  BY <1>1, <1>2 DEF r
<1> QED BY <1>1, <1>3, SessionTree

\* The steps that open, close and publish trees keep the invariant.
LEMMA TopologyStepKeeps ==
    ASSUME TreeInv, TopologyStep PROVE TreeInv' /\ Forms
<1>1. CASE \E t \in Receipts, c \in Ceilings, f \in FundingModes :
              openLeaseTreeWithFundingMode(t, c, f)
  BY <1>1, OpenTreeKeeps
<1>2. CASE \E t \in Trees, key \in Keys, c \in Ceilings :
              openLeaseScope(t, key, c)
  BY <1>2, OpenScopeKeeps
<1>3. CASE \E t \in Trees : closeLeaseTree(t)
  BY <1>3, CloseKeeps
<1>4. CASE \E t \in Trees, e \in RequestEpochs, id \in SessionIds :
              bindPublicationSessionWithLeaseTree(t, e, id)
  <2>1. 0 \in Nat
    OBVIOUS
  <2> QED BY <1>4, <2>1, BindKeeps, CallersPresentNumbers
<1>5. CASE \E t \in Trees, e \in RequestEpochs, id \in SessionIds,
              point \in RestorePoints :
              bindRestoredPublicationSession(t, e, id, point[1], point[2])
  <2>1. PICK t \in Trees, e \in RequestEpochs, id \in SessionIds,
             point \in RestorePoints :
             bindRestoredPublicationSession(t, e, id, point[1], point[2])
    BY <1>5
  <2> DEFINE n == point[1]
             g == point[2]
  <2>2. /\ e \in Nat /\ id \in Nat /\ n \in Nat /\ g \in Nat
        /\ bindRestoredPublicationSession(t, e, id, n, g)
    BY <2>1, CallersPresentNumbers
  <2> HIDE DEF n, g
  <2> QED BY <2>2, RestoreTree
<1>6. CASE \E t \in Trees, e \in RequestEpochs, id \in SessionIds,
              n \in Sequences : beginPublicationWithLeaseTree(t, e, id, n)
  BY <1>6, BindKeeps, CallersPresentNumbers
<1>7. CASE \E t \in Trees, e \in RequestEpochs, id \in SessionIds,
              n \in Sequences :
              closeActivatedRestoredPublicationSession(t, e, id, n)
  BY <1>7, CloseKeeps
<1> QED BY <1>1, <1>2, <1>3, <1>4, <1>5, <1>6, <1>7 DEF TopologyStep

\* The steps of a publication session on its tree keep the invariant.
LEMMA SessionStepKeeps ==
    ASSUME TreeInv, SessionStep PROVE TreeInv' /\ Forms
<1>1. PICK t \in Trees, e \in RequestEpochs, id \in SessionIds,
           n \in Sequences :
        \/ \E specs \in SpecLists :
              reserveAllocationsForSession(t, e, id, n, specs)
        \/ \E scope \in NodeHandles :
              \/ beginRetireSubtreeForSession(t, scope, e, id, n)
              \/ \E leaves \in LeafSets :
                   acquireLeasePinsForSession(t, scope, e, id, n, leaves)
        \/ \E b \in Batches, g \in 0 .. MaxPermitGeneration :
              commitFundedAllocationsAndActivateRestoredPublication(
                  t, b, e, id, n, g)
  BY DEF SessionStep
<1>2. e \in Nat /\ id \in Nat /\ n \in Nat
  BY CallersPresentNumbers
<1>3. ASSUME NEW specs \in SpecLists,
             reserveAllocationsForSession(t, e, id, n, specs)
      PROVE  TreeInv' /\ Forms
  BY <1>3, ReserveKeeps
<1>4. ASSUME NEW scope \in NodeHandles,
             beginRetireSubtreeForSession(t, scope, e, id, n)
      PROVE  TreeInv' /\ Forms
  BY <1>4, RetireKeeps
<1>5. ASSUME NEW scope \in NodeHandles, NEW leaves \in LeafSets,
             acquireLeasePinsForSession(t, scope, e, id, n, leaves)
      PROVE  TreeInv' /\ Forms
  <2>1. leaves \in SUBSET NodeHandles
    BY DEF LeafSets
  <2> QED BY <1>2, <1>5, <2>1, AcquireKeeps
<1>6. ASSUME NEW b \in Batches, NEW g \in 0 .. MaxPermitGeneration,
             commitFundedAllocationsAndActivateRestoredPublication(
                 t, b, e, id, n, g)
      PROVE  TreeInv' /\ Forms
  BY <1>6, ActivateKeeps
<1> QED BY <1>1, <1>3, <1>4, <1>5, <1>6

\* The steps that settle a decision or release a pin keep the invariant.
LEMMA DecisionStepKeeps ==
    ASSUME TreeInv, DecisionStep PROVE TreeInv' /\ Forms
<1>1. ASSUME NEW t \in Batches,
             commitAllocationsAfterAllocate(t) \/ abortAllocationsAfterFree(t)
      PROVE  TreeInv' /\ Forms
  BY <1>1, CommitAllocationsKeeps, AbortKeeps
<1>2. ASSUME NEW t \in Tickets, cancelRetire(t) \/ authorizeFree(t)
      PROVE  TreeInv' /\ Forms
  BY <1>2, CommitAllocationsKeeps, AuthorizeKeeps
<1>3. ASSUME NEW t \in FreePermits, commitFreeAfterAllocatorFree(t)
      PROVE  TreeInv' /\ Forms
  BY <1>3, AbortKeeps
<1>4. ASSUME NEW t \in PinPermits, releaseLeasePins(t)
      PROVE  TreeInv' /\ Forms
  BY <1>4, ReleaseKeeps
<1> QED BY <1>1, <1>2, <1>3, <1>4 DEF DecisionStep

\* A step that changes nothing keeps everything.
LEMMA NothingMoves ==
    ASSUME TreeInv, UNCHANGED allVars PROVE TreeInv' /\ Forms
<1>1. /\ slots' = slots /\ children' = children /\ used' = used
      /\ nextGeneration' = nextGeneration /\ issued' = issued
      /\ roots' = roots /\ nodes' = nodes /\ pins' = pins
      /\ nextLeaseGeneration' = nextLeaseGeneration
      /\ reservedCompletions' = reservedCompletions
  BY DEF allVars, vars, treeVars, generationVars, childVars, handleVars
<1>2. ASSUME NEW k \in Slots PROVE TreeSound(k)'
  <2>1. TreeSound(k) /\ NodesKept(k) /\ PinsKept(k)
    BY <1>1 DEF TreeInv, NodesKept, PinsKept
  <2> QED BY <1>1, <2>1, OtherTrees
<1>3. TreeTypes'
  BY <1>1 DEF TreeInv, TreeTypes
<1>4. Registered'
  BY <1>1 DEF TreeInv, Registered, ActivePins
<1>5. NodesMove
  BY <1>1 DEF NodesMove, NodeMove
<1>6. \A k \in Slots : TreeCharge(k)' = TreeCharge(k)
  BY <1>1 DEF TreeCharge
<1> QED BY <1>1, <1>2, <1>3, <1>4, <1>5, <1>6, ChargesStand
        DEF TreeInv, Forms

\* Every step keeps the invariant and has the two forms.
LEMMA TreeStepKeeps ==
    ASSUME TreeInv, [TreeNext]_allVars PROVE TreeInv' /\ Forms
BY ReceiptStepKeeps, TopologyStepKeeps, SessionStepKeeps, DecisionStepKeeps,
   NothingMoves DEF TreeNext

-----------------------------------------------------------------------------
(* The theorems.                                                           *)

\* A new Bank has no trees.
LEMMA TreeInitKeeps ==
    ASSUME TreeInit PROVE TreeInv
<1>1. /\ slots = [i \in Slots |-> FreeSlot]
      /\ children = [i \in Slots |-> FreeChild]
      /\ used = ZeroClaim /\ nextGeneration = 1 /\ issued = {}
      /\ roots = [i \in Slots |-> FreeRoot]
      /\ nodes = [j \in Nodes |-> FreeNode]
      /\ pins = [p \in PinSlots |-> FreePin]
      /\ nextLeaseGeneration = 1 /\ reservedCompletions = 0
  BY DEF TreeInit, Init
<1>2. /\ FreeNode.state = "free" /\ FreePin.state = "free"
      /\ FreeRoot.state = "free" /\ FreeRoot.current = ZeroClaim
      /\ FreeRoot.ceiling = ZeroClaim /\ FreeRoot.pending = NothingPending
  BY DEF FreeNode, FreePin, FreeRoot
<1>3. TreeTypes
  <2>1. nextLeaseGeneration \in 1 .. MaxLeaseGeneration
    BY <1>1, TreeAssumption
  <2> QED BY <1>1, <2>1, FreeTypes, BlankTypes, ZeroClaimType DEF TreeTypes
<1>4. ActivePins = {}
  BY <1>1, <1>2 DEF ActivePins
<1>5. Registered
  BY <1>1, <1>4, FS_EmptySet DEF Registered
<1>6. ASSUME NEW i \in Slots PROVE TreeSound(i)
  <2>1. NodesOf(i) = {} /\ PinsOf(i) = {} /\ LeavesOf(i) = {}
    BY <1>1, <1>2 DEF NodesOf, PinsOf, LeavesOf
  <2>2. Total(nodes, {}) = ZeroClaim
    BY <1>3, NodesTotal DEF TreeTypes
  <2>3. claimWithin(ZeroClaim, ZeroClaim)
    BY DEF claimWithin, ZeroClaim
  <2> QED BY <1>1, <1>2, <2>1, <2>2, <2>3
          DEF TreeSound, RootSound, SumsSound, LeavesSound, PinsSound
<1> QED BY <1>3, <1>5, <1>6 DEF TreeInv

\* The tree of every receipt is sound at every moment: its sums are those of
\* its leaves, its pending decision is about exactly the leaves that wait for
\* it, and its pin counts are those of the pins.
THEOREM TreesAreSound == TreeSpec => []TreeInv
<1>1. TreeInit => TreeInv
  BY TreeInitKeeps
<1>2. TreeInv /\ [TreeNext]_allVars => TreeInv'
  BY TreeStepKeeps
<1> QED BY <1>1, <1>2, PTL DEF TreeSpec

\* A set of pins is no larger than the pin storage.
LEMMA PinsBounded ==
    ASSUME NEW S \in SUBSET PinSlots
    PROVE  Cardinality(S) \in 0 .. PinSlotCount
<1>1. PinSlotCount \in Nat /\ PinSlotCount - 1 \in Int /\ 0 \in Int
  BY TreeAssumption
<1>2. IsFiniteSet(PinSlots)
      /\ Cardinality(PinSlots) = IF 0 > PinSlotCount - 1 THEN 0
                                 ELSE (PinSlotCount - 1) - 0 + 1
  BY <1>1, FS_Interval DEF PinSlots
<1>3. Cardinality(PinSlots) = PinSlotCount
  BY <1>1, <1>2
<1>4. Cardinality(S) \in Nat /\ Cardinality(S) <= Cardinality(PinSlots)
  BY <1>2, PinsFinite, FS_Subset
<1> QED BY <1>1, <1>3, <1>4

\* The tree storage keeps its shape and its counters their ranges.
THEOREM TreeTypesHold == TreeSpec => []TreeTypeOK
<1>1. ASSUME TreeInv PROVE TreeTypeOK
  <2>1. ASSUME NEW i \in Slots
        PROVE  /\ roots[i].state \in {"free", "active"}
               /\ roots[i].funding \in {"additive", "funded"}
               /\ roots[i].activated \in BOOLEAN
               /\ roots[i].pending.kind \in {"none", "allocation", "retire",
                                             "free"}
               /\ {roots[i].ceiling, roots[i].current} \subseteq Claim
               /\ roots[i].revision \in 0 .. MaxRevision
    <3>1. roots[i] \in Root /\ RootSound(i)
      BY <1>1 DEF TreeInv, TreeTypes, TreeSound
    <3>2. roots[i].pending \in Pending
      BY <3>1 DEF Root
    <3>3. FreeRoot.revision \in 0 .. MaxRevision
      BY TreeAssumption DEF FreeRoot
    <3>4. roots[i].revision \in 0 .. MaxRevision
      BY <3>1, <3>3 DEF Root, RootSound
    <3> QED BY <3>1, <3>2, <3>4 DEF Root, Pending
  <2>2. ASSUME NEW j \in Nodes
        PROVE  /\ nodes[j].state \in {"free", "reserved", "live", "quiescing",
                                      "free_authorized"}
               /\ nodes[j].subtree \in Claim
               /\ nodes[j].pinCount \in 0 .. PinSlotCount
    <3>1. nodes[j] \in Node
      BY <1>1 DEF TreeInv, TreeTypes
    <3>2. CASE nodes[j].state = "free"
      <4>1. nodes[j].pinCount = 0
        BY <1>1, <3>2 DEF TreeInv, Registered, FreeNode
      <4> QED BY <3>1, <4>1, TreeAssumption DEF Node
    <3>3. CASE nodes[j].state # "free"
      <4> DEFINE i == nodes[j].slot
                 holders == {p \in PinsOf(i) : j \in pins[p].members}
      <4>1. i \in Slots /\ j \in NodesOf(i)
        BY <3>1, <3>3 DEF Node, NodesOf
      <4>2. nodes[j].pinCount = Cardinality(holders)
        BY <1>1, <4>1 DEF TreeInv, TreeSound, PinsSound
      <4>3. holders \in SUBSET PinSlots
        BY DEF PinsOf
      <4> HIDE DEF holders
      <4> QED BY <3>1, <4>2, <4>3, PinsBounded DEF Node
    <3> QED BY <3>2, <3>3
  <2>3. reservedCompletions \in 0 .. PinSlotCount
    <3>1. ActivePins \in SUBSET PinSlots
      BY DEF ActivePins
    <3> QED BY <1>1, <3>1, PinsBounded DEF TreeInv, Registered
  <2>4. nextLeaseGeneration \in 1 .. MaxLeaseGeneration
    BY <1>1 DEF TreeInv, TreeTypes
  <2> QED BY <2>1, <2>2, <2>3, <2>4 DEF TreeTypeOK
<1>2. TreeInv => TreeTypeOK
  BY <1>1
<1> QED BY <1>2, TreesAreSound, PTL

\* The accounting that the code re-derives on every call never fails.
THEOREM AccountingHolds == TreeSpec => []TreeAccounting
<1>1. ASSUME TreeInv, NEW i \in Slots
      PROVE  LET root == roots[i] IN
             /\ root.state = "free" => NodesOf(i) = {} /\ PinsOf(i) = {}
             /\ root.state = "active" =>
                 /\ slots[i].state = "committed"
                 /\ root.current = ClaimOf(LeavesOf(i))
                 /\ claimWithin(root.current, root.ceiling)
                 /\ root.funding = "funded" =>
                       claimWithin(root.ceiling, slots[i].claim)
                 /\ Cardinality(PinsOf(i)) <= slots[i].claim[QueueClass]
  <2>1. RootSound(i) /\ SumsSound(i) /\ PinsSound(i)
    BY <1>1 DEF TreeInv, TreeSound
  <2>2. ClaimOf(LeavesOf(i)) = Total(nodes, LeavesOf(i))
    BY DEF ClaimOf, Total
  <2> QED BY <2>1, <2>2 DEF RootSound, SumsSound, PinsSound
<1>2. ASSUME TreeInv, NEW i \in Slots, roots[i].state = "active",
             NEW j \in NodesOf(i)
      PROVE  LET node == nodes[j]
                 root == roots[i] IN
             /\ node.tree = root.identity
             /\ node.pinCount =
                   Cardinality({p \in PinsOf(i) : j \in pins[p].members})
             /\ node.kind = "scope" =>
                   /\ node.subtree = ClaimOf(LeavesBelow(j))
                   /\ claimWithin(node.subtree, node.ceiling)
             /\ node.kind = "allocation" =>
                   /\ nodes[node.parent].kind = "scope"
                   /\ node.parent \in NodesOf(i)
                   /\ node.state # "live" => node.pinCount = 0
                   /\ node.state = "live" <=> j \notin PendingOf(i)
                   /\ root.funding = "funded" =>
                         (node.state = "reserved" <=> ~root.activated)
  <2>1. SumsSound(i) /\ LeavesSound(i) /\ PinsSound(i) /\ RootSound(i)
    BY <1>2 DEF TreeInv, TreeSound
  <2>2. ClaimOf(LeavesBelow(j)) = Total(nodes, LeavesBelow(j))
    BY DEF ClaimOf, Total
  <2>3. ASSUME nodes[j].kind = "allocation" PROVE LeafSound(i, j)
    BY <2>1, <2>3 DEF LeavesSound, LeavesOf
  <2>4. ASSUME j \in PendingOf(i)
        PROVE  Undecided(roots[i].pending.kind) # "live"
    BY <2>4 DEF Undecided
  <2>5. ASSUME nodes[j].kind = "allocation"
        PROVE  /\ nodes[nodes[j].parent].kind = "scope"
               /\ nodes[j].parent \in NodesOf(i)
               /\ nodes[j].state # "live" => nodes[j].pinCount = 0
               /\ nodes[j].state = "live" <=> j \notin PendingOf(i)
               /\ roots[i].funding = "funded" =>
                     (nodes[j].state = "reserved" <=> ~roots[i].activated)
    BY <2>3, <2>4, <2>5 DEF LeafSound
  <2> QED BY <2>1, <2>2, <2>5 DEF SumsSound, LeavesSound, PinsSound
<1>3. TreeInv => TreeAccounting
  BY <1>1, <1>2 DEF TreeAccounting
<1> QED BY <1>3, TreesAreSound, PTL

\* A pinned leaf is live: it is counted by the pin that names it, and what
\* waits for a decision is not counted.
PinnedAreLive ==
    \A p \in PinSlots : pins[p].state = "active" =>
        \A j \in pins[p].members : j \in Nodes /\ nodes[j].state = "live"

\* They are.
LEMMA PinnedIsLive == TreeInv => PinnedAreLive
<1> SUFFICES ASSUME TreeInv, NEW p \in PinSlots, pins[p].state = "active",
                    NEW j \in pins[p].members
             PROVE  j \in Nodes /\ nodes[j].state = "live"
  BY DEF PinnedAreLive
<1> DEFINE i == pins[p].slot
           holders == {q \in PinsOf(i) : j \in pins[q].members}
<1>1. i \in Slots /\ p \in PinsOf(i) /\ p \in holders
  BY DEF TreeInv, TreeTypes, Pin, PinsOf
<1>2. j \in LeavesOf(i) /\ LeafSound(i, j) /\ j \in NodesOf(i)
  BY <1>1 DEF TreeInv, TreeSound, PinsSound, LeavesSound, LeavesOf
<1>3. nodes[j].pinCount = Cardinality(holders)
  BY <1>1, <1>2 DEF TreeInv, TreeSound, PinsSound
<1>4. holders \in SUBSET PinSlots
  BY DEF PinsOf
<1> HIDE DEF holders
<1>5. Cardinality(holders) # 0
  <2>1. IsFiniteSet(holders)
    BY <1>4, PinsFinite
  <2> QED BY <1>1, <2>1, FS_EmptySet
<1> QED BY <1>2, <1>3, <1>5 DEF LeafSound, NodesOf

\* A leaf under a live command pin stays live, under the same generation.
THEOREM PinsHoldLeaves == TreeSpec => PinnedStaysLive
<1>1. ASSUME PinnedAreLive, PinnedAreLive', NodesMove,
             NEW p \in PinSlots, NEW j \in Nodes, pins[p].state = "active",
             pins'[p] = pins[p], j \in pins[p].members
      PROVE  /\ nodes'[j].state = "live"
             /\ nodes'[j].generation = nodes[j].generation
  <2>1. nodes[j].state = "live" /\ nodes'[j].state = "live"
    BY <1>1 DEF PinnedAreLive
  <2> QED BY <1>1, <2>1 DEF NodesMove, NodeMove
<1>2. TreeInv /\ [TreeNext]_allVars
        => PinnedAreLive /\ PinnedAreLive' /\ NodesMove
  <2>1. TreeInv /\ [TreeNext]_allVars => TreeInv' /\ NodesMove
    BY TreeStepKeeps DEF Forms
  <2> QED BY <2>1, PinnedIsLive, PTL
<1>3. TreeInv /\ [TreeNext]_allVars =>
        [\A p \in PinSlots, j \in Nodes :
           pins[p].state = "active" /\ pins'[p] = pins[p]
             /\ j \in pins[p].members
           => /\ nodes'[j].state = "live"
              /\ nodes'[j].generation = nodes[j].generation]_allVars
  BY <1>1, <1>2
<1> QED BY <1>3, TreesAreSound, PTL DEF TreeSpec, PinnedStaysLive

\* A leaf moves along its life cycle only: what was allocated leaves the tree
\* only once its free was authorized.
THEOREM LeavesLiveInOrder == TreeSpec => LeafLifecycle
<1> DEFINE Cycle ==
             \A j \in Nodes :
               LET old == nodes[j].state
                   new == IF nodes'[j].generation = nodes[j].generation
                          THEN nodes'[j].state ELSE "free"
               IN  nodes[j].kind = "allocation" /\ old # "free" =>
                     <<old, new>> \in {<<s, s>> : s \in {"reserved", "live",
                                            "quiescing", "free_authorized"}}
                       \union {<<"reserved", "live">>, <<"reserved", "free">>,
                               <<"live", "quiescing">>,
                               <<"quiescing", "live">>,
                               <<"quiescing", "free_authorized">>,
                               <<"free_authorized", "free">>}
<1>1. ASSUME TreeInv, NodesMove PROVE Cycle
  <2>1. nodes \in [Nodes -> Node]
    BY <1>1 DEF TreeInv, TreeTypes
  <2>2. ASSUME NEW j \in Nodes, nodes[j].kind = "allocation",
               nodes[j].state # "free"
        PROVE  NodeMove(nodes[j], nodes'[j])
               /\ nodes[j].state \in {"reserved", "live", "quiescing",
                                      "free_authorized"}
    BY <1>1, <2>1, <2>2 DEF NodesMove, Node
  <2> QED BY <2>2 DEF NodeMove
<1>2. TreeInv /\ [TreeNext]_allVars => NodesMove
  BY TreeStepKeeps DEF Forms
<1>3. TreeInv /\ [TreeNext]_allVars => [Cycle]_allVars
  BY <1>1, <1>2
<1> QED BY <1>3, TreesAreSound, PTL DEF TreeSpec, LeafLifecycle

\* The Bank with trees implements the ledger: every step charges one receipt
\* or one tree and moves Bank.used by the difference.
THEOREM TreesImplementLedger == TreeSpec => TreeImplementsLedger
<1>1. TreeInit => TreeLedger!Init
  BY SameTreeClaims DEF TreeInit, Init, TreeLedger!Init, TreeCharges,
     TreeHolders, FreeSlot, FreeRoot
<1>2. TreeInv /\ [TreeNext]_allVars =>
         [TreeLedger!Next]_(TreeLedger!ledgerVars)
  BY TreeStepKeeps DEF Forms, LedgerMove, TreeLedger!ledgerVars
<1> QED BY <1>1, <1>2, TreesAreSound, PTL
        DEF TreeSpec, TreeImplementsLedger, TreeLedger!Spec
=============================================================================
