# Glacier Engine: TLA+ models, checks and proofs

Glacier Engine is an inference engine in Zig. Its own logic is less in the
kernels than in the *authorities* around them: who may occupy memory, who may
publish a token, which external action was already performed, what survives a
crash. This directory models those authorities, checks them with TLC on small
instances and proves the central ones with TLAPS for every instance.

Zig files below are named relative to the repository's `src/`; files under
`bench/` and `docs/` relative to its root. The Python under `bench/` is of two
kinds. Some modules are *state models* of a Zig component, with the same
operations, phases and refusals, and their tests compare the two; object store,
sweep and payload file are modelled here from those. The larger part, by far,
verifies reports and drives benchmarks and campaigns: it keeps no state of its
own between calls and is not modelled (section 5).

## 1. Inventory

| Component (source) | State | Operations | Talks to | What must hold |
|---|---|---|---|---|
| **ResourceBank**: receipts, children, publication (`core/resource_bank.zig`) | slots, child slots, `used`, generations | reserve, commit, cancel, release; child open/grow/shrink/close; session bind/close; permit begin/commit/abort | every component that owns memory or publishes | no charge lost, stranded or returned twice; stale handles refused; each sequence published once |
| **ResourceBank**: LeaseTree and pins (same file) | roots, nodes, pins, lease generations | tree/scope open, allocation wave, retire, cancel, authorize, free, pin acquire/release, restore, teardown | receipts and sessions above; paged KV, devices | sums agree at every level; no memory freed under a command; every decision and pin can be settled |
| **ActionOutbox** (`core/tool_action_outbox_*.zig`) | journal file, replayed action states, remote entries | append, open, repair, close; dispatch, reconcile | file system; remote authority | each effect at most once; crash recovery; nothing uncertain for ever |
| LaneWeave scheduler (`core/lane_weave_qos.zig`) | lanes, virtual time, service permits | admit, select, settle, retire | Bank | fairness among lanes, deterministic order, no lost permit |
| Token transactions (`token_txn.zig`, `paged_*_token_txn.zig`) | KV length, RNG, counters, proposal | prepare, commit, abort | Bank permit, KV | all parts commit or none |
| Lane publication (`lane_*publication*.zig`) | several lanes' proposals | prepare, publish, roll back | token transactions, LaneWeave | a wave is all or nothing |
| KV caches (`*kv_cache.zig`, `cache/`) | page tables, leases | append, truncate, share, free | LeaseTree | a page has one owner |
| **Object store, collection, sweep** (`core/continuation_object_{store,sweep*}.zig`, `bench/continuation_object_{store,collection,sweep*}.py`) | slots, nine counters, leases; sweep journal; publication log | put, import, release, retire, lease, quarantine, repair; plan, prepare, abort, preview, publish, commit; append, repair, recover | payload file, bundles | counters and references exact; nothing freed before its record is durable, nothing held freed |
| **Payload file** (`core/continuation_object_payload*.zig`, `bench/continuation_object_payload_*.py`) | lock, active snapshot, records, candidates | create, open, publish a reclaim record, apply, recover | sweep records; file system | readers see whole snapshots of published plans; recovery completes |
| **Checkpoint file** (`core/continuation_checkpoint_file.zig`) | selector, archives | lease, publish, recover, read | prepared text | the selected checkpoint and its predecessor are complete |
| **Prepared-text delivery** (`prepared_text_*.zig`) | selected checkpoint, result sink, acknowledgements | bootstrap, advance source, advance target, inspect | checkpoint file, Bank | every result delivered in order, once, in the end; readers are not misled |
| HTTP and unary service (`server/`, `client/`) | worker pool, queue, watchdog | submit, run, time out, drain | the runtimes | every accepted request answered once; drain ends |
| Provider gateway (`core/provider_*.zig`) | in-flight requests, cost journal | coalesce, settle | network | a cost settled once |
| **Device allocation lease** (`core/device_allocation_lease.zig`) | lease and object slots, the adapter's registry | admit, cancel, materialize, release, retry a recovery | Bank children; adapter callbacks | no object lost or freed twice; charge before the first object and after the last; old tickets refused |
| Device lease trees, dispatch, loss (other `core/device_*.zig`) | quarantine, dispatch | allocate, submit, lose, recover | LeaseTree, pins | memory of a lost device is not reused early |
| Media runtime, model adapters, executors, loader, CLI/FFI, conformance drivers | – | – | – | numeric code, parsing and reports; not state machines of interest |

`PROJECT.json` lists every component with its files and the reason when it is
not modelled, and every hazard at its line.

**What is hard to test here.** Handles are plain values: a caller may copy one
and present it again after its slot was reused, on another thread. Several
operations come in begin/commit/abort pairs with other calls in between.
Counters are bounded (`u64` generations and revisions), and an operation that
was accepted must still be able to finish when they run out. The outbox may
lose its process or the machine between any two file operations, and its
requests may be lost, repeated or delayed past their retry. A sweep is bound to
a snapshot of a store that others go on using, and its log is written, repaired
and written again by leases that may be stale. Text delivery selects two files
one after the other; a process may be killed between them, and a reader looks
at both without a lock. A device lease is allocated object by object: any of
the allocations and frees may fail while other coordinators use the same adapter
and other clients the same Bank.

## 2. Modules

```
ClaimVectors -- Claims -- ResourceBank -- LeaseTree -- MCLeaseTree
      \                        |              |
       \              ResourceBankProofs -- LeaseTreeProofs
        \                      |                  |
         \                                LeaseTreeHandles
          \
           ChargeLedger (abstract)     refinement of ResourceBank, LeaseTree

OutboxRecords -- OutboxStore -----+
           \---- OutboxAuthority -+-- ActionOutbox -- MCActionOutbox,
                                           |          ActionOutboxProofs
                                     EffectLedger (abstract)     refinement

ResourceBank -- DeviceAllocation -- MCDeviceAllocation
      |                |
ResourceBankProofs -- DeviceAllocationProofs      refinement of ResourceBank

ObjectStore --+-- ObjectSweep -- MCObjectSweep
   |          |        |
   |   SweepLog     ContinuationProofs
 MCObjectStore         |
                  PayloadFile -- MCPayloadFile
                       |
               PayloadReclaim (abstract)     refinement

TextDelivery ---- TextDeliveryProofs
     |
TextDelivered (abstract)      refinement
```

The `MC` modules hold the constants of an instance and the properties that only
TLC checks; the `Proofs` and `Handles` modules hold theorems.
`FiniteSums`, which ResourceBankProofs, LeaseTreeProofs and ContinuationProofs
extend, has the lemmas about sums over finite sets.

### ClaimVectors, Claims
A claim is a function from resource class to amount (`Claim`, one field per
class in the code). Claims adds the limits: a limit per class and one for the
sum of the host classes.

### ResourceBank
`slots`, `children`, `used`, `nextGeneration`, `nextChildGeneration` are the
fields of `Bank`. Every public method locks the Bank's mutex for its whole
body, so each is one action, named after the method. `issued` keeps every
handle the Bank ever returned and every action may be called with any of them:
this is how copies, retries and races between threads enter the model.
`spent`, `replayed` and `published` are history variables; no guard reads them.
A rejected call changes only telemetry and is the absence of a step. Peaks,
counters, owner keys and child keys are left out (dropping a key only makes
handles easier to confuse). The integrity hash is modelled as what it covers.

### LeaseTree
Extends ResourceBank with `LeaseTreeStorage`: `roots` (one per receipt slot),
`nodes` (scopes and leaves), `pins`, `nextLeaseGeneration` and
`reservedCompletions` (the generations set aside for live pins). A wave of
allocations, a retirement and a free are *pending decisions* of a root, carried
by a batch, a ticket or a free permit. Additive trees charge `used`;
receipt-funded trees (restored requests) are paid for by their receipt. The
receipt operations appear again in `ReceiptStep` and `SessionStep` with the
guards that trees add to them. The node key and binding key are one key.

### DeviceAllocation
Extends ResourceBank with any number of `CoordinatorV1`s and the adapters they
share. `leases` and `objects` are a coordinator's slots; `objects` is a function
from (slot, generation, ordinal) to what the coordinator remembers, its domain
the object slots that are reserved. A coordinator method holds the coordinator's
mutex throughout but the Bank's and the adapter's only for one call each, so
`call` holds the method a coordinator is in and each Bank or adapter call is a
step: `materialize` or `releaseLease` begins one, `allocate`, `free` and their
failures go through the ordinals, `materialized`, `close` or `recover` ends it.
`backend` is the registry of `FakeBackendV1`, which may also report evidence
that the coordinator rejects. `tickets` keeps every admission, lease and
recovery ticket ever returned and any may be presented; `exchanged` (history) is
those a call took without returning them. `BankStep` is the rest of the Bank's
clients: they do anything except resize or close a child whose handle no
coordinator gives away. Evidence, digests, quotes and the outcome a terminal receipt
names are left out; two coordinators differ in their epoch.

### ChargeLedger
What the Bank promises: holders, a charge for each, and a total that moves by
exactly the difference of one holder's charge and never grows past the limits.

### OutboxRecords, OutboxStore, OutboxAuthority, ActionOutbox
`OutboxRecords` is the journal's life cycle: which record is applicable after
which journal, and the action states that replay yields. `OutboxStore` is the
file: `file` is what the operating system shows, `disk` the content of the last
sync. `appendRecord` is five steps (checks, body write, body sync, footer
write, footer sync with commit of the in-memory state), repair three; an I/O
error, process death or power loss may come between any two and in the middle
of a write. Unsynced writes may survive in part and out of order, so a footer
without its body is a frame that does not decode (`Torn`).
`OutboxAuthority` is the bounded fake authority, one atomic action per callback
under its mutex. `ActionOutbox` is the dispatch driver between them: `call` is
the dispatch whose callback runs, `wire` the requests that ever left the
process; any of them may arrive at any later time and more than once.

### EffectLedger
What the outbox promises: an effect at most once per idempotency key, a
compensation only after its parent is recorded as succeeded, and a terminal
record that is what happened and never changes.

### ObjectStore
`st` is the record of slots and counters of the Python class `Store`; an
operation is an action with the method's name and a function on `st`, so that
an import can run a sequence of them and undo it. Refused calls raise and
change nothing. `held` is the references callers were told they got: an import
that raises gave none. `issued` keeps every lease receipt; any may be shown
again. `decay` (only in `objects_import`) lets the bytes of a payload rot, the
case that `verify_all` and `quarantine` are there for. Provenance, tenant and
bundle scope and the digests are compared as the values they cover.

### SweepLog, ObjectSweep
`SweepLog` is `DeterministicStorage` with its lease, writer and repairer. A
record is four units, two of body and two of footer, and a write may stop after
any of them; a failed call may have had its effect or not. `length` is what
users see, `synced` the length last synced, and a crash leaves any length
between; `backing` keeps what lies beyond the current end, because a truncation
that was not synced may be undone. `handles` remembers by lease generation what
each lease, writer or repairer knows, also after another lease replaced it.
`ObjectSweep` composes log and store: `journal` and `preview` are the values
the caller carries between `prepare`, `preview_commit` and
`publish_then_commit`, while every operation of the store and every step of the
log may come between. The digest of a record is its chain of predecessors.

### PayloadFile, PayloadReclaim
Each file is absent, torn or whole. Processes create, open and close the store
under its lock, publish reclaim records and recover them; `recover` is the
method of that name with the `apply` it calls, up to the candidate file, which
`candidate_write` completes and `promote_rename` promotes. A process dies
anywhere; a write fails. What promises this is `PayloadReclaim`: a store that
shrinks by whole plans on record.

### TextDelivery, TextDelivered
`open` takes the checkpoint lease and reads the selected set; then the source
makes the empty sink and the target applies the next result; then the process
publishes the successor of its checkpoint. `checkpoint` and `sink` are what the
two selectors select; `torn` and `whole` are the files by name. The archive
and candidate of a set are made by `ensureExactFileV1`, which rewrites a wrong
file; the ledger's candidate is made anew. Several processes compete for the
lock and may be killed anywhere. `inspectDirectoryV1` is the reader: it takes
no lock, and each of its selector or file reads is a step. `TextDelivered` is
the promise: deliver, acknowledge, deliver the next, to the end. A result is
its sequence number: that the model's step computes the same token again is
assumed, as is that a retry passes the same step sink.

## 3. Runs

| Run | Instance | States | Shows |
|---|---|---|---|
| `bank` | 2 slots, 2 classes, limits 2 per class and 3 in sum | 280,000 | handles, conservation, publication order, refinement of ChargeLedger |
| `bank_closed` | as `bank`, session id 0 allowed | stops at the violation | the finding below |
| `tree` | 1 receipt, 3 nodes, 2 pins, waves of up to 2 leaves, additive or receipt-funded, fenced and legacy restore | 181,000 | settlement of decisions and pins at the counters' limit, conservation, accounting, leaf life cycle, no double charge in restore, activation, publication and teardown |
| `device` | 2 coordinators, 1 adapter, leases of 2 objects of 1 and 2 bytes, 2 Bank slots | 381,000 | no object lost, every live byte charged, exactly the open tickets accepted |
| `outbox` | 3 actions, 9 records, 2 faults | 110,000 | durability, recovery, intent order, fencing, refinement of EffectLedger |
| `outbox_live` | 2 actions, 7 records, 1 fault, with fairness | 240,000 | the journal's reserve holds, every uncertain action is settled |
| `objects` | 2 objects of 1 and 2 bytes, 3 references, 1 lease, 1 repair | 400,000 | counters and references after any sequence; no lease receipt returns |
| `objects_import` | the same, payloads decay, no leases | stops at the violation | the finding below |
| `sweep` | 2 objects, 2 records, 2 leases, 1 failed call, crashes | 620,000 | published records survive, payloads go after their record, nothing held is freed |
| `sweep_corrupt` | 1 record, 3 leases, 1 failed call | stops at the violation | the finding below |
| `payload` | 2 processes, 4 plans, 3 deaths or errors, with fairness | 8,700 | refinement of PayloadReclaim; a plan on record is carried out |
| `delivery` | 2 processes, 3 results, 3 deaths, 1 reader, with fairness | 33,000 | refinement of TextDelivered with its liveness; what readers are told |

**Why the bounds are enough for the cases that matter.**
*bank*: three generations over two slots mean that a slot is reused while
handles of its first occupant are still around; claims `{1,0}` and `{1,1}`
under limits 2/2/3 make a request fit each class but not the sum, and the sum
but not a class; two permits and two sequences let a permit be aborted,
retried and followed.
*tree*: three nodes hold a scope and a wave of two leaves; one receipt and one
full tree fill the Bank exactly; `MaxLeaseGeneration` and `MaxRevision` are
reached, so accepted work has to finish at the limit; nine revisions are a
number at which a pin could be stranded if none were set aside for it. Restore
points 〈1,1〉 (fenced) and 〈1,0〉 (legacy) are those of a request that had
published once, and two sequences let it publish again. `OneFunding` is a bound:
the trees of one behaviour are all additive or all funded; a receipt that has
one kind after the other is left to the proofs, which have no such bound.
*device*: each object fits the adapter alone and both leases do not, so two
admissions, both charged, meet in the adapter; two objects let the first of two
frees fail, or the second; the recovery generation saturates at its first step,
so the second recovery ticket has the generation of the first; the adapter can
allocate three objects and the Bank open two children, so a slot is used again
while tickets of its first lease are around, and the adapter runs out of
generations in the middle of a lease; two receipts give each lease a parent
of its own, to which another client may bind a session, so that `closeChild` fails.
*outbox*: nine records are a failed attempt, its retry and the compensation;
`again` shares the key of `pay`; two faults are a crash and another during its
recovery. *outbox_live*: with seven records a second dispatch is admitted while
the first is uncertain with nothing to spare.

*objects*: the import `<<a, b, a>>` reuses an entry it inserted itself, and three
references let it fail at each position, by budget or by the allocator.
*sweep*: one object may be swept, put again and retired again; two leases let a
stale writer and its successor meet; two records give a chain.
*payload*: two of the plans start from the full store and exclude each other,
two follow one of those; three deaths hit a process, its successor and the
successor's successor. *delivery*: three results give a first, a middle and a
terminal one; with three deaths a process, its successor and the next one can
all die within one advance.

Deadlock is checked in `payload` and `delivery`. Elsewhere it is not: callers
may simply stop calling, and the counters are bounded. That the system is not
stuck *with authority outstanding* is stated instead, by `NothingStranded`,
`AcceptedFinishes` and `Settles`.

**Fairness** in `outbox_live` (`FairSpec`): a call that was
started runs to its end (the code has no waiting inside a call); a caller whose
store is poisoned or repaired closes it and opens it again, and repairs a store
that keeps needing it; a caller keeps looking up uncertain actions; the
authority completes pending work and does not answer "unknown" for ever. The
first is the code's, the others are duties the design gives to the caller and
the remote service. Faults are finitely many. `KeepReserve` restricts callers
to enqueue only into spare records: `docs/ACTION_OUTBOX.md` leaves direct
appends to "caller discipline", the driver itself cannot enforce it; the
`outbox` run leaves the restriction out.
`FileSpec` (`payload`) and `DeliverySpec` (`delivery`): a process that is not
killed finishes its call, which never waits; the store is opened again while
its lock is free; whoever opens the payload file goes on trying the recovery of
every plan on record. The last is strong fairness of the caller, whose attempts
others may interrupt by holding the lock for a while. No fairness is asked of
readers or deaths, and deaths are finitely many.

**Assumptions on the environment.** A successful sync makes the file's content
durable, also after an earlier sync failed. Truncation is atomic. One process
holds the store (the advisory lock is not modelled). The authority's entries
outlive the outbox process. In `payload` and `delivery` only processes die, not
the machine, so syncs change nothing. `sweep` does lose power: storage keeps a
prefix, of a length between the one last synced and the one users saw, as
`crash_bounds` has it.

### Findings
`bank_closed`: `closePublicationSession` sets the session id to 0 and keeps the
request epoch as a tombstone; `beginPublicationLocked` does not reject session
id 0 as its siblings do, so a begin with id 0 yields a live permit on a closed
receipt, where the comment says "Closing is terminal for this receipt". The
callers in the repository derive ids from addresses and never pass 0. The
theorems assume `0 \notin SessionIds` for this reason.

`objects_import`: `import_bundle` undoes its references when a put fails, but
takes the snapshot for its receipt after the `try`. If any payload of the store
has decayed, or the grant does not allow verification, that snapshot raises and
the references of the import stay, held by nobody.
`docs/CONTINUATION_OBJECT_STORE.md` describes the import as atomic. The Zig
import takes the snapshot unchecked and is right.

`sweep_corrupt`: a repair truncates, its sync fails; a fresh lease sees a clean
stream and its writer opens it without a sync. If it then writes a part of a
body and the machine crashes, the stream may come back with the old length: the
first part of the new body and the last part of the old one.
`classify_recovery` rejects it as corrupt, and no repair is granted for corrupt
evidence, while the table of `docs/CONTINUATION_OBJECT_SWEEP_WRITER.md` promises
a prefix or a body tail. No published record is lost (`AckedSurvive`).

### Observations
* A reader that loads a checkpoint, and then the ledger of a later one, answers
  `InvalidAlignment`, because `reconcileV1` runs before the selectors are read
  again; `docs/PREPARED_TEXT_ACKNOWLEDGED_DELIVERY.md` promises
  `SelectionChanged` only for a race seen at the final reread.
  `ReaderBlamesOnlyRaces` states what holds: `InvalidAlignment` is answered only
  if the checkpoint moved meanwhile.
* A process that dies inside the write of a payload candidate leaves a torn one
  that every later recovery of that plan refuses; `RecoveryCompletes` excepts
  just this. One that dies while the payload file is created leaves a
  directory that can be neither created again nor opened.
* An object that was freed and put again starts with lease generation 1, so
  `LeaseNeverReturns` speaks of one life of an entry; the "retained lease
  generation" of `docs/CONTINUATION_OBJECT_LIFECYCLE.md` is the slot's.

## 4. Proofs

Each theorem holds for every value of the constants that satisfies the named
assumptions.

**The Bank** (`ResourceBankProofs`): any slots, classes, claims, limits and
counter bounds. Assumed: `ClassesAssumption`, `BankAssumption` (shapes of the
constants; the host classes are finitely many) and `0 \notin SessionIds`, because
of the finding above.

| Theorem | States |
|---|---|
| `TypeCorrect` | `Spec => []TypeOK` |
| `NoDoubleSettlement` | `Spec => []ConsumedOnce` |
| `HandlesAreExact` | `Spec => []HandlesExact` |
| `AuthorityIsHeld` | `Spec => []AuthorityHeld` |
| `HandlesAreTraceable` | `Spec => []HandlesTraceable` |
| `Conservation` | `Spec => []Conserved` |
| `ExactlyOncePublication` | `Spec => []PublishedOnce` |
| `FrozenWhilePublishing` | `Spec => FrozenUnderPermit` |
| `ClosingIsTerminal` | `Spec => []ClosedIsTerminal` |
| `Refinement` | `Spec => ImplementsLedger` |

The invariant is `IInv`, the conjunction of TypeOK, ConsumedOnce, HandlesExact,
AuthorityHeld and HandlesTraceable. None of the first four is inductive alone:
that a handle is not consumed twice follows from HandlesExact (a consumed
handle is not honoured); that a *new* handle is not an old consumed one needs
HandlesTraceable (its generation is above all earlier ones; a permit's
generation above all of its receipt's); that consuming one handle does not
disturb the others needs that they name another slot or an older generation.
The proof has one lemma per action and, for actions that exchange one handle
for another, a common lemma about the history variables. Type correctness of
`used` does not rest on the sum of all charges: each subtraction is guarded by
`claimWithin` in the code's checked arithmetic, and that guard suffices.
Refinement adds `FreeIsUncharged` (a free slot or child carries the zero claim)
and maps each action to one `Adjust` or to a stutter.

`Conservation` says that `used` is the sum of what slots and children hold. The
library's induction theorems cannot be used here, so `FiniteSums` shows by a
smallest counterexample (`WFMin` on the cardinality of the set) that a sum does
not depend on the order in which it is taken, and from that what changing one
summand does to it. `PublishedOnce` is inductive together with `IInv`, once it
is known that what was published are permits that were issued and that a slot
which is not committed has the next sequence 0.

**The trees** (`LeaseTreeProofs`): any numbers of slots, nodes and pins, any
claims, ceilings and keys, waves of any size, any bounds of generations and
revisions. Assumed: the two assumptions above and `TreeAssumption`.

| Theorem | States |
|---|---|
| `TreesAreSound` | `TreeSpec => []TreeInv` |
| `TreeTypesHold` | `TreeSpec => []TreeTypeOK` |
| `AccountingHolds` | `TreeSpec => []TreeAccounting` |
| `PinsHoldLeaves` | `TreeSpec => PinnedStaysLive` |
| `LeavesLiveInOrder` | `TreeSpec => LeafLifecycle` |
| `TreesImplementLedger` | `TreeSpec => TreeImplementsLedger` |

The code re-derives a tree's sums and its pin registry on every call and
refuses to go on when they are wrong; the theorems say they never are.
`TreeInv` speaks of one tree at a time (`TreeSound`), in four parts:
`RootSound` (a root exists only under a committed receipt, and what it records
as pending is the sum of the leaves that wait), `SumsSound` (root and scopes
hold the sums of their leaves, within their ceilings), `LeavesSound` (a leaf
waits exactly for its tree's decision, in the one state that decision puts it
in) and `PinsSound` (a leaf counts the pins that name it, and pins name leaves
of their own tree). `TreeAccounting` alone is not inductive: settling a
decision subtracts the claim that was recorded when it was accepted, and is
right only if the leaves that wait carry just that claim; dropping a leaf is
right only if no pin counts on it.

Each step lemma proves more than the invariant: `NodesMove`, what may become
of a node, and `LedgerMove`, that one holder's charge and `used` move together.
From these the two action properties and the refinement follow. Frame lemmas
say once that receipt operations leave trees alone and that an operation on
one tree leaves all others alone. The hard step is the allocation wave, which
puts its k-th leaf into the k-th free node and may charge several scopes at
once: `NodesForWave` shows that different leaves get different nodes, and
`TotalReindex` that the sum over those nodes is the sum over the request.

**The handles of a Bank with trees** (`LeaseTreeHandles`): as above, and
`0 \notin SessionIds`: without it a permit begun with id 0 on an unbound receipt
would be forgotten by the next bind.

| Theorem | States |
|---|---|
| `TreeHandlesSound` | `TreeSpec => [](TreeInv /\ HandlesSound)` |
| `TreeHandlesAreExact` | `TreeSpec => []TreeHandlesExact` |
| `TreeConsumedOnce` | `TreeSpec => []ConsumedOnce` |

A handle *stands* if a record of the Bank names it: a slot names its
reservation, receipt or permit, a root its tree handle and the decision pending
on it, a node and a pin their own handle. `HandlesSound` says that the standing
handles are exactly those issued and not consumed. This is stronger than
`TreeHandlesExact`, which speaks of issued handles only: it also says that
no record names a handle that nobody was given, so a wave or a release that
clears a record consumes a handle somebody has. It needs `Behind` (identity,
generation and revision of every issued handle lie behind the counters that new
ones are taken from, so a new handle never was before) and `SessionSound` (no
decision is pending under a live permit, so a decision's session cannot move).
`HandleStep` reduces a step to one question: which standing handles did it end,
and which did it begin (`Turns`)? `SlotStepHandles` and `TreeChangeHandles` show
that only the handles of one slot can; each action's lemma then answers for its
slot. Because a tree handle is a copy of the whole root, every structural change
ends it and begins the next: the revision, which moves by one, tells them apart
even where the generation was set aside long before.

**What trees set aside** (also `LeaseTreeHandles`): only the last theorem needs `0 \notin SessionIds`.

| Theorem | States |
|---|---|
| `TreeConservation` | `TreeSpec => []TreeConserved` |
| `RoomIsHeld` | `TreeSpec => []RoomHeld` |
| `AcceptedCanFinish` | `TreeSpec => []AcceptedFinishes` |

`NothingStranded` says with `ENABLED` that a pin can be released
(`PinReleasable`) and a decision settled (`DecisionSettles`). What could prevent
it are the checks of the calls, and `AcceptedFinishes` says that all of them
pass (the checks of `releaseLeasePins` are `CanRelease`, which the action itself
uses; that no decision is pending on the tree is left to the caller, who can
settle it).
`RoomHeld` is the invariant for it. `Promised` is the generation each live pin
has set aside. `RoomLeft` counts the revisions a tree still owes: one for each
pin, one for a batch or a free permit, two for a ticket. `PinInSession` says
that the session of a pin is still its receipt's, with no permit live. A
session could be closed under a pin only if its tree carried nothing, which is
why `LeavesCarry` (a leaf's claim is not zero, `NoLeaves`) is part of it. That a
decision can give back what it holds needs conservation: its claim is a part of
its tree's, and its tree's a summand of `used` (`PendingIsCharged`).
`TreeConservation` is proved as for the Bank alone, from the step of the ledger
(`LedgerMove`) that each step lemma already yields.

**The action outbox** (`ActionOutboxProofs`): any actions and keys, any length
of journal, any number of faults, requests and late deliveries. Assumed:
`RecordsAssumption` (shapes; finitely many actions).

| Theorem | States |
|---|---|
| `JournalNeverTorn` | `OutboxSpec => []OutboxTypeOK` |
| `CallersReadDurableState` | `OutboxSpec => []ViewIsDurable` |
| `ReceiptsAreDurable` | `OutboxSpec => []ReceiptsKept` |
| `AlwaysReopens` | `OutboxSpec => []Reopens` |
| `IntentBeforeEffect` | `OutboxSpec => []IntentFirst` |
| `RetriesAreFenced` | `OutboxSpec => []RetryOnlyFenced` |
| `ReserveIsHeld` | `OutboxSpec => []ReserveHeld`, if callers keep the reserve (`KeepReserve`) |
| `EffectsAreLedgered` | `OutboxSpec => ImplementsEffects` |

The invariant is `OutboxInv`, of three parts. `StoreInv` relates the file as
the system shows it, its content at the last sync and the record being
appended, for each place `io` where an append or a repair may be; it has to
name the forms an interrupted write can leave, since a crash may come in any of
them. `AuthorityInv` relates journal and authority: nothing is on the wire, and
no entry exists, without a durable intent for that attempt; what an entry
accepted and what it fenced were each intended; and a recorded outcome agrees
with the entry it is about. `IntentFirst` and
`RetryOnlyFenced` are not inductive because they speak only of effects that
happened, while what may still happen sits in `wire` and `entries`.
`ReserveInv` counts the records an uncertain action still needs; `ReserveIsHeld`
takes `KeepReserve` as hypothesis because only callers can keep it (section 3).
The lemma the proof stands on is `ReplayAppend`: replaying a journal with one
more record is one transition of the old states. A replay is a recursive
function, and the lemma is proved from its definition for every journal.
For the refinement an effect is `Perform` and a terminal record is `Note`; every
other step is a stutter.

**Device leases** (`DeviceAllocationProofs`): any coordinators, adapters, lease
and object slots, manifests, budgets and bounds of the generations. Assumed: the
Bank's assumptions, `DeviceAssumption` (shapes; finitely many adapters; a
manifest's charge is among the claims of the Bank) and `0 \notin SessionIds`, as
for the Bank.

| Theorem | States |
|---|---|
| `DeviceInvariance` | `DeviceSpec => []DInv` |
| `DeviceTypeCorrect` | `DeviceSpec => []DeviceTypeOK` |
| `DeviceImplementsBank` | `DeviceSpec => Spec` |
| `NoObjectLost` | `DeviceSpec => []ObjectsAccounted` |
| `TicketsAreExact` | `DeviceSpec => []TicketsExact` |
| `ChargesCoverBytes` | `DeviceSpec => []BytesCovered` |

`DInv` is the Bank's `IInv` with four parts. `OwnInv` is about one coordinator:
a slot is empty or holds an admission of its own (`SlotShaped`), its object slots
are those of that admission (`SlotObjects`), between calls an admission has no
object and a lease all (`SlotResting`), and `CallInv` says how far the method in
progress has got: what an allocation has passed is remembered, what a cleanup
has passed is gone unless a free failed. `TicketsExact` alone is not inductive:
that a recovery ticket that was taken is not accepted again needs that its
generation is below the slot's or, where the generation is saturated, that it
lists more objects than are left (`TicketStale`: what is outstanding only ever
becomes less); `TicketPast`, `TicketValid` and `SlotOwned` place all other
tickets that name the slot. `ChildInv`: the child of a lease is open in the
Bank, and no two leases share one (`ChildrenApart`), so closing one leaves the
others. `AdapterInv`: what is live in an adapter is remembered by somebody
(`Remembered`) and the other way round, all of one admission, and the bytes in
use are their sum. A step is at work in one slot and on one adapter; one frame
lemma disposes of all others.

That the coordinator's step is a step of the Bank or none gives every theorem
about the Bank again with coordinators among its clients. One of them,
`Conservation`, is what `ChargesCoverBytes` stands on: each adapter serves one
admission at a time, different adapters serve different ones and hence different
children, and the sum of the charges of some children is within `used`
(`SumOfSubset`).

**The object store** (second part of `ContinuationProofs`): any objects and
sizes, capacity and budgets, bundles, leases and operations allowed. Assumed:
`StoreAssumption`.

| Theorem | States |
|---|---|
| `StoreStaysAuditable` | `StoreSpec => []StoreAuditable` |
| `EndedLeasesStayEnded` | `StoreSpec => LeaseNeverReturns` |
| `CountedAsTold` | `StoreSpec => []ReferencesHeld`, if `"verify" \in Allowed` |
| `SweepFreesNothingHeld` | `SweepSpec => []HeldStays` |

The invariant is `StoreInv`. `Good` is about the store alone: each slot is free
or holds an object in one of three states, no object is in two slots (`Shape`),
each counter is the sum of what the slots add to it (`Tallied`) and no budget is
exceeded (`Within`). `Backed` relates it to the callers: every reference one was
told of is counted. A counter moves with one slot only, so an operation keeps
`Tallied` if it moves every counter by the difference of that slot's weights
(`SlotMoves`); that this is what `_verify_state` recounts is `RecountIsTotal`.
The commit of a sweep frees many slots and subtracts sums taken over *objects*
from sums taken over *slots* (`SweepFrees`, which needs that each object is in
one slot).

Every step has one of three forms: the references of one object change
(`OneTurn`), one lease is given (`OneLease`), or an import ran (`OneImport`).
The import is the hard one. It is a loop that may fail at any place and is then
undone backwards. Both loops are functions of the number of rounds, and `Climb`
(a smallest counterexample among the rounds) carries what one round keeps to
all of them. `RollbackAppend` shows that undoing one action more
is undoing that action first; `UndoReused` and `UndoInserted` that undoing an
action right after it gives the store before it, slot for slot. So a failed
import leaves the very store it found.

`CountedAsTold` says more than `Backed`: nothing is counted that nobody was told
of. It takes as hypothesis that the grant allows verification, and `StoreSpec`
has no decay: without either, the snapshot at the end of an import may raise
after the references were taken (the finding `objects_import`). What remains
then is `Backed`, and it is all that `SweepFreesNothingHeld` needs.

**The sweep's log** (first part of `ContinuationProofs`): any store and callers, any numbers of
leases, failed calls and crashes, any size of the log. Assumed: `LogAssumption`.

| Theorem | States |
|---|---|
| `SweepIsSound` | `SweepSpec => []SweepInv` |
| `AckedRecordsSurvive` | `SweepSpec => []AckedSurvive` |
| `RecordBeforeFree` | `SweepSpec => []FreedWasPublished` |

Records are what recovery reads, but storage is more than records: a truncation
that was not synced may be undone by a crash, a crash may keep half a footer, a
repair may leave a body mixed of two records (the finding `sweep_corrupt`), and
the handles of old leases go on calling. So the invariant speaks of units. A
chain is `Laid` in the backing when each unit of its records is at its place,
and `LaidIsCommitted` says that a stream with no room for more commits just that
chain. `StreamWhole`: the stream is laid whole but for a tail shorter than a
record. `SyncedNear`: what was synced ends before the record after the stream's
last, so whatever length a crash keeps adds no record, good or mixed.
`AckedSafe`: the acknowledged chain lies below both lengths. `HandleSound`: what
a lease showed is still there (`SnapSound`; for the lease in force it is the
stream itself whenever the lengths agree, the one test the code makes), and a
writer in the middle of an append stands at the stream's end (`AppendSound`).
`FreedLogged` says it of the records that freed. Each step but a crash is one of
two kinds: it moves the end within one record (`TailKeeps`), or completes a
footer; `Persist` is what all of them keep, and `OthersSound` carries it to the
handles of all other leases, the stale ones included.

**The payload file** (third part of `ContinuationProofs`): any payloads, plans, processes and
deaths. Assumed: `PayloadAssumption`.

| Theorem | States |
|---|---|
| `PayloadRefinement` | `FileSpec => AtomicReclaim` |

The invariant is `FileInv`. The step to justify is the
rename, which must be a `Reclaim` of a published plan: the code compares the
active snapshot right before it, but the record and the candidate were checked
several steps earlier. `Sound` says they are still right, which needs
`LockHeld`: every process past the lock has it, so nobody else is in the middle
of anything (`Alone`). `MoverOnly` does this argument once for all actions.

**Text delivery** (`TextDeliveryProofs`): any number of results, processes and
deaths, and readers that may be interrupted between any two reads. Assumed:
`DeliveryAssumption`.

| Theorem | States |
|---|---|
| `ReadersBlameOnlyRaces` | `DeliverySpec => []ReaderBlamesOnlyRaces` |
| `DeliversInOrder` | `DeliverySpec => Delivered!DeliveredSafely` |

`DeliveredSafely` is `TextDelivered` without its liveness. The invariant relates
the two selectors (the sink is at most one result ahead of the checkpoint), the
files they name, and what the process inside the lock and the reader have read.

**Only model-checked:** liveness (`Settles`, `RecoveryCompletes` and the
liveness of `TextDelivered`) and the property that uses `ENABLED`
(`NothingStranded`), which TLAPS does not handle, beyond the checks that
`AcceptedCanFinish` proves. Every other property of a passing run is stated by a
theorem above.

## 5. Not modelled, and the plan

In the modelled components: telemetry and peaks, hash computation, the
header and directory steps of `StoreV1.create`, file identity checks, the lock
between outbox processes. `LockedSweepFile`, the file behind the sweep log,
repeats the phases of `DeterministicStorage` over a locked file and adds only
identity checks. Of text delivery, the bootstrap that selects generation one,
the path that ends in the source process, checkpoint observers and the sizing
reads of the reader. Of device leases, the makers and validators of sealed
values, read-only snapshots, and `hasDuplicateObject`, which the modelled adapter
never triggers; that a cleanup is retried in the end is the caller's business
and not stated.

Not modelled at all: the components marked so in `PROJECT.json`. Most of the
repository's lines, and nearly all of its Python, are verifiers of reports,
benchmark harnesses, fault campaigns and loaders. They compute one answer from
one input; what they need is tests of the answer, not a state machine. Numeric
code is outside TLC's reach.

Order of further work:

1. Token transactions composed with the Bank's publication permit, then the
   lane waves over them: an abstract "all parts or none" step that the detailed
   prepare/commit/abort implements.
2. LaneWeave: admission, service permits, retirement; fairness among lanes.
3. Unary service: queue, workers, watchdog, drain; every accepted request is
   answered once and drain terminates.
4. Creation of the checkpoint's first generation and of the sink under loss of
   power; then the provider's components, device lease trees, dispatch and loss.
5. Proofs of those components, each with its model.

## 6. Running

```
tlc -workers 2 -config Bank.cfg MCResourceBank       # likewise the others
tlapm ResourceBankProofs.tla                          # likewise FiniteSums,
                                                      # LeaseTreeProofs,
                                                      # LeaseTreeHandles,
                                                      # ActionOutboxProofs,
                                                      # DeviceAllocationProofs,
                                                      # ContinuationProofs,
                                                      # TextDeliveryProofs
```
