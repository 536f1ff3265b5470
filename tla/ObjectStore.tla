---------------------------- MODULE ObjectStore ----------------------------
(***************************************************************************)
(* The in-memory store of continuation objects: class Store of             *)
(* bench/continuation_object_store.py, the state model of                  *)
(* core/continuation_object_store.zig.                                     *)
(*                                                                         *)
(* A store serves one tenant and one bundle.  Each occupied slot holds the *)
(* payload of one object, identified by its length and digest, with a      *)
(* count of the references to it, at most one lease and the number of      *)
(* repairs.  Nine counters repeat what the slots say.  An operation is a   *)
(* function of the store record [slots, acct]; one that the code refuses   *)
(* with an exception is not enabled.  A digest of a value is the value.    *)
(***************************************************************************)
EXTENDS Naturals, Sequences, FiniteSets, Functions

CONSTANTS Objects,         \* the blobs, each a (length, digest) pair
          NoObject,        \* what a free slot holds
          Bytes,           \* the length of each blob
          Capacity,        \* number of slots
          MaxEntries,      \* grant: entries, also those the index budget pays
          MaxPayload,      \* grant: payload bytes
          MaxReferences,   \* grant: references
          Allowed,         \* grant: the operations its mask allows
          MaxLeases,       \* lifecycle grant: active leases
          MaxSpan,         \* lifecycle grant: ticks a lease may last
          MaxTick,         \* bound: ticks a caller may name
          MaxGeneration,   \* the largest lease generation
          MaxRepairs,      \* the largest repair generation
          Owners,          \* who may hold a lease
          Bundles          \* the object lists a bundle may name

ASSUME StoreAssumption ==
    /\ NoObject \notin Objects
    /\ Bytes \in [Objects -> Nat \ {0}]
    /\ Capacity \in Nat \ {0} /\ MaxEntries \in 1..Capacity
    /\ {MaxPayload, MaxReferences, MaxLeases, MaxSpan, MaxTick, MaxGeneration,
      MaxRepairs}
           \subseteq Nat
    /\ Allowed \subseteq {"put", "get", "release", "quarantine", "verify"}
    /\ Bundles \subseteq Seq(Objects)

VARIABLES st,              \* the store: [slots, acct]
          issued,          \* every lease receipt ever returned
          held             \* the references callers were told they hold

storeVars == <<st, issued, held>>

Slots == 1..Capacity

Receipts == [object : Objects, generation : 1..MaxGeneration,
             owner : Owners, expires : 1..MaxTick]
NoReceipt == [object |-> NoObject, generation |-> 0]

FreeSlot == [object |-> NoObject, state |-> "free", refs |-> 0,
             generation |-> 0, lease |-> NoReceipt, repairs |-> 0,
             intact |-> TRUE]

Occupied(s) == {i \in Slots : s.slots[i] # FreeSlot}
find(s, o) == {i \in Slots : s.slots[i].object = o}
slotOf(s, o) == s.slots[CHOOSE i \in find(s, o) : TRUE]
leased(slot) == slot.lease # NoReceipt

\* The first free slot.
FirstFree(s) == CHOOSE i \in Slots \ Occupied(s) :
                    \A j \in Slots \ Occupied(s) : i <= j

\* The store with slot i replaced and the counters of delta moved.
Moved(s, i, slot, acct) == [slots |-> [s.slots EXCEPT ![i] = slot],
                            acct |-> acct]

EmptyStore ==
    [slots |-> [i \in Slots |-> FreeSlot],
     acct |-> [entries |-> 0, live |-> 0, quarantined |-> 0, retired |-> 0,
               payload |-> 0, references |-> 0, leases |-> 0, repairs |-> 0]]

-----------------------------------------------------------------------------
\* What the counters have to say, recomputed from the slots.
CountIn(s, state) == Cardinality({i \in Slots : s.slots[i].state = state})
SumOver(s, f(_)) ==
    SumFunctionOnSet([i \in Occupied(s) |-> f(s.slots[i])], Occupied(s))

Recounted(s) ==
    [entries |-> Cardinality(Occupied(s)),
     live |-> CountIn(s, "live"),
     quarantined |-> CountIn(s, "quarantined"),
     retired |-> CountIn(s, "retired"),
     payload |-> SumOver(s, LAMBDA slot : Bytes[slot.object]),
     references |-> SumOver(s, LAMBDA slot : slot.refs),
     leases |-> Cardinality({i \in Slots : leased(s.slots[i])}),
     repairs |-> SumOver(s, LAMBDA slot : slot.repairs)]

\* The shape of one slot that _verify_state accepts.
SlotSound(slot, allowQuarantinedCorruption) ==
    /\ slot.state = "retired" <=> slot.refs = 0
    /\ leased(slot) => slot.state = "live" /\ slot.generation > 0
    /\ slot.intact \/ (allowQuarantinedCorruption
                       /\ slot.state = "quarantined")

_verify_state(s, allowQuarantinedCorruption) ==
    /\ \A i \in Occupied(s) :
           /\ SlotSound(s.slots[i], allowQuarantinedCorruption)
           /\ find(s, s.slots[i].object) = {i}
    /\ s.acct = Recounted(s)
    /\ s.acct.entries <= MaxEntries
    /\ s.acct.payload <= MaxPayload
    /\ s.acct.references <= MaxReferences

verify_all(s) == "verify" \in Allowed /\ _verify_state(s, FALSE)
audit_snapshot(s) == "verify" \in Allowed /\ _verify_state(s, TRUE)

-----------------------------------------------------------------------------
\* put: a second reference to a live object, or a new entry in the first
\* free slot.  The allocator may refuse only the latter.
CanReuse(s, o) ==
    /\ find(s, o) # {}
    /\ slotOf(s, o).state = "live"
    /\ slotOf(s, o).intact
    /\ s.acct.references + 1 <= MaxReferences

CanInsert(s, o) ==
    /\ find(s, o) = {}
    /\ s.acct.entries < MaxEntries
    /\ s.acct.payload + Bytes[o] <= MaxPayload
    /\ s.acct.references + 1 <= MaxReferences

Reused(s, o) ==
    LET i == CHOOSE j \in find(s, o) : TRUE
    IN  Moved(s, i, [s.slots[i] EXCEPT !.refs = @ + 1],
              [s.acct EXCEPT !.references = @ + 1])

Inserted(s, o) ==
    Moved(s, FirstFree(s),
          [FreeSlot EXCEPT !.object = o, !.state = "live", !.refs = 1],
          [s.acct EXCEPT !.entries = @ + 1, !.live = @ + 1,
                         !.payload = @ + Bytes[o], !.references = @ + 1])

put(o) ==
    /\ "put" \in Allowed
    /\ \/ CanReuse(st, o) /\ st' = Reused(st, o)
       \/ CanInsert(st, o) /\ st' = Inserted(st, o)
    /\ held' = [held EXCEPT ![o] = @ + 1]
    /\ UNCHANGED issued

\* The store after slot i is freed: its counters go with it.
Freed(s, i) ==
    LET slot == s.slots[i]
    IN  Moved(s, i, FreeSlot,
              [s.acct EXCEPT !.entries = @ - 1,
                             !.live = @ - (IF slot.state = "live" THEN 1 ELSE 0),
                             !.quarantined =
                                 @ - (IF slot.state = "quarantined" THEN 1 ELSE 0),
                             !.retired =
                                 @ - (IF slot.state = "retired" THEN 1 ELSE 0),
                             !.payload = @ - Bytes[slot.object],
                             !.references = @ - slot.refs,
                             !.repairs = @ - slot.repairs])

-----------------------------------------------------------------------------
\* One step of an import: acc carries the store, the actions to undo, and
\* how many insertions the allocator still serves.
ImportStep(acc, o) ==
    IF ~acc.ok THEN acc
    ELSE IF CanReuse(acc.s, o)
    THEN [acc EXCEPT !.s = Reused(@, o),
                     !.done = Append(@, [object |-> o, inserted |-> FALSE])]
    ELSE IF CanInsert(acc.s, o) /\ acc.served > 0
    THEN [acc EXCEPT !.s = Inserted(@, o), !.served = @ - 1,
                     !.done = Append(@, [object |-> o, inserted |-> TRUE])]
    ELSE [acc EXCEPT !.ok = FALSE]

\* Mutant: an entry the import found in the store is freed as well.
_rollbackAll(s, done) ==
    LET undone[k \in 0..Len(done)] ==
            IF k = 0 THEN s
            ELSE LET r == undone[k - 1]
                     o == done[Len(done) + 1 - k].object
                 IN  IF find(r, o) = {} THEN r
                     ELSE Freed(r, CHOOSE i \in find(r, o) : TRUE)
    IN  undone[Len(done)]

\* One action of an import undone.
UndoStep(r, action) ==
    LET i == CHOOSE j \in find(r, action.object) : TRUE
    IN  IF action.inserted THEN Freed(r, i)
        ELSE Moved(r, i, [r.slots[i] EXCEPT !.refs = @ - 1],
                   [r.acct EXCEPT !.references = @ - 1])

\* The actions of a failed import undone, the last one first.
_rollback(s, done) ==
    LET undone[k \in 0..Len(done)] ==
            IF k = 0 THEN s
            ELSE UndoStep(undone[k - 1], done[Len(done) + 1 - k])
    IN  undone[Len(done)]

\* The loop of the import, with an allocator that serves so many entries.
Imported(s, names, served) ==
    LET start == [ok |-> TRUE, s |-> s, done |-> <<>>, served |-> served]
        run[k \in 0..Len(names)] ==
            IF k = 0 THEN start ELSE ImportStep(run[k - 1], names[k])
    IN  run[Len(names)]

ReferencesIn(names, o) == Cardinality({k \in DOMAIN names : names[k] = o})

\* A failure inside the loop is rolled back.  The receipt is made after the
\* loop, outside its try: a snapshot the store refuses to take leaves the
\* references behind and still raises, so the caller holds nothing.
import_bundle(names, served) ==
    LET run == Imported(st, names, served)
    IN  /\ "put" \in Allowed
        /\ st' = IF run.ok THEN run.s ELSE _rollback(run.s, run.done)
        /\ held' = IF run.ok /\ verify_all(run.s)
                   THEN [o \in Objects |-> held[o] + ReferencesIn(names, o)]
                   ELSE held
        /\ UNCHANGED issued

-----------------------------------------------------------------------------
\* Mutant: the final release frees an entry but keeps its repairs.
releaseStoreKeepRepairs(s, o) ==
    LET i == CHOOSE j \in find(s, o) : TRUE
    IN  IF s.slots[i].refs > 1
        THEN Moved(s, i, [s.slots[i] EXCEPT !.refs = @ - 1],
                   [s.acct EXCEPT !.references = @ - 1])
        ELSE [Freed(s, i) EXCEPT !.acct.repairs = s.acct.repairs]

\* release of the last reference frees the entry, unless it is leased; any
\* other only lowers the count, also of a quarantined entry.
releaseStore(s, o) ==
    LET i == CHOOSE j \in find(s, o) : TRUE
    IN  IF s.slots[i].refs > 1
        THEN Moved(s, i, [s.slots[i] EXCEPT !.refs = @ - 1],
                   [s.acct EXCEPT !.references = @ - 1])
        ELSE Freed(s, i)

release(o) ==
    /\ "release" \in Allowed
    /\ held[o] > 0
    /\ find(st, o) # {}
    /\ slotOf(st, o).state # "retired"
    /\ slotOf(st, o).refs > 1 \/ ~leased(slotOf(st, o))
    /\ st' = releaseStore(st, o)
    /\ held' = [held EXCEPT ![o] = @ - 1]
    /\ UNCHANGED issued

\* retire gives the final reference up but keeps the payload for a sweep.
retire(o) ==
    /\ "release" \in Allowed
    /\ held[o] > 0
    /\ find(st, o) # {}
    /\ slotOf(st, o).state = "live"
    /\ ~leased(slotOf(st, o))
    /\ slotOf(st, o).refs = 1
    /\ \E i \in find(st, o) :
           st' = Moved(st, i,
                       [st.slots[i] EXCEPT !.refs = 0, !.state = "retired"],
                       [st.acct EXCEPT !.references = @ - 1, !.live = @ - 1,
                                       !.retired = @ + 1])
    /\ held' = [held EXCEPT ![o] = @ - 1]
    /\ UNCHANGED issued

_clear_lease(s, i) ==
    [s EXCEPT !.slots[i].lease = NoReceipt, !.acct.leases = @ - 1]

\* quarantine revokes a lease; the generation stays with the slot.
quarantine(o) ==
    /\ "quarantine" \in Allowed
    /\ find(st, o) # {}
    /\ slotOf(st, o).state = "live"
    /\ \E i \in find(st, o) :
           LET s == IF leased(st.slots[i]) THEN _clear_lease(st, i) ELSE st
           IN  st' = Moved(s, i, [s.slots[i] EXCEPT !.state = "quarantined"],
                           [s.acct EXCEPT !.live = @ - 1,
                                          !.quarantined = @ + 1])
    /\ UNCHANGED <<issued, held>>

\* repair puts trusted bytes under a quarantined entry.
repair(o) ==
    /\ find(st, o) # {}
    /\ slotOf(st, o).state = "quarantined"
    /\ ~leased(slotOf(st, o))
    /\ slotOf(st, o).repairs < MaxRepairs
    /\ \E i \in find(st, o) :
           st' = Moved(st, i,
                       [st.slots[i] EXCEPT !.state = "live", !.intact = TRUE,
                                           !.repairs = @ + 1],
                       [st.acct EXCEPT !.live = @ + 1, !.quarantined = @ - 1,
                                       !.repairs = @ + 1])
    /\ UNCHANGED <<issued, held>>

-----------------------------------------------------------------------------
_validate_lease_window(now, expires) ==
    expires > now /\ expires - now <= MaxSpan

\* Mutant: the receipt does not carry its generation.
_lease_receiptUnnumbered(o, generation, owner, expires) ==
    [object |-> o, generation |-> 1, owner |-> owner, expires |-> expires]

_lease_receipt(o, generation, owner, expires) ==
    [object |-> o, generation |-> generation, owner |-> owner,
     expires |-> expires]

\* A receipt is current when it is the very one the slot remembers.
_current_lease(s, r) ==
    /\ find(s, r.object) # {}
    /\ leased(slotOf(s, r.object))
    /\ slotOf(s, r.object).lease = r

acquire_lease(o, owner, now, expires) ==
    /\ _validate_lease_window(now, expires)
    /\ find(st, o) # {}
    /\ LET slot == slotOf(st, o)
           r == _lease_receipt(o, slot.generation + 1, owner, expires)
       IN  /\ slot.state = "live"
           /\ ~leased(slot)
           /\ st.acct.leases < MaxLeases
           /\ slot.intact
           /\ slot.generation < MaxGeneration
           /\ \E i \in find(st, o) :
                  st' = Moved(st, i, [slot EXCEPT !.generation = @ + 1,
                                                  !.lease = r],
                              [st.acct EXCEPT !.leases = @ + 1])
           /\ issued' = issued \union {r}
    /\ UNCHANGED held

\* Only a later expiry renews, and only before the old one.
renew_lease(old, now, expires) ==
    /\ _current_lease(st, old)
    /\ now < old.expires
    /\ expires > old.expires
    /\ _validate_lease_window(now, expires)
    /\ LET slot == slotOf(st, old.object)
           r == _lease_receipt(old.object, slot.generation + 1, old.owner,
                               expires)
       IN  /\ slot.intact
           /\ slot.generation < MaxGeneration
           /\ \E i \in find(st, old.object) :
                  st' = Moved(st, i, [slot EXCEPT !.generation = @ + 1,
                                                  !.lease = r], st.acct)
           /\ issued' = issued \union {r}
    /\ UNCHANGED held

release_lease(r) ==
    /\ _current_lease(st, r)
    /\ \E i \in find(st, r.object) : st' = _clear_lease(st, i)
    /\ UNCHANGED <<issued, held>>

expire_lease(r, now) ==
    /\ _current_lease(st, r)
    /\ now >= r.expires
    /\ \E i \in find(st, r.object) : st' = _clear_lease(st, i)
    /\ UNCHANGED <<issued, held>>

\* The bytes of a payload decay; no field of the slot tells.
decay ==
    /\ \E i \in Occupied(st) :
           /\ st.slots[i].intact
           /\ st' = [st EXCEPT !.slots[i].intact = FALSE]
    /\ UNCHANGED <<issued, held>>

-----------------------------------------------------------------------------
StoreInit == /\ st = EmptyStore
             /\ issued = {}
             /\ held = [o \in Objects |-> 0]

ReferenceStep ==
    \/ \E o \in Objects : put(o) \/ release(o) \/ retire(o)
    \/ \E names \in Bundles : \E served \in 0..Len(names) :
           import_bundle(names, served)

LeaseStep ==
    \/ \E o \in Objects, owner \in Owners, now \in 0..MaxTick :
           \E expires \in 1..MaxTick : acquire_lease(o, owner, now, expires)
    \/ \E r \in issued :
           \/ release_lease(r)
           \/ \E now \in 0..MaxTick :
                  \/ expire_lease(r, now)
                  \/ \E expires \in 1..MaxTick : renew_lease(r, now, expires)

RepairStep == \E o \in Objects : quarantine(o) \/ repair(o)

StoreNext == ReferenceStep \/ LeaseStep \/ RepairStep

StoreSpec == StoreInit /\ [][StoreNext]_storeVars

-----------------------------------------------------------------------------
\* Types, and the counters of _verify_state: whatever sequence of puts,
\* imports, failed imports, releases, retirements, leases and repairs ran,
\* recounting the slots gives the nine counters, no slot is in a mixed state
\* and no budget is exceeded, so the audit a sweep depends on never refuses.
StoreAuditable ==
    LET sound == [st EXCEPT !.slots =
                      [i \in Slots |-> [st.slots[i] EXCEPT !.intact = TRUE]]]
    IN  _verify_state(sound, FALSE)

\* The store counts for every object just the references that callers were
\* told they hold: an import that raises has given none (import_bundle and
\* _rollback of bench/continuation_object_store.py), so it leaves none.
ReferencesHeld ==
    \A o \in Objects :
        held[o] = IF find(st, o) = {} THEN 0 ELSE slotOf(st, o).refs

\* While an entry lives, a lease receipt that was released, renewed, expired
\* or revoked by a quarantine is never current again, whatever is acquired
\* later (lease_generation in acquire_lease and renew_lease).
LeaseNeverReturns ==
    [][\A r \in issued :
           /\ ~_current_lease(st, r)
           /\ find(st, r.object) # {}
           /\ slotOf(st, r.object).generation >= r.generation
           => ~_current_lease(st', r)]_storeVars
=============================================================================
