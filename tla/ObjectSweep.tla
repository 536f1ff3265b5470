---------------------------- MODULE ObjectSweep ----------------------------
(***************************************************************************)
(* The sweep of retired objects: the collection plan of                    *)
(* bench/continuation_object_collection.py, the journal and the previewed  *)
(* commit of bench/continuation_object_sweep.py, and the publication of    *)
(* the commit's record before the payloads go, with its recovery, of       *)
(* bench/continuation_object_sweep_file.py.                                *)
(*                                                                         *)
(* Everything is bound to the snapshot of the whole store; between any two *)
(* steps other parts of the process go on using the store and the log.     *)
(***************************************************************************)
EXTENDS ObjectStore, SweepLog

CONSTANTS MaxStaged        \* sweep and commit grants: entries they may free

VARIABLES journal,         \* the sweep journal of the caller
          preview,         \* the previewed commit the caller holds
          prepared,        \* the last commit record it encoded, or <<>>
          freed            \* history: the records that freed, and how

sweepVars == <<storeVars, logVars, journal, preview, prepared, freed>>

empty_journal == [targets |-> {}]
NoPreview == [targets |-> {}]

-----------------------------------------------------------------------------
\* plan_collection: the references and leases the caller can show have to
\* cover the store exactly; what is retired may go.
RootsCover(s, roots) ==
    \A o \in Objects :
        roots[o] = IF find(s, o) = {} THEN 0 ELSE slotOf(s, o).refs

LeasesCover(s, leases) ==
    /\ \A r \in leases : _current_lease(s, r)
    /\ Cardinality(leases) = Cardinality({i \in Slots : leased(s.slots[i])})

PlanAccepted(s, roots, leases) ==
    audit_snapshot(s) /\ RootsCover(s, roots) /\ LeasesCover(s, leases)

Collectible(s) ==
    {s.slots[i].object : i \in {j \in Slots : s.slots[j].state = "retired"}}

\* The caller shows the references it holds and any leases it was given.
PlanOf(s) == \E leases \in SUBSET issued : PlanAccepted(s, held, leases)

\* A store that the plan refuses cannot be swept.
prepare ==
    /\ journal = empty_journal
    /\ PlanOf(st)
    /\ Collectible(st) # {}
    /\ Cardinality(Collectible(st)) <= MaxStaged
    /\ journal' = [snapshot |-> st, targets |-> Collectible(st)]
    /\ UNCHANGED <<storeVars, logVars, preview, prepared, freed>>

\* An aborted journal is of no further use: the caller takes an empty one.
abort ==
    /\ journal # empty_journal
    /\ audit_snapshot(st)
    /\ st = journal.snapshot
    /\ journal' = empty_journal
    /\ UNCHANGED <<storeVars, logVars, preview, prepared, freed>>

\* So it does when a commit or a store that moved on made one useless.
newJournal ==
    /\ journal # empty_journal
    /\ journal' = empty_journal
    /\ UNCHANGED <<storeVars, logVars, preview, prepared, freed>>

-----------------------------------------------------------------------------
\* The store without the targets, all of them retired.
FreedTargets(s, targets) ==
    LET at == {i \in Slots : s.slots[i].object \in targets}
    IN  [slots |-> [i \in Slots |-> IF i \in at THEN FreeSlot ELSE s.slots[i]],
         acct |-> [s.acct EXCEPT
             !.entries = @ - Cardinality(targets),
             !.retired = @ - Cardinality(targets),
             !.payload = @ - SumFunctionOnSet(Bytes, targets),
             !.repairs = @ - SumFunctionOnSet(
                                 [i \in at |-> s.slots[i].repairs], at)]]

\* Mutant: the store is only asked whether it still has the targets.
preview_retiredPresent(s, p) ==
    "release" \in Allowed /\ \A o \in p.targets : find(s, o) # {}

\* preview_retired: the whole store is the one the permit names, and every
\* target is retired in it.
preview_retired(s, p) ==
    /\ "release" \in Allowed
    /\ p.targets # {}
    /\ Cardinality(p.targets) <= MaxStaged
    /\ audit_snapshot(s)
    /\ s = p.before
    /\ \A o \in p.targets :
           /\ find(s, o) # {}
           /\ slotOf(s, o).state = "retired"
           /\ slotOf(s, o).refs = 0
           /\ ~leased(slotOf(s, o))

\* preview_commit regenerates the plan and predicts the store after.
preview_commit ==
    /\ journal # empty_journal
    /\ PlanOf(st)
    /\ st = journal.snapshot
    /\ Collectible(st) = journal.targets
    /\ LET p == [before |-> journal.snapshot, targets |-> journal.targets]
       IN  preview_retired(st, p) /\ preview' = p
    /\ UNCHANGED <<storeVars, logVars, journal, prepared, freed>>

\* commit_preview computes the preview again before it frees.
commit_preview(p, how, chain) ==
    /\ preview_retired(st, p)
    /\ st' = FreedTargets(st, p.targets)
    /\ freed' = freed \union {[chain |-> chain, how |-> how]}
    /\ UNCHANGED <<issued, held>>

-----------------------------------------------------------------------------
\* Mutant: the payloads go before the record is published.
publishEarly(g) ==
    /\ preview # NoPreview
    /\ append_record(g, preview)
    /\ commit_preview(preview, "published", Append(handles[g].chain, preview))
    /\ prepared' = Append(handles[g].chain, preview)
    /\ UNCHANGED <<journal, preview>>

\* publish_then_commit: the record is encoded for the writer's position and
\* its append begins.
publish(g) ==
    /\ preview # NoPreview
    /\ append_record(g, preview)
    /\ prepared' = Append(handles[g].chain, preview)
    /\ UNCHANGED <<storeVars, journal, preview, freed>>

publishStep(g) ==
    /\ sync_body(g) \/ append_footer(g) \/ sync_footer(g)
    /\ UNCHANGED <<storeVars, journal, preview, prepared, freed>>

\* The append has returned: the commit frees, or raises because the store
\* has moved on meanwhile.
publishedCommit(g) ==
    /\ handles[g].pc = "published"
    /\ handles' = [handles EXCEPT ![g].pc = "ready", ![g].next = <<>>]
    /\ IF preview_retired(st, Last(handles[g].chain))
       THEN commit_preview(Last(handles[g].chain), "published",
                           handles[g].chain)
       ELSE UNCHANGED <<storeVars, freed>>
    /\ UNCHANGED <<backing, length, synced, active, next_generation,
                   expected_phase, append_for, repair_for, acked, faults,
                   journal, preview, prepared>>

\* recover_published_commit with the stream a lease showed: a complete log
\* that ends in the record frees what the record says, if the store is the
\* one before it; if it is the one after, nothing is left to do.
recover_published_commit(g) ==
    /\ handles[g].role # "none"
    /\ prepared # <<>>
    /\ LET s == handles[g].snap
       IN  /\ classify_recovery(s) = "clean"
           /\ CommittedChain(s) = prepared
    /\ commit_preview(Last(prepared), "recovered", prepared)
    /\ UNCHANGED <<logVars, journal, preview, prepared>>

-----------------------------------------------------------------------------
SweepInit ==
    /\ StoreInit
    /\ LogInit
    /\ journal = empty_journal
    /\ preview = NoPreview
    /\ prepared = <<>>
    /\ freed = {}

LogStep ==
    /\ \/ acquire
       \/ \E g \in Generations :
              release_log(g) \/ open_clean(g) \/ RepairLogStep(g)
    /\ UNCHANGED <<storeVars, journal, preview, prepared, freed>>

\* A crash takes the store and whatever the caller kept in memory.
crash ==
    /\ crash_persist
    /\ st' = EmptyStore
    /\ issued' = {}
    /\ held' = [o \in Objects |-> 0]
    /\ journal' = empty_journal
    /\ preview' = NoPreview
    /\ prepared' = <<>>
    /\ freed' = {}

SweepStep ==
    \/ prepare \/ abort \/ newJournal \/ preview_commit
    \/ \E g \in Generations :
           \/ publish(g) \/ publishStep(g) \/ publishedCommit(g)
           \/ recover_published_commit(g)

StoreStep ==
    /\ StoreNext
    /\ UNCHANGED <<logVars, journal, preview, prepared, freed>>

SweepNext == StoreStep \/ LogStep \/ SweepStep \/ crash

SweepSpec == SweepInit /\ [][SweepNext]_sweepVars

-----------------------------------------------------------------------------
\* The streams a crash may leave.
CrashStreams == {SubSeq(backing, 1, n) : n \in crash_bounds}

\* A record whose append returned is in the log after any crash: no failed
\* write, repair, stale lease or later record takes it away (append_record
\* and Repairer.apply of bench/continuation_object_sweep_writer.py).
AckedSurvive ==
    \A s \in CrashStreams : IsPrefix(acked, CommittedChain(s))

\* No payload goes before its record is published: the log its users see
\* holds every record that freed one, and when the record was published by
\* the call that freed, so does the log after any crash (publish_then_commit
\* and recover_published_commit of bench/continuation_object_sweep_file.py).
FreedWasPublished ==
    \A f \in freed :
        /\ IsPrefix(f.chain, CommittedChain(stream))
        /\ f.how = "published" =>
               \A s \in CrashStreams : IsPrefix(f.chain, CommittedChain(s))

\* Whoever holds a reference finds its object: a commit whose preview or
\* record was made before the store moved on frees nothing that is in use
\* again (preview_retired of bench/continuation_object_store.py).
HeldStays ==
    \A o \in Objects : held[o] > 0 => find(st, o) # {}
=============================================================================
