------------------------------ MODULE SweepLog ------------------------------
(***************************************************************************)
(* The publication log of the object sweep: DeterministicStorage, Lease,   *)
(* Writer and Repairer of bench/continuation_object_sweep_writer.py over   *)
(* the record stream of bench/continuation_object_sweep_record.py.         *)
(*                                                                         *)
(* A record binds its sequence and the digest of the record before it, so  *)
(* it is named by its chain: the sequence of all values up to its own.  On *)
(* storage it takes four units, <<chain, 1>> to <<chain, 4>>: two of the   *)
(* body, which the writer syncs before it writes the two of the footer.    *)
(* A write may stop at one unit.  Storage keeps the length its users see   *)
(* and the length last synced; after a crash it has any length between.    *)
(***************************************************************************)
EXTENDS Naturals, Sequences, SequencesExt

CONSTANTS MaxBytes,        \* units of storage
          MaxSequence,     \* the largest sequence number
          MaxLease,        \* the largest lease generation
          MaxFaults        \* bound: I/O calls that fail

ASSUME LogAssumption ==
    {MaxBytes, MaxSequence, MaxLease, MaxFaults} \subseteq Nat

VARIABLES backing,         \* the units ever written, by position
          length,          \* units its users see
          synced,          \* units at the last sync
          active,          \* generation of the exclusive lease, or 0
          next_generation,
          expected_phase,  \* the I/O call the storage accepts next
          append_for,      \* generation that may append, or 0
          repair_for,      \* generation that may truncate, or 0
          handles,         \* by generation: the lease and what was opened on it
          acked,           \* the longest chain a writer ever reported durable
          faults           \* I/O calls that have failed

logVars == <<backing, length, synced, active, next_generation,
             expected_phase, append_for, repair_for, handles, acked, faults>>

BODY == 2
ENCODED == 4
Generations == 1..MaxLease

NoHandle == [role |-> "none", pc |-> "none", snap |-> <<>>,
             chain |-> <<>>, next |-> <<>>]

stream == SubSeq(backing, 1, length)

-----------------------------------------------------------------------------
\* classify_recovery.  Record n of a stream is good when its four units are
\* of one record that continues the chain before it.
ChainAt(s, n) == IF n = 0 THEN <<>> ELSE s[ENCODED * n][1]

GoodRecord(s, n) ==
    LET r == s[ENCODED * n][1]
    IN  /\ Len(r) = n
        /\ Front(r) = ChainAt(s, n - 1)
        /\ \A k \in 1..ENCODED : s[ENCODED * (n - 1) + k] = <<r, k>>

\* The records of a stream up to the first one that is not good.
Committed(s) ==
    LET full == Len(s) \div ENCODED
        good == {n \in 0..full : \A k \in 1..n : GoodRecord(s, k)}
    IN  CHOOSE n \in good : \A k \in good : k <= n

CommittedChain(s) == ChainAt(s, Committed(s))
committed_bytes(s) == ENCODED * Committed(s)

\* A whole body, and what there is of its footer, continues the chain.
GoodTail(s) ==
    LET base == committed_bytes(s)
        r == s[base + 1][1]
    IN  /\ Len(r) = Committed(s) + 1
        /\ Front(r) = CommittedChain(s)
        /\ \A k \in 1..(Len(s) - base) : s[base + k] = <<r, k>>

classify_recovery(s) ==
    LET tail == Len(s) - committed_bytes(s)
    IN  IF tail >= ENCODED \/ (tail > 0 /\ Committed(s) = MaxSequence)
           \/ (tail >= BODY /\ ~GoodTail(s)) THEN "corrupt_record"
        ELSE IF tail = 0 THEN "clean"
        ELSE IF tail < BODY THEN "short_body_tail"
        ELSE IF tail = BODY THEN "body_without_footer"
        ELSE "partial_footer_tail"

plan_recovery(s) ==
    CASE classify_recovery(s) = "clean" -> "open_clean"
      [] classify_recovery(s) = "corrupt_record" -> "reject_corrupt"
      [] OTHER -> "repair_incomplete_tail"

-----------------------------------------------------------------------------
LogInit ==
    /\ backing = <<>>
    /\ length = 0 /\ synced = 0
    /\ active = 0 /\ next_generation = 1
    /\ expected_phase = "body_write"
    /\ append_for = 0 /\ repair_for = 0
    /\ handles = [g \in Generations |-> NoHandle]
    /\ acked = <<>>
    /\ faults = 0

\* A poisoned writer or repairer keeps no position.
Poison(g) == handles' = [handles EXCEPT ![g].pc = "poisoned",
                                        ![g].chain = <<>>, ![g].next = <<>>]

\* The I/O call in progress fails.
Fault(g) == faults < MaxFaults /\ faults' = faults + 1 /\ Poison(g)

acquire ==
    /\ active = 0
    /\ next_generation <= MaxLease
    /\ active' = next_generation
    /\ next_generation' = next_generation + 1
    /\ expected_phase' = "body_write"
    /\ append_for' = 0 /\ repair_for' = 0
    /\ handles' = [handles EXCEPT ![next_generation] =
                       [NoHandle EXCEPT !.role = "lease", !.snap = stream]]
    /\ UNCHANGED <<backing, length, synced, acked, faults>>

\* Another part of the process may end the lease while its writer runs.
release_log(g) ==
    /\ active = g
    /\ active' = 0
    /\ UNCHANGED <<backing, length, synced, next_generation, expected_phase,
                   append_for, repair_for, handles, acked, faults>>

\* Writer.open_clean on a capability minted for it (Lease.append_capability).
open_clean(g) ==
    /\ active = g
    /\ handles[g].pc \in {"none", "poisoned"}
    /\ expected_phase = "body_write"
    /\ length = Len(handles[g].snap)
    /\ append_for \in {0, g}
    /\ plan_recovery(handles[g].snap) = "open_clean"
    /\ append_for' = g
    /\ handles' = [handles EXCEPT
           ![g].role = "writer", ![g].pc = "ready",
           ![g].chain = CommittedChain(handles[g].snap)]
    /\ UNCHANGED <<backing, length, synced, active, next_generation,
                   expected_phase, repair_for, acked, faults>>

\* DeterministicStorage.validate: only the lease in force may do I/O.
validate(g) == g \in Generations /\ active = g

-----------------------------------------------------------------------------
\* One storage call of phase p by generation g.  It is refused to a stale
\* generation or out of order, and may fail before or after its effect; in
\* each of these cases the caller is poisoned.
Refused(g, p) ==
    /\ ~(validate(g) /\ expected_phase = p)
    /\ Poison(g)
    /\ UNCHANGED <<backing, length, synced, active, next_generation,
                   expected_phase, append_for, repair_for, acked, faults>>

FaultBefore(g, p) ==
    /\ validate(g) /\ expected_phase = p
    /\ Fault(g)
    /\ UNCHANGED <<backing, length, synced, active, next_generation,
                   expected_phase, append_for, repair_for, acked>>

\* The first count units written at the current end.
Written(units, count) ==
    [k \in 1..(IF Len(backing) > length + count THEN Len(backing)
               ELSE length + count) |->
        IF k \in (length + 1)..(length + count) THEN units[k - length]
        ELSE backing[k]]

\* _append: all units and the next phase, or a fault after some of them.
Write(g, p, next, units, pc) ==
    /\ validate(g) /\ expected_phase = p
    /\ \E count \in 1..Len(units) :
           /\ length + count <= MaxBytes
           /\ backing' = Written(units, count)
           /\ length' = length + count
           /\ expected_phase' = IF count = Len(units) THEN next ELSE p
           /\ \/ /\ count = Len(units)
                 /\ handles' = [handles EXCEPT ![g].pc = pc]
                 /\ UNCHANGED faults
              \/ Fault(g)
    /\ UNCHANGED <<synced, active, next_generation, append_for, repair_for,
                   acked>>

\* _sync.
Sync(g, p, next, done) ==
    /\ validate(g) /\ expected_phase = p
    /\ synced' = length
    /\ expected_phase' = next
    /\ \/ handles' = [handles EXCEPT ![g] = done] /\ UNCHANGED faults
       \/ Fault(g)
    /\ UNCHANGED <<backing, length, active, next_generation, append_for,
                   repair_for>>

Units(chain, from, to) == [k \in 1..(to - from + 1) |-> <<chain, from + k - 1>>]

-----------------------------------------------------------------------------
\* append_record up to the write of the body.
append_record(g, value) ==
    LET h == handles[g]
        chain == Append(h.chain, value)
    IN  /\ h.role = "writer" /\ h.pc = "ready"
        /\ validate(g)
        /\ append_for = g
        /\ expected_phase = "body_write"
        /\ length = ENCODED * Len(h.chain)
        /\ Len(h.chain) < MaxSequence
        /\ length + ENCODED <= MaxBytes
        /\ LET units == Units(chain, 1, BODY)
           IN  /\ \/ \E count \in 1..BODY :
                         /\ backing' = Written(units, count)
                         /\ length' = length + count
                         /\ expected_phase' = IF count = BODY
                                THEN "body_sync" ELSE "body_write"
                         /\ \/ /\ count = BODY
                               /\ handles' = [handles EXCEPT
                                      ![g].pc = "body_sync", ![g].next = chain]
                               /\ UNCHANGED faults
                            \/ Fault(g)
                  \/ /\ Fault(g)
                     /\ UNCHANGED <<backing, length, expected_phase>>
    /\ UNCHANGED <<synced, active, next_generation, append_for, repair_for,
                   acked>>

sync_body(g) ==
    /\ handles[g].pc = "body_sync"
    /\ \/ Refused(g, "body_sync")
       \/ FaultBefore(g, "body_sync")
       \/ Sync(g, "body_sync", "footer_write",
               [handles[g] EXCEPT !.pc = "footer_write"]) /\ UNCHANGED acked

append_footer(g) ==
    /\ handles[g].pc = "footer_write"
    /\ \/ Refused(g, "footer_write")
       \/ FaultBefore(g, "footer_write")
       \/ Write(g, "footer_write", "footer_sync",
                Units(handles[g].next, BODY + 1, ENCODED), "footer_sync")

\* The append returns: the record is reported durable.
sync_footer(g) ==
    /\ handles[g].pc = "footer_sync"
    /\ \/ Refused(g, "footer_sync")
       \/ FaultBefore(g, "footer_sync")
       \/ /\ Sync(g, "footer_sync", "body_write",
                  [handles[g] EXCEPT !.pc = "published",
                                     !.chain = handles[g].next])
          /\ acked' = IF handles'[g].pc = "published" THEN handles[g].next
                      ELSE acked

-----------------------------------------------------------------------------
\* Lease.prepare_repair and Repairer.create: only for an incomplete tail.
prepare_repair(g) ==
    /\ active = g
    /\ handles[g].role = "lease"
    /\ expected_phase = "body_write"
    /\ plan_recovery(handles[g].snap) = "repair_incomplete_tail"
    /\ append_for' = 0
    /\ repair_for' = g
    /\ expected_phase' = "repair_truncate"
    /\ handles' = [handles EXCEPT ![g].role = "repairer", ![g].pc = "ready"]
    /\ UNCHANGED <<backing, length, synced, active, next_generation, acked,
                   faults>>

\* Mutant: the repair drops the last good record with the tail.
truncateTargetShort(s) ==
    IF Committed(s) = 0 THEN 0 ELSE committed_bytes(s) - ENCODED

truncateTarget(s) == committed_bytes(s)

\* Repairer.apply up to the truncation to the committed records.
truncate(g) ==
    /\ handles[g].role = "repairer" /\ handles[g].pc = "ready"
    /\ \/ Refused(g, "repair_truncate")
       \/ FaultBefore(g, "repair_truncate")
       \/ /\ validate(g) /\ expected_phase = "repair_truncate"
          /\ repair_for = g
          /\ length = Len(handles[g].snap)
          /\ length' = truncateTarget(handles[g].snap)
          /\ expected_phase' = "repair_sync"
          /\ \/ /\ handles' = [handles EXCEPT ![g].pc = "repair_sync"]
                /\ UNCHANGED faults
             \/ Fault(g)
          /\ UNCHANGED <<backing, synced, active, next_generation,
                         append_for, repair_for, acked>>

repair_sync(g) ==
    /\ handles[g].pc = "repair_sync"
    /\ \/ Refused(g, "repair_sync")
       \/ FaultBefore(g, "repair_sync")
       \/ Sync(g, "repair_sync", "body_write",
               [handles[g] EXCEPT !.pc = "complete"]) /\ UNCHANGED acked

\* crash_bounds: the lengths the storage may have after a crash.
crash_bounds == IF length < synced THEN length..synced ELSE synced..length

\* The process and its leases end; storage keeps a length between the two.
crash_persist ==
    /\ \E n \in crash_bounds : length' = n /\ synced' = n
    /\ active' = 0
    /\ expected_phase' = "body_write"
    /\ append_for' = 0 /\ repair_for' = 0
    /\ handles' = [g \in Generations |-> NoHandle]
    /\ UNCHANGED <<backing, next_generation, acked, faults>>

RepairLogStep(g) == prepare_repair(g) \/ truncate(g) \/ repair_sync(g)
=============================================================================
