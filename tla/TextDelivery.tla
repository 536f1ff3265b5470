---------------------------- MODULE TextDelivery ----------------------------
(***************************************************************************)
(* Acknowledged prepared-text delivery: advanceSourceFileV1 and            *)
(* advanceTargetFileV1 of prepared_text_durable_runtime.zig, the sink of   *)
(* prepared_text_result_sink_file.zig, the publication of                  *)
(* core/continuation_checkpoint_file.zig, and the reader of                *)
(* prepared_text_committed_output_file.zig.                                *)
(*                                                                         *)
(* Processes share a directory.  Each takes the checkpoint's lock, makes   *)
(* one step of the model, stores the result in the sink and then selects   *)
(* the next checkpoint; it may be killed anywhere.  A file is created, or  *)
(* emptied, and then written; a rename is atomic.  The reader takes no     *)
(* lock.  The model is deterministic, so a result is its sequence number.  *)
(* Loss of power, which the design excludes, is not modelled, and neither  *)
(* are the syncs.                                                          *)
(***************************************************************************)
EXTENDS Naturals, Sequences

CONSTANTS Results,         \* the results the target processes produce
          Workers,         \* processes
          NoWorker,
          Readers,
          MaxDeaths        \* bound: how often a process dies

ASSUME DeliveryAssumption ==
    /\ Results \in Nat \ {0}
    /\ NoWorker \notin Workers
    /\ MaxDeaths \in Nat

VARIABLES checkpoint,      \* the selected set: [generation, acknowledged]
          sink,            \* the selected ledger, or NoLedger
          torn, whole,     \* names of incomplete and of complete files
          lease,           \* who holds the checkpoint's lock
          sink_lock,       \* who holds the sink's
          work,            \* what each process is doing
          reader,          \* what each reader is doing
          deaths

deliveryVars == <<checkpoint, sink, torn, whole, lease, sink_lock, work,
                  reader, deaths>>
selectedVars == <<checkpoint, sink>>
fileVars == <<torn, whole>>
lockVars == <<lease, sink_lock>>

NoLedger == [sink |-> "absent"]
Ledger(acks) == [sink |-> "selected", acknowledgements |-> acks]
Set(g, acks) == [generation |-> g, acknowledged |-> acks]
File(kind, of) == [kind |-> kind, of |-> of]

Idle == [pc |-> "idle"]
At(pc, w) == [work EXCEPT ![w].pc = pc]

\* A selected set can be used only with its predecessor.
predecessor(set) ==
    Set(set.generation - 1,
        IF set.generation <= 2 THEN <<>>
        ELSE SubSeq(set.acknowledged, 1, Len(set.acknowledged) - 1))

Retained(set) ==
    /\ File("archive", set) \in whole
    /\ set.generation > 1 => File("archive", predecessor(set)) \in whole

Terminal(set) == set.generation >= 2 /\ Len(set.acknowledged) = Results
input_sequence(set) == Len(set.acknowledged) + 1

-----------------------------------------------------------------------------
\* Files.
Create(f) == torn' = torn \cup {f} /\ whole' = whole \ {f}
Write(f) == torn' = torn \ {f} /\ whole' = whole \cup {f}
Rename(f, to) == whole' = (whole \ {f}) \cup to /\ UNCHANGED torn

-----------------------------------------------------------------------------
\* LeaseV1.open: the lock, and the selected set under it; the retained
\* predecessor is read when the step begins.
open(w) ==
    /\ work[w] = Idle
    /\ lease = NoWorker
    /\ Retained(checkpoint)
    /\ lease' = w
    /\ work' = [work EXCEPT ![w] =
           [pc |-> IF Terminal(checkpoint) THEN "close" ELSE "open_sink",
            set |-> checkpoint, ledger |-> NoLedger]]
    /\ UNCHANGED <<selectedVars, fileVars, sink_lock, reader, deaths>>

\* The source makes the empty sink, or completes it, or finds it.
createOrRecoverEmpty(w) ==
    /\ work[w].pc = "open_sink"
    /\ work[w].set.generation = 1
    /\ sink_lock = NoWorker
    /\ sink_lock' = w
    /\ work' = [work EXCEPT ![w].ledger = Ledger(<<>>),
                            ![w].pc = CASE sink = NoLedger -> "ledger"
                                        [] sink = Ledger(<<>>) -> "progress"
                                        [] OTHER -> "close"]
    /\ UNCHANGED <<selectedVars, fileVars, lease, reader, deaths>>

\* The target refuses a sink that is not at its result or one beyond it.
validateTargetSink(set) ==
    /\ File("ledger", sink) \in whole
    /\ Len(sink.acknowledgements) + 1 - input_sequence(set) \in {0, 1}

open_sink(w) ==
    /\ work[w].pc = "open_sink"
    /\ work[w].set.generation > 1
    /\ sink_lock = NoWorker
    /\ sink_lock' = w
    /\ work' = [work EXCEPT ![w].ledger = sink,
                            ![w].pc = IF validateTargetSink(work[w].set)
                                      THEN "apply" ELSE "close"]
    /\ UNCHANGED <<selectedVars, fileVars, lease, reader, deaths>>

\* Mutant: a result the ledger has already is stored once more.
prepareApplyAgain(w) ==
    /\ work[w].pc = "apply"
    /\ work' = [work EXCEPT
           ![w].pc = "ledger",
           ![w].ledger = Ledger(Append(work[w].ledger.acknowledgements,
                                       input_sequence(work[w].set)))]
    /\ UNCHANGED <<selectedVars, fileVars, lockVars, reader, deaths>>

\* The step of the model and prepareApply: what the ledger has is replayed.
prepareApply(w) ==
    /\ work[w].pc = "apply"
    /\ LET acks == work[w].ledger.acknowledgements
           sequence == input_sequence(work[w].set)
       IN  work' = IF sequence <= Len(acks)
                   THEN At("progress", w)
                   ELSE [work EXCEPT ![w].pc = "ledger",
                             ![w].ledger = Ledger(Append(acks, sequence))]
    /\ UNCHANGED <<selectedVars, fileVars, lockVars, reader, deaths>>

-----------------------------------------------------------------------------
\* publishLedgerV1 and publishSelectorV1: a candidate that is left over is
\* made anew, a ledger that has its name already is kept.
publishLedgerV1(w) ==
    /\ LET candidate == File("ledger_candidate", work[w].ledger)
           immutable == File("ledger", work[w].ledger)
       IN  \/ /\ work[w].pc = "ledger"
              /\ immutable \in whole
              /\ work' = At("selector", w)
              /\ UNCHANGED fileVars
           \/ /\ work[w].pc = "ledger"
              /\ immutable \notin whole
              /\ Create(candidate)
              /\ work' = At("ledger_write", w)
           \/ /\ work[w].pc = "ledger_write"
              /\ Write(candidate)
              /\ work' = At("ledger_rename", w)
           \/ /\ work[w].pc = "ledger_rename"
              /\ Rename(candidate, {immutable})
              /\ work' = At("selector", w)
    /\ UNCHANGED <<selectedVars, lockVars, reader, deaths>>

publishSelectorV1(w) ==
    /\ LET candidate == File("selector_candidate", work[w].ledger)
       IN  \/ /\ work[w].pc = "selector"
              /\ Create(candidate)
              /\ work' = At("selector_write", w)
              /\ UNCHANGED sink
           \/ /\ work[w].pc = "selector_write"
              /\ Write(candidate)
              /\ work' = At("selector_rename", w)
              /\ UNCHANGED sink
           \/ /\ work[w].pc = "selector_rename"
              /\ Rename(candidate, {})
              /\ sink' = work[w].ledger
              /\ work' = At("progress", w)
    /\ UNCHANGED <<checkpoint, lockVars, reader, deaths>>

-----------------------------------------------------------------------------
\* The set a process publishes: the source passes on, the target adds the
\* acknowledgement of its result.
next_set(w) ==
    LET set == work[w].set
        acks == work[w].ledger.acknowledgements
    IN  Set(set.generation + 1,
            IF set.generation = 1 THEN <<>>
            ELSE SubSeq(acks, 1, input_sequence(set)))

\* Mutant: a file that exists is taken for the file.
ensureExactFileV1Existing(w, f, here, there, next) ==
    \/ /\ work[w].pc = here
       /\ f \notin torn \cup whole
       /\ Create(f)
       /\ work' = At(there, w)
    \/ /\ work[w].pc = here
       /\ f \in torn \cup whole
       /\ work' = At(next, w)
       /\ UNCHANGED fileVars
    \/ /\ work[w].pc = there
       /\ Write(f)
       /\ work' = At(next, w)

\* ensureExactFileV1 keeps a file that is right and rewrites any other.
ensureExactFileV1(w, f, here, there, next) ==
    \/ /\ work[w].pc = here
       /\ f \notin whole
       /\ Create(f)
       /\ work' = At(there, w)
    \/ /\ work[w].pc = here
       /\ f \in whole
       /\ work' = At(next, w)
       /\ UNCHANGED fileVars
    \/ /\ work[w].pc = there
       /\ Write(f)
       /\ work' = At(next, w)

\* recoverV1: the archive, the candidate of the selector, and its rename.
recoverV1(w) ==
    /\ LET archive == File("archive", next_set(w))
           candidate == File("set_candidate", next_set(w))
       IN  \/ /\ \/ ensureExactFileV1(w, archive, "progress",
                                      "archive_write", "candidate")
                 \/ ensureExactFileV1(w, candidate, "candidate",
                                      "candidate_write", "select")
              /\ UNCHANGED checkpoint
           \/ /\ work[w].pc = "select"
              /\ Rename(candidate, {})
              /\ checkpoint' = next_set(w)
              /\ work' = At("close", w)
    /\ UNCHANGED <<sink, lockVars, reader, deaths>>

close(w) ==
    /\ work[w].pc = "close"
    /\ work' = [work EXCEPT ![w] = Idle]
    /\ lease' = NoWorker
    /\ sink_lock' = IF sink_lock = w THEN NoWorker ELSE sink_lock
    /\ UNCHANGED <<selectedVars, fileVars, reader, deaths>>

\* SIGKILL, or the fail-stop callback: the system releases both locks.
die(w) ==
    /\ work[w] # Idle
    /\ deaths < MaxDeaths
    /\ deaths' = deaths + 1
    /\ work' = [work EXCEPT ![w] = Idle]
    /\ lease' = IF lease = w THEN NoWorker ELSE lease
    /\ sink_lock' = IF sink_lock = w THEN NoWorker ELSE sink_lock
    /\ UNCHANGED <<selectedVars, fileVars, reader>>

-----------------------------------------------------------------------------
\* inspectDirectoryV1, without a lock: a selector, the files it names, the
\* selector once more; then both selectors again.
Reading(r, next) == reader' = [reader EXCEPT ![r] = next]
Goes(r, pc) == Reading(r, [reader[r] EXCEPT !.pc = pc])
writerVars == <<selectedVars, fileVars, lockVars, work, deaths>>

read_checkpoint(r) ==
    /\ reader[r].pc = "idle"
    /\ Reading(r, [pc |-> "set", set |-> checkpoint, ledger |-> NoLedger,
                   together |-> FALSE])
    /\ UNCHANGED writerVars

readSelectedSet(r) ==
    /\ reader[r].pc = "set"
    /\ Goes(r, CASE checkpoint # reader[r].set -> "changed"
                 [] reader[r].set.generation < 2 -> "unsupported"
                 [] ~Retained(reader[r].set) -> "missing"
                 [] OTHER -> "sink")
    /\ UNCHANGED writerVars

read_sink(r) ==
    /\ reader[r].pc = "sink"
    /\ IF sink = NoLedger
       THEN Goes(r, "missing")
       ELSE Reading(r, [reader[r] EXCEPT !.pc = "ledger", !.ledger = sink])
    /\ UNCHANGED writerVars

\* reconcileV1: the ledger extends the checkpoint's acknowledgements, by none
\* or, before the terminal set, by one.
Reconciled(set, acks) ==
    /\ Len(acks) - Len(set.acknowledged) \in
           (IF Terminal(set) THEN {0} ELSE {0, 1})
    /\ SubSeq(acks, 1, Len(set.acknowledged)) = set.acknowledged
    /\ acks = [i \in 1..Len(acks) |-> i]

\* together is history: the checkpoint was still selected with this ledger.
readSelectedLedger(r) ==
    /\ reader[r].pc = "ledger"
    /\ LET set == reader[r].set
           ledger == reader[r].ledger
       IN  Reading(r, [reader[r] EXCEPT
               !.together = (checkpoint = set),
               !.pc = CASE File("ledger", ledger) \notin whole -> "missing"
                        [] sink # ledger -> "changed"
                        [] Reconciled(set, ledger.acknowledgements)
                             -> "recheck_set"
                        [] OTHER -> "invalid"])
    /\ UNCHANGED writerVars

recheck_checkpoint(r) ==
    /\ reader[r].pc = "recheck_set"
    /\ Goes(r, IF checkpoint = reader[r].set THEN "recheck_sink" ELSE "changed")
    /\ UNCHANGED writerVars

recheck_sink(r) ==
    /\ reader[r].pc = "recheck_sink"
    /\ Goes(r, IF sink = reader[r].ledger THEN "view" ELSE "changed")
    /\ UNCHANGED writerVars

\* inspectDirectoryV1 returns.
finish(r) ==
    /\ reader[r].pc \in {"view", "changed", "unsupported", "missing", "invalid"}
    /\ Reading(r, Idle)
    /\ UNCHANGED writerVars

inspectDirectoryV1(r) ==
    \/ read_checkpoint(r) \/ readSelectedSet(r)
    \/ read_sink(r) \/ readSelectedLedger(r)
    \/ recheck_checkpoint(r) \/ recheck_sink(r) \/ finish(r)

-----------------------------------------------------------------------------
\* Generation one is selected, nothing is in the sink's place.
DeliveryInit ==
    /\ checkpoint = Set(1, <<>>)
    /\ sink = NoLedger
    /\ torn = {}
    /\ whole = {File("archive", Set(1, <<>>))}
    /\ lease = NoWorker
    /\ sink_lock = NoWorker
    /\ work = [w \in Workers |-> Idle]
    /\ reader = [r \in Readers |-> Idle]
    /\ deaths = 0

Continue(w) ==
    \/ createOrRecoverEmpty(w) \/ open_sink(w) \/ prepareApply(w)
    \/ publishLedgerV1(w) \/ publishSelectorV1(w) \/ recoverV1(w)
    \/ close(w)

DeliveryNext ==
    \/ \E w \in Workers : open(w) \/ Continue(w) \/ die(w)
    \/ \E r \in Readers : inspectDirectoryV1(r)

\* A process that is not killed goes on, and the call is made again until
\* the terminal set is selected.
DeliveryFairness ==
    /\ \A w \in Workers : WF_deliveryVars(Continue(w))
    /\ WF_deliveryVars(\E w \in Workers : open(w))

DeliverySpec == DeliveryInit /\ [][DeliveryNext]_deliveryVars /\ DeliveryFairness

\* What a user of the sink and the checkpoint sees.
Delivered == INSTANCE TextDelivered WITH
    delivered <- IF sink = NoLedger THEN <<>> ELSE sink.acknowledgements,
    acknowledged <- Len(checkpoint.acknowledged)

\* The sink and the checkpoint together deliver every result, in order and
\* once, whatever is killed between the sink's selection, the checkpoint's
\* and the files they name (advanceSourceFileV1 and advanceTargetFileV1 of
\* prepared_text_durable_runtime.zig).
DeliversOnce == Delivered!DeliveredSpec

\* A reader without a lock never takes the work of a writer, or what a dead
\* one left, for damage: it misses no file its selectors name, and the two
\* selections contradict each other only if the checkpoint has moved since
\* it was read.  What it shows was selected at one moment
\* (inspectDirectoryV1 of prepared_text_committed_output_file.zig).
ReaderBlamesOnlyRaces ==
    \A r \in Readers :
        /\ reader[r].pc # "missing"
        /\ reader[r].pc = "invalid" => checkpoint # reader[r].set
        /\ reader[r].pc = "view" => reader[r].together
=============================================================================
