---------------------------- MODULE OutboxStore -----------------------------
(***************************************************************************)
(* The durable store of the ActionOutbox, core/tool_action_outbox_file.zig:*)
(* one journal file, held under an exclusive lock by one process at a time *)
(* that appends a record as body, sync, footer, sync, and only then        *)
(* advances the state its caller sees.                                     *)
(*                                                                         *)
(* A file's content is its complete frames and the class of the incomplete *)
(* tail after them, which is how recovery reads it.  file is what the      *)
(* operating system shows, disk what is certain to survive a power loss:   *)
(* the content of the last sync.  A write that was not synced may survive  *)
(* whole, in part or not at all; two unsynced writes may survive in either *)
(* order.  A process may die, and power may fail, between any two steps.   *)
(***************************************************************************)
EXTENDS OutboxRecords

CONSTANT MaxFaults       \* bound on I/O errors, process deaths, power losses

ASSUME StoreAssumption == MaxFaults \in Nat

VARIABLES
    file,        \* the content every process sees
    disk,        \* the content of the last successful sync
    store,       \* StoreV1.state
    io,          \* the next file operation of an append or a repair
    pending,     \* the record being appended
    log,         \* StoreV1.record_storage, the caller-visible journal
    states,      \* StoreV1.state_storage
    receipted,   \* history: the longest journal a caller has a receipt for
    faults       \* number of faults so far

storeVars == <<file, disk, store, io, pending, log, states, receipted, faults>>

\* The incomplete tails, in the order of their length.
Tails == <<"none", "short_body", "body", "partial_footer">>
Rank(tail) == CHOOSE n \in 1 .. 4 : Tails[n] = tail
Between(t, u) == {Tails[n] : n \in Rank(t) .. Rank(u)}

Content(frames, tail) == [frames |-> frames, tail |-> tail]

NoRecord == [kind |-> "none", action |-> NoAction, attempt |-> 0]

StoreInit ==
    /\ file = Content(<<>>, "none")
    /\ disk = file
    /\ store = "ready"
    /\ io = "none"
    /\ pending = NoRecord
    /\ log = <<>>
    /\ states = Replay(<<>>)
    /\ receipted = <<>>
    /\ faults = 0

Fault == faults < MaxFaults /\ faults' = faults + 1

-----------------------------------------------------------------------------
(* appendRecord.  Everything that can be rejected is checked before the    *)
(* first write.                                                            *)

startAppend(r) ==
    /\ store = "ready"
    /\ Applicable(states, Len(log), r)
    /\ store' = "append_active"
    /\ io' = "body_write"
    /\ pending' = r
    /\ UNCHANGED <<file, disk, log, states, receipted, faults>>

bodyWrite ==
    /\ io = "body_write"
    /\ file' = [file EXCEPT !.tail = "body"]
    /\ io' = "body_sync"
    /\ UNCHANGED <<disk, store, pending, log, states, receipted, faults>>

\* Mutant: the body is not synchronized before its footer is written.
bodySyncSkipped ==
    /\ io = "body_sync"
    /\ io' = "footer_write"
    /\ UNCHANGED <<file, disk, store, pending, log, states, receipted, faults>>

bodySync ==
    /\ io = "body_sync"
    /\ disk' = file
    /\ io' = "footer_write"
    /\ UNCHANGED <<file, store, pending, log, states, receipted, faults>>

footerWrite ==
    /\ io = "footer_write"
    /\ file' = Content(Append(file.frames, pending), "none")
    /\ io' = "footer_sync"
    /\ UNCHANGED <<disk, store, pending, log, states, receipted, faults>>

\* Mutant: the receipt is returned before the footer is durable.
footerSyncSkipped ==
    /\ io = "footer_sync"
    /\ log' = Append(log, pending)
    /\ states' = [states EXCEPT ![pending.action] =
                    [phase |-> PhaseAfter(pending.kind),
                     attempt |-> pending.attempt]]
    /\ receipted' = log'
    /\ store' = "ready"
    /\ io' = "none"
    /\ pending' = NoRecord
    /\ UNCHANGED <<file, disk, faults>>

\* The last sync, the read-back and commitApplyPlanV1.
footerSync ==
    /\ io = "footer_sync"
    /\ disk' = file
    /\ log' = Append(log, pending)
    /\ states' = [states EXCEPT ![pending.action] =
                    [phase |-> PhaseAfter(pending.kind),
                     attempt |-> pending.attempt]]
    /\ receipted' = log'
    /\ store' = "ready"
    /\ io' = "none"
    /\ pending' = NoRecord
    /\ UNCHANGED <<file, faults>>

-----------------------------------------------------------------------------
(* open, repairIncompleteTail and close.                                   *)

\* Mutant: the journal found in the file is trusted without a sync.
openCleanUnsynced ==
    /\ store = "closed"
    /\ file.tail = "none"
    /\ Recoverable(file.frames)
    /\ store' = "ready"
    /\ log' = file.frames
    /\ states' = Replay(file.frames)
    /\ receipted' = file.frames
    /\ UNCHANGED <<file, disk, io, pending, faults>>

\* A clean journal is synchronized before append authority is returned: the
\* process that wrote its last frame may have died before the sync.
openClean ==
    /\ store = "closed"
    /\ file.tail = "none"
    /\ Recoverable(file.frames)
    /\ disk' = file
    /\ store' = "ready"
    /\ log' = file.frames
    /\ states' = Replay(file.frames)
    /\ receipted' = file.frames
    /\ UNCHANGED <<file, io, pending, faults>>

openIncomplete ==
    /\ store = "closed"
    /\ file.tail # "none"
    /\ Recoverable(file.frames)
    /\ store' = "repair_required"
    /\ log' = file.frames
    /\ states' = Replay(file.frames)
    /\ UNCHANGED <<file, disk, io, pending, receipted, faults>>

startRepair ==
    /\ store = "repair_required"
    /\ store' = "repair_active"
    /\ io' = "repair_truncate"
    /\ UNCHANGED <<file, disk, pending, log, states, receipted, faults>>

repairTruncate ==
    /\ io = "repair_truncate"
    /\ file' = [file EXCEPT !.tail = "none"]
    /\ io' = "repair_sync"
    /\ UNCHANGED <<disk, store, pending, log, states, receipted, faults>>

repairSync ==
    /\ io = "repair_sync"
    /\ disk' = file
    /\ store' = "repair_complete"
    /\ io' = "none"
    /\ UNCHANGED <<file, pending, log, states, receipted, faults>>

\* What closing and process death leave of the store.
Forget ==
    /\ store' = "closed"
    /\ io' = "none"
    /\ pending' = NoRecord
    /\ log' = <<>>
    /\ states' = Replay(<<>>)

close ==
    /\ store \in {"ready", "repair_required", "repair_complete", "poisoned"}
    /\ Forget
    /\ UNCHANGED <<file, disk, receipted, faults>>

-----------------------------------------------------------------------------
(* Faults.                                                                 *)

\* What the interrupted write may leave of a content that was to become new.
Partial(old, new) ==
    IF new.frames = old.frames
    THEN {Content(old.frames, t) : t \in Between(old.tail, new.tail)
                                          \union Between(new.tail, old.tail)}
    ELSE {Content(old.frames, t) : t \in Between(old.tail, "partial_footer")}
           \union {new}

\* What the file may hold when the next operation fails or is cut short.
Interrupted ==
    CASE io = "body_write" -> Partial(file, Content(file.frames, "body"))
      [] io = "footer_write" ->
           Partial(file, Content(Append(file.frames, pending), "none"))
      [] io = "repair_truncate" -> {file, Content(file.frames, "none")}
      [] OTHER -> {file}

\* A file operation, or the check after it, fails.  The store is poisoned
\* until it is closed.
ioError ==
    /\ io # "none"
    /\ Fault
    /\ store' = "poisoned"
    /\ io' = "none"
    /\ pending' = NoRecord
    /\ file' \in Interrupted
    /\ UNCHANGED <<disk, log, states, receipted>>

\* The process dies; the operating system keeps what was written.
processDeath ==
    /\ store # "closed"
    /\ Fault
    /\ Forget
    /\ file' \in Interrupted
    /\ UNCHANGED <<disk, receipted>>

\* Power fails: of the writes after the last sync anything may be left.  A
\* footer that survives a body that was never synced is a torn frame.
powerLoss ==
    /\ Fault
    /\ Forget
    /\ file' \in UNION {Partial(disk, f) : f \in Interrupted}
         \union IF file.frames # disk.frames /\ disk.tail # "body"
                THEN {Content(Append(disk.frames, Torn), "none")} ELSE {}
    /\ disk' = file'
    /\ UNCHANGED receipted

WriteStep == bodyWrite \/ bodySync \/ footerWrite
OpenStep == \/ openClean \/ openIncomplete
            \/ startRepair \/ repairTruncate \/ repairSync

-----------------------------------------------------------------------------
(* Properties.                                                             *)

\* Every variable of the store holds a value of its declared shape; no frame,
\* in the file or on disk, is torn.
StoreTypeOK ==
    /\ file \in [frames : Seq(Record), tail : {Tails[n] : n \in 1 .. 4}]
    /\ disk \in [frames : Seq(Record), tail : {Tails[n] : n \in 1 .. 4}]
    /\ store \in {"ready", "append_active", "repair_required",
                  "repair_active", "repair_complete", "poisoned", "closed"}
    /\ io \in {"none", "body_write", "body_sync", "footer_write",
               "footer_sync", "repair_truncate", "repair_sync"}
    /\ pending \in Record \union {NoRecord}
    /\ log \in Seq(Record)
    /\ states \in [Actions -> [phase : Phases, attempt : Nat]]
    /\ faults \in 0 .. MaxFaults
=============================================================================
