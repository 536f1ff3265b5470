-------------------------- MODULE OutboxAuthority ---------------------------
(***************************************************************************)
(* The remote authority that performs external actions, as the adapter     *)
(* contract requires it and core/tool_action_outbox_fake_adapter.zig       *)
(* implements it.  It keeps one entry per stable request.  A status lookup *)
(* that answers "not applied" first fences the attempt it was asked about, *)
(* so that a delayed dispatch of that attempt is refused for good.         *)
(*                                                                         *)
(* Every callback runs under the authority's mutex: one atomic action.  An *)
(* unavailable authority is a call that is never answered, the status mode *)
(* "unknown" an answer that changes nothing.  Revisions and evidence       *)
(* digests are left out.  The entries outlive the outbox process.          *)
(***************************************************************************)
EXTENDS OutboxRecords

CONSTANT EntryCapacity   \* the length of the entry table

ASSUME AuthorityAssumption == EntryCapacity \in Nat

VARIABLE entries         \* AuthorityV1.entries, by action

\* phase "none" is an unoccupied entry; applied is application_count.
NoEntry == [phase |-> "none", fence |-> 0, accepted |-> 0, applied |-> 0]

AuthorityInit == entries = [a \in Actions |-> NoEntry]

Known(a) == entries[a].phase # "none"

\* A new stable request is admitted: no identity conflict and a free entry.
Admissible(a) ==
    /\ ~Known(a)
    /\ \A b \in Actions : Known(b) => KeyOf[b] # KeyOf[a]
    /\ Cardinality({b \in Actions : Known(b)}) < EntryCapacity

-----------------------------------------------------------------------------
(* dispatchCallback and dispatchExisting.                                  *)

\* Attempt g of action a is performed, at once or later.
Accepts(a, g) ==
    \/ Admissible(a) /\ g = 1
    \/ entries[a].phase = "fenced" /\ g = entries[a].fence + 1

\* The dispatch plan decides what becomes of an accepted attempt.
accept(a, g, phase) ==
    /\ Accepts(a, g)
    /\ phase \in {"succeeded", "failed", "pending"}
    /\ entries' = [entries EXCEPT
                     ![a].phase = phase,
                     ![a].accepted = g,
                     ![a].applied = IF phase = "pending" THEN 0 ELSE 1]

\* The evidence for an attempt the authority does not accept (again); an
\* attempt that has neither is an error of the callback.
Refusal(a, g) ==
    IF ~Known(a) THEN {}
    ELSE IF g <= entries[a].fence THEN {"rejected_stale_generation"}
    ELSE IF entries[a].phase = "pending" /\ g = entries[a].accepted
         THEN {"indeterminate"}
    ELSE IF entries[a].phase = "succeeded" THEN {"succeeded"}
    ELSE IF entries[a].phase = "failed" THEN {"terminal_failure"}
    ELSE {}

Evidence(phase) == CASE phase = "succeeded" -> "succeeded"
                     [] phase = "failed" -> "terminal_failure"
                     [] phase = "pending" -> "indeterminate"

\* One dispatch of attempt g: the evidence is returned, the entry updated.
dispatchCallback(a, g, evidence) ==
    \/ \E phase \in {"succeeded", "failed", "pending"} :
        accept(a, g, phase) /\ evidence = Evidence(phase)
    \/ evidence \in Refusal(a, g) /\ UNCHANGED entries

-----------------------------------------------------------------------------
(* statusCallback and statusExisting.                                      *)

\* Mutant: the negative answer is given without installing the fence.
fenceAttemptNever(a, g) ==
    /\ \/ Admissible(a)
       \/ entries[a].phase = "fenced" /\ g <= entries[a].fence + 1
    /\ UNCHANGED entries

\* Attempts up to g are refused from now on.
fenceAttempt(a, g) ==
    /\ \/ Admissible(a)
       \/ entries[a].phase = "fenced" /\ g <= entries[a].fence + 1
    /\ entries' = [entries EXCEPT
                     ![a].phase = "fenced",
                     ![a].fence = IF g > @ THEN g ELSE @]

statusCallback(a, g, disposition) ==
    \/ disposition = "not_applied_fenced" /\ fenceAttempt(a, g)
    \/ /\ disposition = "not_applied_fenced"
       /\ entries[a].phase = "pending" /\ g <= entries[a].fence
       /\ UNCHANGED entries
    \/ /\ disposition = "pending"
       /\ entries[a].phase = "pending" /\ g = entries[a].accepted
       /\ UNCHANGED entries
    \/ /\ disposition \in {"succeeded", "failed"}
       /\ entries[a].phase = disposition
       /\ UNCHANGED entries
    \/ disposition = "unknown" /\ UNCHANGED entries

-----------------------------------------------------------------------------
\* The service finishes a pending application.
completePending(a) ==
    /\ entries[a].phase = "pending"
    /\ \E phase \in {"succeeded", "failed"} :
        entries' = [entries EXCEPT ![a].phase = phase, ![a].applied = @ + 1]
=============================================================================
