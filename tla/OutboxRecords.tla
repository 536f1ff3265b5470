--------------------------- MODULE OutboxRecords ----------------------------
(***************************************************************************)
(* The journal of the ActionOutbox, core/tool_action_outbox_record.zig: an *)
(* append-only sequence of records, and the state of every external action *)
(* that replaying the sequence yields.                                     *)
(*                                                                         *)
(* A record is its event kind, its action and its attempt generation.  The *)
(* sequence number is the position in the journal; the two hash chains say *)
(* that a record follows exactly the journal, and the event of its action, *)
(* that it was made for.  Observation and result digests are left out: the *)
(* kind carries what the life cycle reads from them.                       *)
(***************************************************************************)
EXTENDS Integers, Sequences, FiniteSets

CONSTANTS Actions,       \* action identities (action_sha256)
          KeyOf,         \* the idempotency key of an action
          ParentOf,      \* the parent of a compensation, else NoAction
          NoAction,
          MaxActions,    \* header.maximum_actions
          MaxRecords     \* header.maximum_records

\* An action's identity is a digest of 32 bytes.
ASSUME RecordsAssumption ==
    /\ NoAction \notin Actions
    /\ IsFiniteSet(Actions)
    /\ DOMAIN KeyOf = Actions
    /\ ParentOf \in [Actions -> Actions \union {NoAction}]
    /\ MaxActions \in Nat
    /\ MaxRecords \in Nat

Kinds == {"enqueued", "dispatch_intent", "ambiguity_observed",
          "acknowledged_success", "acknowledged_failure",
          "reconciled_not_applied", "reconciled_success",
          "reconciled_failure"}

Phases == {"free", "ready", "uncertain", "succeeded", "failed"}

Record == [kind : Kinds, action : Actions, attempt : Nat]

FreeAction == [phase |-> "free", attempt |-> 0]

\* A complete frame whose bytes do not decode: a footer without its body.
Torn == [kind |-> "torn", action |-> NoAction, attempt |-> 0]

-----------------------------------------------------------------------------
\* The phase of its action after a record of the given kind.
PhaseAfter(kind) ==
    CASE kind \in {"enqueued", "reconciled_not_applied"} -> "ready"
      [] kind \in {"dispatch_intent", "ambiguity_observed"} -> "uncertain"
      [] kind \in {"acknowledged_success", "reconciled_success"} -> "succeeded"
      [] kind \in {"acknowledged_failure", "reconciled_failure"} -> "failed"

\* Replay.  The last record of an action alone determines the state it leaves.
Replay(log) ==
    [a \in Actions |->
        LET events == {n \in 1 .. Len(log) : log[n].action = a} IN
        IF events = {} THEN FreeAction
        ELSE LET last == log[CHOOSE n \in events : \A k \in events : k <= n]
             IN  [phase |-> PhaseAfter(last.kind), attempt |-> last.attempt]]

\* Whether planApplyRecordV1 accepts a new action on top of states.
Enqueueable(states, a) ==
    /\ states[a].phase = "free"
    /\ Cardinality({b \in Actions : states[b].phase # "free"}) < MaxActions
    /\ \A b \in Actions : states[b].phase # "free" => KeyOf[b] # KeyOf[a]
    /\ ParentOf[a] # NoAction =>
        /\ ParentOf[ParentOf[a]] = NoAction
        /\ states[ParentOf[a]].phase = "succeeded"
        /\ \A b \in Actions :
             states[b].phase # "free" => ParentOf[b] # ParentOf[a]

\* Whether planApplyRecordV1 accepts record r after a journal of n records.
Applicable(states, n, r) ==
    /\ n < MaxRecords
    /\ r.kind \in Kinds
    /\ CASE r.kind = "enqueued" -> Enqueueable(states, r.action)
         [] r.kind = "dispatch_intent" ->
              /\ states[r.action].phase = "ready"
              /\ r.attempt = states[r.action].attempt + 1
         [] OTHER ->
              /\ states[r.action].phase = "uncertain"
              /\ r.attempt = states[r.action].attempt

\* recoverV1 replays the whole journal: every frame decodes and is applicable
\* after the frames before it.
Recoverable(log) ==
    \A n \in 1 .. Len(log) :
        Applicable(Replay(SubSeq(log, 1, n - 1)), n - 1, log[n])

Uncertain(states) == {a \in Actions : states[a].phase = "uncertain"}
=============================================================================
