---------------------------- MODULE ActionOutbox ----------------------------
(***************************************************************************)
(* External actions from the outbox to the authority and back: the driver  *)
(* of core/tool_action_outbox_dispatch_driver.zig between the durable      *)
(* store of OutboxStore and the remote authority of OutboxAuthority.       *)
(*                                                                         *)
(* One thread drives the store.  A dispatch is durable as an intent before *)
(* the callback is made; while the callback runs, call holds its request.  *)
(* A request that has left the process stays in wire: it may arrive later, *)
(* more than once, or never, also after its sender has died.  The answer   *)
(* to a request that arrives late goes nowhere.                            *)
(***************************************************************************)
EXTENDS OutboxStore, OutboxAuthority

CONSTANT KeepReserve     \* whether callers enqueue only into spare records

ASSUME OutboxAssumption == KeepReserve \in BOOLEAN

VARIABLES call,          \* the dispatch whose callback is running
          wire           \* the requests that were ever sent

outboxVars == <<storeVars, entries, call, wire>>

Request(op, a, g) == [op |-> op, action |-> a, attempt |-> g]
NoCall == Request("none", NoAction, 0)

RecordOf(kind, a, g) == [kind |-> kind, action |-> a, attempt |-> g]

OutboxInit == /\ StoreInit
              /\ AuthorityInit
              /\ call = NoCall
              /\ wire = {}

-----------------------------------------------------------------------------
\* Mutant: only the records of the action at hand are reserved.
requireUncertainReserveOwn(additional) == additional <= MaxRecords - Len(log)

\* One record is kept free for every uncertain action, and more on request.
requireUncertainReserve(additional) ==
    Cardinality(Uncertain(states)) + additional <= MaxRecords - Len(log)

\* The store's states() can be read; only a ready store takes a record.
Readable == store \in {"ready", "repair_required", "repair_complete"}

\* A direct append of the caller.  The store does not know of the driver's
\* reserve: keeping it is the caller's discipline.
enqueue(a) ==
    /\ call = NoCall
    /\ KeepReserve => requireUncertainReserve(1)
    /\ startAppend(RecordOf("enqueued", a, 0))
    /\ UNCHANGED <<entries, call, wire>>

\* Mutant: the request leaves before its intent is durable.
dispatchReadyEarly(a) ==
    /\ call = NoCall
    /\ states[a].phase = "ready"
    /\ requireUncertainReserve(3)
    /\ startAppend(RecordOf("dispatch_intent", a, states[a].attempt + 1))
    /\ wire' = wire \union {Request("dispatch", a, states[a].attempt + 1)}
    /\ UNCHANGED <<entries, call>>

\* dispatchReadyV1 up to the append of the intent.
dispatchReady(a) ==
    /\ call = NoCall
    /\ states[a].phase = "ready"
    /\ requireUncertainReserve(3)
    /\ startAppend(RecordOf("dispatch_intent", a, states[a].attempt + 1))
    /\ UNCHANGED <<entries, call, wire>>

\* The append returns; after an intent the driver goes on to the callback.
appendReturns ==
    /\ footerSync
    /\ call' = IF pending.kind = "dispatch_intent"
               THEN Request("dispatch", pending.action, pending.attempt)
               ELSE call
    /\ UNCHANGED <<entries, wire>>

\* Mutant: an answer that does not know the outcome is taken for a success.
transitionFromDispatchHopeful(evidence) ==
    IF evidence = "terminal_failure" THEN "acknowledged_failure"
                                     ELSE "acknowledged_success"

transitionFromDispatch(evidence) ==
    CASE evidence = "succeeded" -> "acknowledged_success"
      [] evidence = "terminal_failure" -> "acknowledged_failure"
      [] evidence \in {"indeterminate", "rejected_stale_generation"} ->
           "ambiguity_observed"

\* The callback returns evidence, which the driver starts to append.
dispatchReturns ==
    /\ call # NoCall
    /\ \E evidence \in {"succeeded", "terminal_failure", "indeterminate",
                        "rejected_stale_generation"} :
        /\ dispatchCallback(call.action, call.attempt, evidence)
        /\ startAppend(RecordOf(transitionFromDispatch(evidence),
                                call.action, call.attempt))
    /\ wire' = wire \union {call}
    /\ call' = NoCall

\* The callback fails, or its evidence is invalid: the request may or may not
\* be on its way.  No retry is inferred, the action stays uncertain.
dispatchFails ==
    /\ call # NoCall
    /\ wire' \in {wire, wire \union {call}}
    /\ call' = NoCall
    /\ UNCHANGED <<storeVars, entries>>

transitionFromStatus(disposition) ==
    CASE disposition = "not_applied_fenced" -> "reconciled_not_applied"
      [] disposition = "succeeded" -> "reconciled_success"
      [] disposition = "failed" -> "reconciled_failure"

\* reconcileUncertainV1 with a definite answer.  An answer "pending" or
\* "unknown" is returned to the caller and changes nothing.
reconcileUncertain(a) ==
    /\ call = NoCall
    /\ states[a].phase = "uncertain"
    /\ requireUncertainReserve(0)
    /\ \E disposition \in {"not_applied_fenced", "succeeded", "failed"} :
        /\ statusCallback(a, states[a].attempt, disposition)
        /\ startAppend(RecordOf(transitionFromStatus(disposition), a,
                                states[a].attempt))
    /\ UNCHANGED <<call, wire>>

\* The lookup is made but its answer is lost, or the store, which must be
\* repaired first, refuses the record.
reconcileInVain(a) ==
    /\ call = NoCall
    /\ Readable
    /\ states[a].phase = "uncertain"
    /\ requireUncertainReserve(0)
    /\ wire' = wire \union {Request("status", a, states[a].attempt)}
    /\ UNCHANGED <<storeVars, entries, call>>

\* The network hands a request to the authority once more.
deliver(m) ==
    /\ \/ /\ m.op = "dispatch"
          /\ \E evidence \in {"succeeded", "terminal_failure",
                              "indeterminate"} :
               dispatchCallback(m.action, m.attempt, evidence)
       \/ /\ m.op = "status"
          /\ statusCallback(m.action, m.attempt, "not_applied_fenced")
    /\ UNCHANGED <<storeVars, call, wire>>

complete(a) == completePending(a) /\ UNCHANGED <<storeVars, call, wire>>

\* A dead process takes its call with it, which may have left already.
Die == /\ call' = NoCall
       /\ wire' \in {wire} \union IF call = NoCall THEN {}
                                  ELSE {wire \union {call}}
       /\ UNCHANGED entries

crash == (processDeath \/ powerLoss) /\ Die

\* The steps of the store that leave driver and authority alone.
StoreStep ==
    /\ \/ WriteStep \/ ioError \/ OpenStep
       \/ call = NoCall /\ close
    /\ UNCHANGED <<entries, call, wire>>

DriverStep == \/ \E a \in Actions : \/ enqueue(a) \/ dispatchReady(a)
                                    \/ reconcileUncertain(a)
                                    \/ reconcileInVain(a)
              \/ appendReturns \/ dispatchReturns \/ dispatchFails

RemoteStep == (\E m \in wire : deliver(m)) \/ (\E a \in Actions : complete(a))

OutboxNext == StoreStep \/ DriverStep \/ RemoteStep \/ crash

OutboxSpec == OutboxInit /\ [][OutboxNext]_outboxVars

-----------------------------------------------------------------------------
(* Fairness: a started call runs to its end; a caller whose store is not   *)
(* ready closes and reopens it, repairs one that is found incomplete again *)
(* and again, and keeps looking up an uncertain action whenever it has the *)
(* store; the authority performs what it accepted and, asked again and     *)
(* again, does give a definite answer.                                     *)

recover ==
    /\ \/ OpenStep
       \/ store \in {"poisoned", "repair_complete"} /\ close
    /\ UNCHANGED <<entries, call, wire>>

repair == startRepair /\ UNCHANGED <<entries, call, wire>>

append ==
    \/ WriteStep /\ UNCHANGED <<entries, call, wire>>
    \/ appendReturns

Fairness ==
    /\ WF_outboxVars(append)
    /\ WF_outboxVars(recover)
    /\ SF_outboxVars(repair)
    /\ WF_outboxVars(dispatchReturns \/ dispatchFails)
    /\ \A a \in Actions : /\ SF_outboxVars(reconcileUncertain(a))
                          /\ WF_outboxVars(complete(a))

FairSpec == OutboxSpec /\ Fairness

-----------------------------------------------------------------------------
(* Properties.                                                             *)

\* What the journal on disk says, whoever reads it next.
Durable == Replay(disk.frames)

\* Every variable holds a value of its declared shape; in particular neither
\* the file nor the disk ever holds a frame that does not decode.
OutboxTypeOK ==
    /\ StoreTypeOK
    /\ entries \in [Actions -> [phase : {"none", "fenced", "pending",
                                         "succeeded", "failed"},
                                fence : Nat, accepted : Nat,
                                applied : Nat]]
    /\ call \in [op : {"dispatch"}, action : Actions, attempt : Nat]
                   \union {NoCall}
    /\ wire \subseteq [op : {"dispatch", "status"}, action : Actions,
                       attempt : Nat]

\* The states a caller can read are those of the durable journal: whatever
\* faults came before, states() never shows a transition that a power loss
\* could still take back, nor misses one that recovery would find.
ViewIsDurable ==
    /\ Readable => log = disk.frames /\ states = Replay(disk.frames)
    /\ store = "ready" => file = disk

\* A record whose append returned a receipt, or that a later open has shown
\* to a caller, is in the durable journal for ever.
ReceiptsKept ==
    /\ Len(receipted) <= Len(disk.frames)
    /\ receipted = SubSeq(disk.frames, 1, Len(receipted))

\* Recovery never meets a journal it must refuse: after any sequence of
\* faults the complete frames decode and follow the action life cycle, so
\* the store can be opened or repaired.
Reopens == Recoverable(file.frames) /\ Recoverable(disk.frames)

\* No adapter callback is made until its exact intent is durable: every
\* request that ever left, and every attempt the authority has accepted or
\* fenced, has its dispatch intent in the durable journal.
IntentFirst ==
    LET Intended(a, g) == RecordOf("dispatch_intent", a, g)
                            \in {disk.frames[n] : n \in 1 .. Len(disk.frames)}
    IN  /\ \A m \in wire \union ({call} \ {NoCall}) :
             Intended(m.action, m.attempt)
        /\ \A a \in Actions :
             /\ entries[a].accepted # 0 => Intended(a, entries[a].accepted)
             /\ entries[a].fence # 0 => Intended(a, entries[a].fence)

\* An action goes back to ready only when the attempt before can no longer
\* take effect: the authority has fenced it and performed nothing, although
\* its dispatch may still be on the wire.
RetryOnlyFenced ==
    \A a \in Actions :
        Durable[a].phase = "ready" /\ Durable[a].attempt # 0 =>
            /\ entries[a].phase = "fenced"
            /\ entries[a].fence = Durable[a].attempt
            /\ entries[a].applied = 0

\* The journal always has a free record for every uncertain action, and one
\* more for the observation of the callback in flight, so an action cannot be
\* stuck uncertain because the journal is full.  Callers must not enqueue
\* into the reserve.
ReserveHeld ==
    store = "ready" =>
        Cardinality(Uncertain(states)) + (IF call = NoCall THEN 0 ELSE 1)
            <= MaxRecords - Len(log)

\* The outbox implements the abstract ledger of effects: at most one effect
\* per idempotency key, compensations only after a recorded success, and a
\* terminal record that agrees with what the authority did.
Effects == INSTANCE EffectLedger WITH
    outcome <- [a \in Actions |->
                  IF entries[a].phase \in {"succeeded", "failed"}
                  THEN entries[a].phase ELSE "none"],
    recorded <- [a \in Actions |->
                  IF Durable[a].phase \in {"succeeded", "failed"}
                  THEN Durable[a].phase ELSE "open"]

ImplementsEffects == Effects!Spec

\* Every uncertain action is eventually settled or released for retry.
Settles ==
    \A a \in Actions : Durable[a].phase = "uncertain"
                         ~> Durable[a].phase # "uncertain"
=============================================================================
