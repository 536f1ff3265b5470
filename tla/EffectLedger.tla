---------------------------- MODULE EffectLedger ----------------------------
(***************************************************************************)
(* What the ActionOutbox promises about external effects, without journal, *)
(* attempts, fences or crashes.  An action may be performed once, by one   *)
(* of the actions that share an idempotency key, and a compensation only   *)
(* when its parent is recorded as a success.  What is recorded of an       *)
(* action is what happened, and it never changes again.                    *)
(***************************************************************************)
CONSTANTS Actions, KeyOf, ParentOf, NoAction

VARIABLES outcome,       \* what the authority did for an action
          recorded       \* what the outbox has recorded of it

ledgerVars == <<outcome, recorded>>

Init == /\ outcome = [a \in Actions |-> "none"]
        /\ recorded = [a \in Actions |-> "open"]

Perform(a) ==
    /\ outcome[a] = "none"
    /\ \A b \in Actions : KeyOf[b] = KeyOf[a] => outcome[b] = "none"
    /\ ParentOf[a] # NoAction => recorded[ParentOf[a]] = "succeeded"
    /\ \E o \in {"succeeded", "failed"} :
         outcome' = [outcome EXCEPT ![a] = o]
    /\ UNCHANGED recorded

Note(a) ==
    /\ recorded[a] = "open"
    /\ outcome[a] # "none"
    /\ recorded' = [recorded EXCEPT ![a] = outcome[a]]
    /\ UNCHANGED outcome

Next == \E a \in Actions : Perform(a) \/ Note(a)

Spec == Init /\ [][Next]_ledgerVars
=============================================================================
