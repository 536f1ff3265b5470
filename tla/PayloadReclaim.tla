--------------------------- MODULE PayloadReclaim ---------------------------
(***************************************************************************)
(* What the durable payload file promises: a store of payloads that        *)
(* shrinks by whole plans, each published before it is carried out and     *)
(* carried out in one step, whatever dies in between.                      *)
(***************************************************************************)
CONSTANTS Initial,         \* the payloads the store is created with
          Plans            \* reclaim records: [before, targets]

VARIABLES payloads,        \* what a reader of the store finds, or NoStore
          published        \* the plans that are on record

NoStore == [found |-> FALSE]
Store(s) == [found |-> TRUE, payloads |-> s]

reclaimVars == <<payloads, published>>

ReclaimInit == payloads = NoStore /\ published = {}

Create == /\ payloads = NoStore
          /\ payloads' = Store(Initial)
          /\ UNCHANGED published

Publish(p) == /\ published' = published \union {p}
              /\ UNCHANGED payloads

Reclaim(p) == /\ p \in published
              /\ payloads = Store(p.before)
              /\ payloads' = Store(p.before \ p.targets)
              /\ UNCHANGED published

ReclaimSpec ==
    ReclaimInit
    /\ [][Create \/ \E p \in Plans : Publish(p) \/ Reclaim(p)]_reclaimVars
=============================================================================
