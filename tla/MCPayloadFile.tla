--------------------------- MODULE MCPayloadFile ---------------------------
(***************************************************************************)
(* The payload file for TLC: plans that compete for one snapshot and a     *)
(* plan that follows one of them.                                          *)
(***************************************************************************)
EXTENDS PayloadFile

CONSTANTS a, b, c

MCInitial == {a, b, c}
Plan(before, targets) == [before |-> before, targets |-> targets]
MCPlans == {Plan({a, b, c}, {a}), Plan({a, b, c}, {b, c}),
            Plan({b, c}, {b}), Plan({b, c}, {b, c})}

-----------------------------------------------------------------------------
\* The candidate a process was writing when it died or failed.
TornCandidate(p) ==
    /\ candidate[p] = Torn
    /\ \A w \in Workers : work[w] # At("candidate_write", p)

\* A plan on record is carried out, or another one overtakes it, however
\* many deaths come between, unless one came inside the write of the
\* candidate (the fresh process of docs/CONTINUATION_OBJECT_PAYLOAD_FILE.md).
RecoveryCompletes ==
    \A p \in Plans :
        Recoverable(p) ~> (active_file # Whole(p.before) \/ TornCandidate(p))
=============================================================================
