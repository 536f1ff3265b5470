--------------------------- MODULE MCActionOutbox ---------------------------
(* Small instances of ActionOutbox for TLC.                                *)
EXTENDS ActionOutbox, TLC

CONSTANTS pay, refund, again

\* refund compensates pay; again reuses the idempotency key of pay.
MCKeyOf == [a \in Actions |-> IF a = refund THEN 2 ELSE 1]
MCParentOf == [a \in Actions |-> IF a = refund THEN pay ELSE NoAction]

\* Two unrelated actions.
MCDistinctKeys == [a \in Actions |-> IF a = pay THEN 1 ELSE 2]
MCNoParents == [a \in Actions |-> NoAction]
=============================================================================
