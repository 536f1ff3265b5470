--------------------------- MODULE TextDelivered ---------------------------
(***************************************************************************)
(* What acknowledged delivery promises its user: results are delivered in  *)
(* order and once, each is acknowledged before the next one is delivered,  *)
(* and all of them are, in the end.                                        *)
(***************************************************************************)
EXTENDS Naturals, Sequences

CONSTANT Results           \* how many results there are to deliver

VARIABLES delivered,       \* the sequence numbers of the delivered results
          acknowledged     \* how many of them the checkpoint has taken

deliveredVars == <<delivered, acknowledged>>

Deliver ==
    /\ Len(delivered) = acknowledged
    /\ acknowledged < Results
    /\ delivered' = Append(delivered, acknowledged + 1)
    /\ UNCHANGED acknowledged

Acknowledge ==
    /\ Len(delivered) = acknowledged + 1
    /\ acknowledged' = Len(delivered)
    /\ UNCHANGED delivered

DeliveredInit == delivered = <<>> /\ acknowledged = 0
DeliveredNext == Deliver \/ Acknowledge

\* In order, once, and one at a time.
DeliveredSafely == DeliveredInit /\ [][DeliveredNext]_deliveredVars

DeliveredSpec == DeliveredSafely /\ WF_deliveredVars(DeliveredNext)
=============================================================================
