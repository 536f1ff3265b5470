---------------------------- MODULE ChargeLedger ----------------------------
(***************************************************************************)
(* What the ResourceBank promises its clients, and nothing about how it    *)
(* keeps the promise: a set of holders, each of them charged one claim,    *)
(* and a running total.  One step changes the charge of one holder and     *)
(* moves the total by exactly the difference.  A charge that grows must    *)
(* leave the total within the limits; one that only shrinks needs no room. *)
(*                                                                         *)
(* In core/resource_bank.zig a holder is a receipt slot, the allocator     *)
(* child of a receipt slot, or the additive lease tree of a receipt slot,  *)
(* and the total is Bank.used.                                             *)
(***************************************************************************)
EXTENDS ClaimVectors

CONSTANTS Holders,       \* who can be charged
          Fits(_)        \* the totals that the limits admit

VARIABLES charge, total

ledgerVars == <<charge, total>>

Init == /\ charge = [h \in Holders |-> ZeroClaim]
        /\ total = ZeroClaim

\* The new charge is read from charge' so that a checker can evaluate the
\* action on a given step although the set of claims is infinite.
Adjust(h) ==
    /\ charge' = [charge EXCEPT ![h] = charge'[h]]
    /\ charge'[h] \in Claim
    /\ total' = addClaims(subtractClaims(total, charge[h]), charge'[h])
    /\ Fits(total') \/ claimWithin(charge'[h], charge[h])

Next == \E h \in Holders : Adjust(h)

Spec == Init /\ [][Next]_ledgerVars
=============================================================================
