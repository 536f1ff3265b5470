---------------------------- MODULE ClaimVectors ----------------------------
(***************************************************************************)
(* Multi-class resource claims (Claim in core/resource_bank.zig): a vector *)
(* with one component for each resource class.  Every operation works      *)
(* class by class.                                                         *)
(***************************************************************************)
EXTENDS Integers

CONSTANT Classes         \* the fields of Claim, ten of them in the code

Claim == [Classes -> Nat]

ZeroClaim == [k \in Classes |-> 0]

addClaims(a, b) == [k \in Classes |-> a[k] + b[k]]

subtractClaims(a, b) == [k \in Classes |-> a[k] - b[k]]

claimWithin(a, ceiling) == \A k \in Classes : a[k] <= ceiling[k]
=============================================================================
