------------------------------- MODULE Claims -------------------------------
(***************************************************************************)
(* The limits that the ResourceBank enforces on claims                     *)
(* (Limits in core/resource_bank.zig): one per class, and one aggregate    *)
(* for the classes held in host memory.                                    *)
(*                                                                         *)
(* The code computes in u64 and fails closed on overflow.  Every limit is  *)
(* itself a u64, so a sum that overflows also exceeds its limit: with the  *)
(* natural numbers used here Fits rejects exactly the same requests.       *)
(***************************************************************************)
EXTENDS ClaimVectors, FiniteSets, Functions

CONSTANTS HostClasses,   \* the fields that hostBytes adds up
          Limit,         \* the per-class fields of Limits
          HostLimit      \* Limits.host_bytes

ASSUME ClassesAssumption ==
    /\ HostClasses \subseteq Classes /\ IsFiniteSet(HostClasses)
    /\ Limit \in [Classes -> Nat]
    /\ HostLimit \in Nat

hostBytes(c) == SumFunctionOnSet(c, HostClasses)

\* Limits.fitsWithHost: the aggregate and every class are within their limits.
Fits(c) == hostBytes(c) <= HostLimit /\ claimWithin(c, Limit)
=============================================================================
