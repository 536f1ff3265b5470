--------------------------- MODULE MCObjectStore ---------------------------
(***************************************************************************)
(* The object store alone: references, imports, leases and repairs, for    *)
(* TLC, with the properties its callers rely on.                           *)
(***************************************************************************)
EXTENDS ObjectStore, TLC

CONSTANTS a, b

MCBytes == a :> 1 @@ b :> 2
MCBundles == {<<a, b, a>>}
OwnBundles == {<<a, a>>}
AllOperations == {"put", "get", "release", "quarantine", "verify"}

DecaySpec == StoreInit /\ [][StoreNext \/ decay]_storeVars
=============================================================================
