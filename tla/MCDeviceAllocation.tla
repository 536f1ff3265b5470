------------------------- MODULE MCDeviceAllocation -------------------------
(* Small instances of DeviceAllocation for TLC.                            *)
EXTENDS DeviceAllocation, TLC

\* Coordinators are only compared with each other.
CoordinatorSymmetry == Permutations(Coordinators)

Device(n) == [ZeroClaim EXCEPT ![DeviceClass] = n]
Queue == [ZeroClaim EXCEPT !["queue_slots"] = 1]

MCLimit == [k \in Classes |-> IF k = DeviceClass THEN 6 ELSE 2]
MCRequestClaims == {Queue, Device(3)}
MCManifests == {<<1, 2>>}
=============================================================================
