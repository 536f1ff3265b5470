SPECIFICATION DeviceSpec
CONSTANTS
    Classes = {"device_bytes", "queue_slots"}
    HostClasses = {"queue_slots"}
    Limit <- MCLimit
    HostLimit = 2
    SlotCount = 2
    RequestClaims <- MCRequestClaims
    RequestEpochs = {1}
    SessionIds = {1}
    MaxGeneration = 3
    MaxChildGeneration = 3
    MaxPermitGeneration = 0
    MaxSequence = 0
    Coordinators = {c1, c2}
    NoCoordinator = c0
    Adapters = {1}
    LeaseSlotCount = 1
    ObjectCount = 2
    DeviceClass = "device_bytes"
    Manifests <- MCManifests
    MaximumLiveObjects = 2
    MaximumDeviceBytes = 3
    MaxAllocationGeneration = 3
    MaxObjectGeneration = 4
    MaxRecoveryGeneration = 1
INVARIANTS DeviceTypeOK ObjectsAccounted BytesCovered TicketsExact
CHECK_DEADLOCK FALSE
SYMMETRY CoordinatorSymmetry
