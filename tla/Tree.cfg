SPECIFICATION TreeSpec
CONSTANTS
    Classes = {"kv", "queue_slots"}
    HostClasses = {"kv"}
    Limit <- MCLimit
    HostLimit = 4
    SlotCount = 1
    RequestClaims <- MCRequestClaims
    RequestEpochs = {1}
    SessionIds = {1}
    MaxGeneration = 2
    MaxChildGeneration = 1
    MaxPermitGeneration = 2
    MaxSequence = 2
    NodeCount = 3
    PinSlotCount = 2
    QueueClass = "queue_slots"
    Keys = {k1, k2}
    FundingModes = {"additive", "funded"}
    Ceilings <- MCCeilings
    LeafClaims <- MCLeafClaims
    RestorePoints <- MCRestorePoints
    MaxBatch = 2
    MaxLeaseGeneration = 22
    MaxRevision = 9
INVARIANTS TreeTypeOK TreeHandlesExact TreeAccounting NothingStranded AcceptedFinishes
PROPERTIES TreeImplementsLedger PinnedStaysLive LeafLifecycle
CONSTRAINT OneFunding
CHECK_DEADLOCK FALSE
SYMMETRY KeySymmetry
