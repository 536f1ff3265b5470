SPECIFICATION DecaySpec
CONSTANTS
    a = a
    b = b
    NoObject = NoObject
    Objects = {a, b}
    Bytes <- MCBytes
    Capacity = 2
    MaxEntries = 2
    MaxPayload = 3
    MaxReferences = 3
    Allowed <- AllOperations
    MaxLeases = 1
    MaxSpan = 2
    MaxTick = 2
    MaxGeneration = 2
    MaxRepairs = 1
    Owners = {}
    Bundles <- OwnBundles
INVARIANT
    ReferencesHeld
CHECK_DEADLOCK FALSE
