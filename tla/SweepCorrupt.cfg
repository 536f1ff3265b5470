SPECIFICATION SweepSpec
CONSTANTS
    a = a
    b = b
    NoObject = NoObject
    Objects = {a, b}
    Bytes <- MCBytes
    Capacity = 2
    MaxEntries = 2
    MaxPayload = 2
    MaxReferences = 1
    Allowed <- SweepOperations
    MaxLeases = 0
    MaxSpan = 0
    MaxTick = 0
    MaxGeneration = 0
    MaxRepairs = 0
    Owners = {}
    Bundles <- NoBundles
    MaxStaged = 1
    MaxBytes = 4
    MaxSequence = 1
    MaxLease = 3
    MaxFaults = 1
INVARIANT CrashEvidenceReopens
CHECK_DEADLOCK FALSE
SYMMETRY Symmetry
