SPECIFICATION Spec
CONSTANTS
    Classes = {"kv", "staging"}
    HostClasses = {"kv", "staging"}
    Limit <- MCLimit
    HostLimit = 3
    SlotCount = 2
    RequestClaims <- MCRequestClaims
    RequestEpochs = {1}
    SessionIds = {1}
    MaxGeneration = 3
    MaxChildGeneration = 3
    MaxPermitGeneration = 2
    MaxSequence = 2
INVARIANTS TypeOK ConsumedOnce HandlesExact AuthorityHeld HandlesTraceable Conserved PublishedOnce
PROPERTIES ImplementsLedger FrozenUnderPermit
CHECK_DEADLOCK FALSE
