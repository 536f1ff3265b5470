SPECIFICATION Spec
CONSTANTS
    Classes = {"kv", "staging"}
    HostClasses = {"kv", "staging"}
    Limit <- MCLimit
    HostLimit = 3
    SlotCount = 2
    RequestClaims <- MCRequestClaims
    RequestEpochs = {1}
    SessionIds = {0, 1}
    MaxGeneration = 3
    MaxChildGeneration = 3
    MaxPermitGeneration = 2
    MaxSequence = 2
INVARIANT ClosedIsTerminal
CHECK_DEADLOCK FALSE
