SPECIFICATION FileSpec
CONSTANTS
    a = a
    b = b
    c = c
    Initial <- MCInitial
    Plans <- MCPlans
    Workers = {1, 2}
    NoWorker = 0
    MaxDeaths = 3
PROPERTIES
    AtomicReclaim
    RecoveryCompletes
