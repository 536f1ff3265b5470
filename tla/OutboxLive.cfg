SPECIFICATION FairSpec
CONSTANTS
    pay = pay
    refund = refund
    again = again
    NoAction = NoAction
    Actions = {pay, refund}
    KeyOf <- MCDistinctKeys
    ParentOf <- MCNoParents
    MaxActions = 2
    MaxRecords = 7
    MaxFaults = 1
    EntryCapacity = 2
    KeepReserve = TRUE
INVARIANTS ReserveHeld
PROPERTIES Settles
CHECK_DEADLOCK FALSE
