SPECIFICATION OutboxSpec
CONSTANTS
    pay = pay
    refund = refund
    again = again
    NoAction = NoAction
    Actions = {pay, refund, again}
    KeyOf <- MCKeyOf
    ParentOf <- MCParentOf
    MaxActions = 2
    MaxRecords = 9
    MaxFaults = 2
    EntryCapacity = 2
    KeepReserve = FALSE
INVARIANTS OutboxTypeOK ViewIsDurable ReceiptsKept Reopens IntentFirst RetryOnlyFenced
PROPERTIES ImplementsEffects
CHECK_DEADLOCK FALSE
