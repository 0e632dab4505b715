SPECIFICATION Spec
CONSTANTS
    MaxU64 = 15
    PpmScale = 4
    Tasks = {1, 2}
    Leases <- AllLeases
    Usages <- StandardUsages
    Actuals <- StandardActuals
    Clock <- MCClock
    MaxEvents = 3
VIEW StateView
CHECK_DEADLOCK FALSE
INVARIANTS
    LedgerBalances
    CreditEnvelope
    RateEnvelope
    OnceByTask
    DenialsCounted
    FeedbackOnce
    UnderuseReported
    RemainingIsUsable
PROPERTIES
    RetriesAreFree
    FailedCallsMoveNothing
