SPECIFICATION Spec
CONSTANTS
    d1 = d1
    s1 = s1
    s2 = s2
    Devices = {d1}
    Scopes = {s1, s2}
    MaxU64 = 7
    PpmScale = 4
    MaxId = 3
    MaxTime = 4
    MaxVersion = 20
    Profiles <- LeaseProfiles
    PolicyInstances <- LeasePolicies
    Requests <- LeaseRequests
    Snapshots <- LeaseSnapshots
    Estimators <- None
    Baselines <- None
    SweepArgs <- LeaseSweeps
    RenewArgs <- LeaseRenewals
    ClockSteps <- LeaseClocks
    Any = Any
    Filters <- LeaseFilters
    PluginAnswers <- AnyAnswer
VIEW StateView
CHECK_DEADLOCK FALSE
INVARIANTS
    TypeOK
    EveryLeaseEnds
    NoCreditOversell
    NoRateOversell
PROPERTIES
    SweepIsExact
    ReservationLifecycle
    FailedCallsChangeNothing
    ImplementsRatePool
    PagesSkipNothing
