SPECIFICATION Spec
CONSTANTS
    d1 = d1
    s1 = s1
    s2 = s2
    Devices = {d1}
    Scopes = {s1, s2}
    MaxU64 = 7
    PpmScale = 4
    MaxId = 3
    MaxTime = 4
    MaxVersion = 20
    Profiles <- StandardProfiles
    PolicyInstances <- StandardPolicies
    Requests <- StandardRequests
    Snapshots <- StandardSnapshots
    Estimators <- StandardEstimators
    Baselines <- StandardBaselines
    SweepArgs <- OnceLapsed
    RenewArgs <- None
    ClockSteps <- OnlyNow
    Any = Any
    Filters <- None
    PluginAnswers <- None
VIEW StateView
CHECK_DEADLOCK FALSE
INVARIANTS
    NoCreditOversell
    NoRateOversell
    PinnedConfiguration
PROPERTIES
    GrantsFit
    ScopeCapRespected
    ImplementsCreditPool
