SPECIFICATION Spec
CONSTANTS
    d1 = d1
    s1 = s1
    s2 = s2
    Devices = {d1}
    Scopes = {s1, s2}
    MaxU64 = 7
    PpmScale = 4
    MaxId = 3
    MaxTime = 4
    MaxVersion = 20
    Profiles <- PluginProfiles
    PolicyInstances <- PluginPolicies
    Requests <- PluginRequests
    Snapshots <- None
    Estimators <- None
    Baselines <- None
    SweepArgs <- PluginSweeps
    RenewArgs <- None
    ClockSteps <- PluginClocks
    Any = Any
    Filters <- None
    PluginAnswers <- AnyAnswer
VIEW StateView
CHECK_DEADLOCK FALSE
INVARIANTS
    ExpiredAreCounted
