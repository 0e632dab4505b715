SPECIFICATION Spec
CONSTANTS
    MaxU64 = 63
    PpmScale = 4
    PluginAnswers = {}
    DeviceProfiles <- MCDevices
    Classes <- MCClasses
    Budgets <- MCBudgets
    Instances <- MCInstances
    MaxClasses = 2
    MaxGrants = 2
CHECK_DEADLOCK FALSE
INVARIANTS
    EstimatesAreExact
    UnitsCoverTheTime
    PromisesFitTheSpan
    GrantsSuffice
