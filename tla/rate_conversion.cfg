SPECIFICATION Spec
CONSTANTS
    MaxU64 = 15
    PpmScale = 4
    Tasks = {1, 2}
    Leases <- RateLeases
    Usages <- RateUsages
    Actuals <- NoActuals
    Clock <- MCClock
    MaxEvents = 3
VIEW StateView
CHECK_DEADLOCK FALSE
INVARIANTS
    RateIsConverted
