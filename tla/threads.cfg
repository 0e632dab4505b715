SPECIFICATION Spec
CONSTANTS
    t1 = t1
    t2 = t2
    t3 = t3
    Threads = {t1, t2, t3}
    Nobody = Nobody
    ProviderLocks = FALSE
CHECK_DEADLOCK FALSE
INVARIANTS
    PromisedViewsLive
PROPERTIES
    MutexIsReleased
