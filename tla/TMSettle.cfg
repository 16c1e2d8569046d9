SPECIFICATION FairSpec
CONSTANTS
    PoolWorkers = {w1}
    Owners = {o1}
    Tasks = {t1, t2}
    Affinities = {"main", "post", "pool", "dedicated", "named"}
    MayUnregister = FALSE
    MayShutDown = TRUE
    MayCancel = TRUE
    MaxNamed = 1
    MaxDedicated = 1
    GenModulus = 8
    MaxRegistrations = 1
    w1 = w1
    o1 = o1
    t1 = t1
    t2 = t2
PROPERTIES
    ServedHandlesSettle
    ShutdownReturns
\* An idle manager, with nothing submitted, may stay idle for ever.
CHECK_DEADLOCK FALSE
