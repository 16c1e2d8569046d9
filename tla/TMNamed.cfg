SPECIFICATION Spec
CONSTANTS
    PoolWorkers = {w1}
    Owners = {o1, o2}
    Tasks = {t1, t2}
    Affinities = {"named"}
    MayUnregister = TRUE
    MayShutDown = TRUE
    MayCancel = FALSE
    MaxNamed = 2
    MaxDedicated = 1
    GenModulus = 8
    MaxRegistrations = 2
    w1 = w1
    o1 = o1
    o2 = o2
    t1 = t1
    t2 = t2
SYMMETRY Symmetry
INVARIANTS
    LiveSlotsAreOwned
    LiveCountExact
    OneHolderPerThread
PROPERTIES
    StaleIdsStayStale
\* An idle manager, with nothing submitted, may stay idle for ever.
CHECK_DEADLOCK FALSE
