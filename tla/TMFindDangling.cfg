SPECIFICATION Spec
CONSTANTS
    PoolWorkers = {w1}
    Owners = {o1}
    Tasks = {t1, t2}
    Affinities = {"named"}
    MayUnregister = TRUE
    MayShutDown = FALSE
    MayCancel = FALSE
    MaxNamed = 1
    MaxDedicated = 1
    GenModulus = 8
    MaxRegistrations = 1
    w1 = w1
    o1 = o1
    t1 = t1
    t2 = t2
INVARIANTS
    NoPushAfterDestruction
\* An idle manager, with nothing submitted, may stay idle for ever.
CHECK_DEADLOCK FALSE
