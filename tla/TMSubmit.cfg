SPECIFICATION Spec
CONSTANTS
    PoolWorkers = {w1}
    Owners = {}
    Tasks = {t1, t2, t3}
    Affinities = {"pool", "main", "post", "dedicated", "invalid"}
    MayUnregister = FALSE
    MayShutDown = TRUE
    MayCancel = TRUE
    MaxNamed = 1
    MaxDedicated = 1
    GenModulus = 8
    MaxRegistrations = 0
    w1 = w1
    t1 = t1
    t2 = t2
    t3 = t3
SYMMETRY Symmetry
INVARIANTS
    TypeOK
    OutcomeMatchesExecution
    DedicatedCapBoundsThreads
    ShutdownSettlesPool
    LaneIsFifo
PROPERTIES
    KeepsLifecycle
\* An idle manager, with nothing submitted, may stay idle for ever.
CHECK_DEADLOCK FALSE
