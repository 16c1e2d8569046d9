SPECIFICATION Spec
CONSTANTS
    Movers = {"scheduler", "engine", "buses", "barrier", "semaphore", "channel"}
    every = every
    twice = twice
    once = once
    w1 = w1
    w2 = w2
    term = term
    None = None
    NoSignal = NoSignal
    Timers = {every, twice, once}
    Askable = {{every, once}, {twice}, {w1, w2}}
    Watchers = {w1, w2}
    Reentrant = {}
    Period <- MCPeriod
    Delay <- MCDelay
    Count <- MCCount
    SignalOf <- MCSignal
    Unsupported = {}
    MaxFired = 3
    PipeRoom = 1
    Work = {"w1", "w2"}
    Services = {"s1", "s2", "s3"}
    Stamped = {"s1", "s2"}
    MaxStamps = 3
    StampWidth = 3
    AskedIds = {0, 1, 3}
    MaxBuses = 3
    p1 = p1
    p2 = p2
    p3 = p3
    p4 = p4
    Parties = {p1, p2, p3, p4}
    Patient = {p1}
    MaxPhases = 3
    u1 = u1
    u2 = u2
    u3 = u3
    u4 = u4
    Users = {u1, u2, u3, u4}
    Unhurried = {u1, u2}
    InitialCount = 1
    MaxReleases = 3
    s1 = s1
    s2 = s2
    r1 = r1
    r2 = r2
    Senders = {s1, s2}
    Receivers = {r1, r2}
    Hasty = {s2, r2}
    Capacity = 1
    MaxMessages = 4
INVARIANTS
    QuietMeansQuiet
    EngineIsSound
    PendingIsExact
    PhasesStayTogether
    NoPermitUnannounced
    NoWakeupLost
PROPERTIES
    WaitsEnd
    CloseIsFinal
\* With every event cancelled and no signal both threads wait for ever; every
\* party may have dropped out, every permit be taken, every message read.
CHECK_DEADLOCK FALSE
