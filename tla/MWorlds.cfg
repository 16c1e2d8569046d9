SPECIFICATION Spec
CONSTANTS
    Worlds = {"graph", "entities", "topology", "orchestrator", "flow", "signals", "payload", "database"}
    MaxNodes = 3
    MaxEdges = 3
    MaxVersion = 6
    EcsCallers = {c1, c2}
    EcsReaders = {c2}
    Kinds = {"mesh"}
    MaxDepth = 1
    FlowCallers = {c1, c2}
    Codes = {"ok", "bad"}
    RouteModes = {"first", "all"}
    MaxTasks = 2
    FlowTasks = {t1, t2}
    NoTask = NoTask
    ResultCodes = {"ok", "bad"}
    MaxRoutes = 1
    SignalEdges = {"e1", "e2"}
    Direct = {"e1"}
    Signals = {"s1", "s2", "s3"}
    Targeted = {"s2"}
    TypeOf <- MCSignalTypes
    MaxId = 5
    ReservedEnd = 2
    Owners = {"core", "app", "mod"}
    EngineOwner = "core"
    EngineRanges <- MCEngineRanges
    MaxRanges = 4
    Flows <- DatabaseFlows
    EarlyFlows = {}
    ExitCode <- DatabaseExits
    Wants <- DatabaseWants
INVARIANTS
    GraphIsRight
    EntityTableIsExact
    WorldsAreSound
    DatabaseIsSound
CHECK_DEADLOCK FALSE
