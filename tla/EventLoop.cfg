SPECIFICATION ClientSpec
CONSTANTS
    Owners = {o1}
    Shared = shared
    Handles = {h1}
    NoHandle = none
    MaxTime = 2
    ClientTime = 1
    LoopClients = {"any", "scheduler"}
    StoppedLanes = {{}, {o1}}
    MaxId = 2
    SameTimeLimits = {1}
    Localities = {FALSE, TRUE}
    MaxDepth = 4
    MaxScopes = 1
INVARIANTS
    StoreInvariant
    HandleExact
    LoopConsistent
PROPERTIES
    ImplementsQueue
    ClocksMonotone
    RunsOnTime
CHECK_DEADLOCK FALSE
