SPECIFICATION ClientSpec
CONSTANTS
    Owners = {o1}
    Shared = shared
    Handles = {}
    NoHandle = none
    MaxTime = 2
    ClientTime = 1
    LoopClients = {"scheduler"}
    StoppedLanes = {{o1}}
    MaxId = 1
    SameTimeLimits = {1}
    Localities = {FALSE}
    MaxDepth = 3
    MaxScopes = 1
PROPERTIES
    SharedClockMonotone
CHECK_DEADLOCK FALSE
