SPECIFICATION WorldSpec
CONSTANTS
    WindowBoards = {0, 1}
    WindowOptions <- MCWindowOptions
    WindowLength = 1
    Overshoot = 1
    BusDelay = 1
    WindowDeadline = 2
    MaxCommands = 3
    Lanes = {0, 1}
    Programs <- MCPrograms
    RunOptions <- MCRunOptions
    EventDelay = 2
    MaxPrefix = 4
    MaxClock = 14
    BurstLanes = {0, 1}
    Forecasts <- MCForecasts
    PureCounts = {1, 3, 4}
    BurstHz = 2
    BurstRemaining <- MCBurstRemaining
    MaxRounds = 2
    LaneOwners = {0, 1}
    Partition = 100
    Delays = {0, 1}
    MaxLive = 3
    MaxBorn = 3
    MaxTime = 2
    DomainBudget = 6
    Firmware <- MCFirmware
    RunModes = {"single", "block", "native"}
    Ns = 4
    Clocks <- MCClocks
    WaitStates = 2
    MaxStall = 2
    TickPeriods = {0, 5, 9}
    EventTimes = {{}, {4}, {7, 8}}
    Deadlines = {0, 9, 20}
    InsnLimits = {5, 14}
    CycleCap = 12
INVARIANTS
    WindowsCorrect
    ExactCorrect
    BurstCorrect
    DomainsCorrect
    BoardCorrect
PROPERTIES
    RunsEnd
CHECK_DEADLOCK FALSE
