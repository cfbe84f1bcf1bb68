SPECIFICATION CallsSpec
CONSTANTS
    Codes <- MCCodes
    Rewritten = {1}
    FirstCodes = {1, 2, 3, 4}
    JitBudget = 9
    JitIndices = 2
    MaxBlock = 4
    MaxTrace = 6
    MinTrace = 2
    CompileAt = 0
    TraceAt = 1
    TraceAttempts = 1
    BlockStreak = 4
    TraceStreak = 2
    FetchWait = 1
    Profitable = {1, 2}
    Limits <- MCLimits
INVARIANTS CutsReplay
CHECK_DEADLOCK FALSE
