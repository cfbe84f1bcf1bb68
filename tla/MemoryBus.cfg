SPECIFICATION MemorySpec
CONSTANTS
    Regions <- MCRegions
    FootprintBits <- MCFootprintBits
    Top = 5
    Values = {0, 1}
    Erased = 1
    Widths = {1, 2}
    WordBytes = 2
    Capacity = 2
    MaxCapsule = 2
    MaxSequence = 3
    MaxGenerations = 3
    Codes <- MCCodes
    Rewritten = {1}
    FirstCodes = {1, 2, 3, 4}
    JitBudget = 4
    JitIndices = 2
    MaxBlock = 4
    MaxTrace = 6
    MinTrace = 2
    CompileAt = 0
    TraceAt = 1
    TraceAttempts = 1
    BlockStreak = 2
    TraceStreak = 2
    FetchWait = 1
    Profitable = {1, 2}
    Limits <- MCLimits
INVARIANTS
    JournalExact
    InputsSound
    CodeFresh
    SpansExact
CHECK_DEADLOCK FALSE
