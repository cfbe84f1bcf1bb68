SPECIFICATION PreemptedSpec
CONSTANTS
    Irqs = {16, 17}
    Levels = {0, 1, 2, 3}
    Sources = {p1}
    Masks <- NoMasks
    PriorityMaps <- Interrupts
    FpValues = {1}
    Stale = Stale
    FpModes <- Lazy
    HandlersUseFp = FALSE
    MaxFrames = 3
INVARIANTS
    ThreadFpKept
CHECK_DEADLOCK FALSE
