SPECIFICATION PartSpec
CONSTANTS
    Irqs = {16, 17}
    Levels = {0, 1, 2, 3}
    Sources = {p1, p2}
    Masks <- SomeMasks
    PriorityMaps <- AllMaps
    FpValues = {1, 2}
    Stale = Stale
    FpModes <- AllFpModes
    HandlersUseFp = TRUE
    MaxFrames = 3
INVARIANTS
    ActiveAgrees
    LevelsRepend
    BoundarySettled
    HandlersTransparent
CHECK_DEADLOCK FALSE
