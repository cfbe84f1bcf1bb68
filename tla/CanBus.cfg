SPECIFICATION BoundedSpec
CONSTANTS
    Frames <- TwoFrames
    LowIds = 1
    Bitrate = 2
    Second = 1
    IntermissionBits = 1
    Modes = {"immediate", "timed"}
    QueueCapacity = 2
    MaxTime = 3
    Ahead = {0, 1}
    MaxNodes = 3
    MaxSends = 3
    MaxCancels = 2
    MaxDepth = 2
INVARIANTS
    BusConsistent
    FramesExact
PROPERTIES
    DetachIsFinal
    EveryFrameSettles
CHECK_DEADLOCK FALSE
