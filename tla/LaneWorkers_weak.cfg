SPECIFICATION WeakSpec
CONSTANTS
    Count = 2
    WorkerCount = 1
    MaxWindows = 2
INVARIANTS
    NoMissedWakeup
CHECK_DEADLOCK FALSE
