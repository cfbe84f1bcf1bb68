SPECIFICATION Spec
CONSTANTS
    Count = 2
    WorkerCount = 2
    MaxWindows = 2
INVARIANTS
    ExactlyOnce
    CallSettled
PROPERTIES
    CallsEnd
CHECK_DEADLOCK FALSE
