SPECIFICATION DebugSpec
CONSTANTS
    Plans <- MCPlans
    Impatient = TRUE
    CodeSize = 3
    SliceLimit = 2
    Outcomes = {"watch", "segmentation"}
    RamBytes = {0, 1}
    MmioBytes = {2}
    TopAddress = 3
    MaxRequest = 2
    MaxPackets = 3
    MaxCorrupted = 1
    MaxPrints = 1
    MaxVisits = 1
    MaxSessions = 1
    Bytes8 = {"i", "q", "CR", "LF", "BS", "^C", "IAC", "DO", "DONT", "WILL", "ECHO"}
    LineLimit = 2
    MaxInput = 4
    MaxChunk = 2
    Words = {0, 1, 2}
    StatusWords <- MCStatusWords
    RegisterBudget = 2
    Radix = 4
    Dollar = 4
    Hash = 3
    Brace = 13
    Plus = 10
    Minus = 11
    EscapeBit = 2
    MaxDigits = 4
    PacketLimit = 5
    Payloads <- MCPayloads
    Noise <- MCNoise
    Numbers = {0, 1, 5, 16, 37, 255}
    Scripts <- MCScripts
    PlayedScripts <- MCPlayedScripts
    Declared = {"bus", "board"}
    NsPerMs = 2
    MaxNs = 7
    MaxRepeat = 3
    LargestId = 3
    LargestStandardId = 1
    ClassicLength = 2
    FdLengths = {0, 1, 2, 4}
    TraceLanes = {0, 1}
    RunLength = 4
    WindowNs = 3
    RecordTypes = {"gpio_output", "can_tx", "adc"}
    MaxRecorded = 2
    Clients <- MCClients
    HeaderSize = 2
    MaxPayload = 3
    ReadLimit = 3
    BufferLimit = 8
    SliceNs = 2
    InvocationNs = 5
    MaxElapsed = 8
INVARIANTS
    DebuggerCorrect
    
PROPERTIES
    RequestsAnswered
CHECK_DEADLOCK FALSE
