SPECIFICATION DeviceSpec
CONSTANTS
    Loads = {0, 1, 2, 4}
    CycleModulus = 4
    MaxSlice = 8
    Lines = {5, 6}
    Ports = {0, 1}
    Pads <- MCPads
    Modes = {0, 1}
    BlockWords = 3
    Patterns <- MCPatterns
    AccessWidths = {1, 2, 4, 8}
    Devices = {"tim1", "tim16"}
    IrqOfLine <- MCIrqOfLine
    Channels = {1, 2}
    AddressSpan = 32
    CountSpan = 4
    Readable = {0, 2, 4, 5, 6, 7, 8, 9, 10, 11, 20, 22}
    Writable = {2, 4, 5, 6, 7, 8, 9, 10, 11, 21, 22}
    Controls <- MCControls
    Counts = {0, 1, 2}
    Bases = {0, 8}
    MaxMoves = 5
    Rdr = 20
    Tdr = 21
    SpiDr = 22
    Memory = {8}
    BurstLimit = 5
    MaxSerial = 2
    MaxRoutes = 4
    NsPerSecond = 4
    ClockRates = {2, 3}
    Prescalers = {0, 1}
    Reloads = {0, 1, 3}
    ArrReset = 4
    Timeouts = {1, 3}
    TimeoutReset = 3
    Msi = 4
    Hsi = 16
    Hse = 8
    HsePresent = TRUE
    PllConfigs <- MCPllConfigs
    CommonControls <- MCCommonControls
    Hpre = {1, 2}
    Pages = {0, 1}
    FlashPages = {0}
    AcrImages = {1, 4}
    MaxGeneration = 3
    CrcWidth = 4
    CrcByte = 2
    CrcInits = {0, 9}
    Polynomials = {3, 9}
    MaxFed = 5
    Budget <- MCBudgetOf
    AdcClocks = {0, 1, 2}
    Decimations = {1, 3}
    MaxElapsed = 14
    SerialBudget = 5
    ClockBudget = 3
    AdcBudget = 3
    BlockBudget = 2
    DmaBudget = 4
    Frames <- FourFrames
    IdBits = 2
    Setups <- BothSetups
    TxSlots = 3
    RxSlots = 3
    SendAnswers = {"queued", "refused", "delivered", "looped"}
    CccrValues <- RunOrSleep
    IeValues <- SomeIe
    IlsValues <- SomeIls
    IleValues <- SomeIle
    TxbtieValues <- SomeTxbtie
    MaxRequests = 5
    MaxTransmitted = 3
    MaxArrivals = 6
    MaxRestarts = 1
INVARIANTS
    RequestsExact
    FifosExact
    PredictionExact
    TimersExact
    RegistersExact
    DmaCorrect
    RccFlashCrcExact
    AdcSound
PROPERTIES
    CounterContinuous
    RingIsFifo
CHECK_DEADLOCK FALSE
