SPECIFICATION FairSpec
CONSTANTS
    Requests = {1, 2, 3}
    Prompt <- ThreePrompts
    MaxTokens <- ThreeEach
    Priority <- Falling
    Policy = "fcfs"
    BlockSize = 2
    NumBlocks = 10
    MaxModelLen = 8
    MaxScheduled = 4
    MaxRunning = 2
    Threshold = 3
    Chunked = TRUE
    Align = TRUE
    Eagle = TRUE
    NumSpec = 1
    ReserveFull = TRUE
    Depth = 1
    LocalHits = {0, 1, 2}
    ExternalHits = {1, 2}
    AsyncLoads = {TRUE, FALSE}
    WholeHits = FALSE
    MaxFaults = 2
PROPERTY EveryRequestFinishes
CHECK_DEADLOCK FALSE
