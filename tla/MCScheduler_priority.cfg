SPECIFICATION Spec
CONSTANTS
    Requests = {1, 2, 3}
    Prompt <- ThreePrompts
    MaxTokens <- ThreeEach
    Priority <- Falling
    Policy = "priority"
    BlockSize = 2
    NumBlocks = 5
    MaxModelLen = 8
    MaxScheduled = 5
    MaxRunning = 3
    Threshold = 4
    Chunked = TRUE
    Align = FALSE
    Eagle = FALSE
    NumSpec = 2
    ReserveFull = FALSE
    Depth = 1
    LocalHits = {0, 1}
    ExternalHits = {1, 2}
    AsyncLoads = {TRUE, FALSE}
    WholeHits = TRUE
    MaxFaults = 2
INVARIANTS TypeOK OneQueueEach BlocksHeld Assertions
CHECK_DEADLOCK FALSE
