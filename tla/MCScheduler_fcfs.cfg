SPECIFICATION FairSpec
CONSTANTS
    Requests = {1, 2, 3, 4}
    Prompt <- FourPrompts
    MaxTokens <- ThreeEach
    Priority <- Falling
    Policy = "fcfs"
    BlockSize = 2
    NumBlocks = 4
    MaxModelLen = 8
    MaxScheduled = 4
    MaxRunning = 3
    Threshold = 3
    Chunked = TRUE
    Align = TRUE
    Eagle = FALSE
    NumSpec = 0
    ReserveFull = FALSE
    Depth = 2
    LocalHits = {0, 1, 2}
    ExternalHits = {}
    AsyncLoads = {}
    WholeHits = FALSE
    MaxFaults = 0
INVARIANTS StatesAligned InArrivalOrder OldestServed
PROPERTIES OldestKept EveryRequestFinishes
CHECK_DEADLOCK FALSE
