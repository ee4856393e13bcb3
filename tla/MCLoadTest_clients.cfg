SPECIFICATION FairSpec
CONSTANTS
    Ccu = 2  Total = 5  Trials = 2
    Targets = {600, 900, 1000, 8000}
    Samples <- TwoSamples
    Tokenizers <- TwoTokenizers
    MaxLines = 1
INVARIANTS TypeOK InFlightBounded CleanExit GrowingContexts PromptsOnTarget
PROPERTIES RunEnds
CHECK_DEADLOCK FALSE
