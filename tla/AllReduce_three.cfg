SPECIFICATION FairSpec
CONSTANTS
    World = 3  NumSizes = 2
    MaxFaults = 1  MaxInterrupts = 2
INVARIANTS OneGroupAtATime NoneSurvive RankedByRankZero NoneTimesOut
PROPERTIES InLockstep NoneStays
CHECK_DEADLOCK FALSE
