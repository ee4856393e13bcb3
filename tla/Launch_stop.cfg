SPECIFICATION FairSpec
CONSTANTS
    NumLaunches = 3  MaxKills = 2
    Early = FALSE
INVARIANTS OneEngine MeasuresOwn
PROPERTIES CleansUp
CHECK_DEADLOCK FALSE
