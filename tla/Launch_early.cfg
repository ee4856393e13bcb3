SPECIFICATION Spec
CONSTANTS
    NumLaunches = 2  MaxKills = 0
    Early = TRUE
INVARIANTS MeasuresOwn
CHECK_DEADLOCK FALSE
