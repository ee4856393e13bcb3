SPECIFICATION Spec
CONSTANTS
    Suites <- EachAndShared
    MaxForeign = 1
    MaxFaults = 1
INVARIANTS OkMeansPatched RerunsWriteNothing
