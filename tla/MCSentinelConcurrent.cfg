SPECIFICATION FairSpec
CONSTANTS
    Run = {r1, r2}
    None = None
    Kinds <- AttendedKinds
    Faults = {"write", "clear"}
    Concurrent = TRUE
CHECK_DEADLOCK FALSE
INVARIANTS OneInside
PROPERTIES EveryRunEnds
