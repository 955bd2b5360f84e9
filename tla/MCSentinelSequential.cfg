SPECIFICATION Spec
CONSTANTS
    Run = {r1, r2, r3}
    None = None
    Kinds <- SequentialKinds
    Faults = {"lock", "clear"}
    Concurrent = FALSE
CHECK_DEADLOCK FALSE
SYMMETRY RunSymmetry
INVARIANTS TornIsRecorded
PROPERTIES KeepsPromise
