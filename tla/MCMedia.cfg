SPECIFICATION MediaSpec
CONSTANTS
    Session = {s1, s2}
    MaxEnds = 1
    Recording = {"a", "b", "c"}
    SizeOf <- Sizes
    MaxBytes = 3
    MaxEntries = 2
    MaxPending = 2
    MaxCaptures = 2
    MaxDecisions = 2
    MaxCalls = 3
INVARIANTS
    CacheConsistent
    CapturesTrue
PROPERTIES
    CameraKept
    RemovalHolds
    ViewersHold
    CapturesReturn
CHECK_DEADLOCK FALSE
