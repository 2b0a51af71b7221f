SPECIFICATION FairSpec
CONSTANTS
    Control = {c1, c2}
    Watcher = {w1, w2}
    None = None
    MaxAttempt = 2
    MaxFaults = 1
INVARIANTS
    ArchivedTold
    CancelHolds
PROPERTIES
    ControlReaches
CHECK_DEADLOCK FALSE
