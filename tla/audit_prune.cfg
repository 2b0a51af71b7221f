SPECIFICATION FairSpec
CONSTANTS
    Data = {d1}
    None = None
    MaxSegments = 2
    MaxRuns = 2
    MaxOutside = 2
    MaxFaults = 1
INVARIANTS
    KeysAccounted
    
PROPERTIES
    PreservedKept
    DeletedAsWitnessed
    
CHECK_DEADLOCK FALSE
