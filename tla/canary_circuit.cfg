SPECIFICATION Spec
CONSTANTS
    Alias = {inc, cand}
    Incumbent = inc
    Candidate = cand
    Task = {t1, t2, t3, t4}
    MinAccepted = 1
    DriftWindow = 1
    MaxResets = 1
    MaxFaults = 1
    None = None
SYMMETRY TaskSymmetry
PROPERTIES
    LiveEarned
    
    OpenIsSticky
CHECK_DEADLOCK FALSE
