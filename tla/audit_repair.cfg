SPECIFICATION RepairSpec
CONSTANTS
    Writer = {w1, oa}
    Operator = oa
    RepairKey = rk
    Keyed = {k1, rk}
    Plain = {p1, p2}
    None = None
    SegmentLines = 2
    MaxCalls = 4
    MaxFaults = 2
SYMMETRY RepairSymmetry
INVARIANTS
    KeyLoggedOnce
    EvidenceConsistent
    EvidenceKept
    HealthyHidesNothing
PROPERTIES
    RetiredProven
CHECK_DEADLOCK FALSE
