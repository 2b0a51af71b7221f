SPECIFICATION CampaignSpec
CONSTANTS
    inc = inc
    cand = cand
    s1 = s1
    s2 = s2
    o1 = o1
    o2 = o2
    r1 = r1
    r2 = r2
    r3 = r3
    r4 = r4
    p1 = p1
    p2 = p2
    canary = canary
    probe = probe
    Alias = {inc, cand}
    Incumbent = inc
    Candidate = cand
    Task = {s1, s2, o1, o2, r1, r2, r3, r4, p1, p2, canary, probe}
    AliasOrder <- MCOrder
    PanelTask <- MCPanel
    Ordinary = {o1, o2}
    Pairs <- MCPairs
    Shadows <- MCShadows
    Canary = canary
    Fallback = probe
    MinAccepted = 1
    DriftWindow = 1
    MaxResets = 1
    MaxFaults = 2
    None = None

    
PROPERTIES
    ResetGated
    CanaryEarned
CHECK_DEADLOCK FALSE
