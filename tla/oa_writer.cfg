SPECIFICATION FairSpec
CONSTANTS
    Process = {p1, p2, p3}
    None = None
    MaxKills = 1
    Oa = {a, b}

    
PROPERTIES
    
    OrphanReclaimed
