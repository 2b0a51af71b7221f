CONSTANTS
    t1 = t1
    t2 = t2
    Task = {t1, t2}
    Proc = {p1}
    None = None
    HostContract <- MCHostContract
    MaxRuns = 1
    Content = {c1}
    Exposing = {}
    MaxRetries <- MCMaxRetries
    MaxCompletes = 2
    MaxPrunes = 1
SPECIFICATION EvidenceSpec
INVARIANTS
    CompletedIntact
    
CHECK_DEADLOCK FALSE
