SPECIFICATION RoutingSpec
CONSTANTS
    c1 = c1
    c2 = c2
    t1 = t1
    Lwar = {1, 2}
    Task = {c1, c2, t1}
    ToSend = {t1}
    ClassOf <- MCClassOf
    Nil = Nil
    Tokens = {1, 3}
    MinObservations = 1
    QualityDrop = 50
    MaxObservations = 3
    MaxSends = 2
INVARIANTS
    
    QualityHeld
CHECK_DEADLOCK FALSE
