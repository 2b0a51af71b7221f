SPECIFICATION Spec
CONSTANTS
    Session = {s1, s2}
    Legacy = {}
    None = None
    MaxRetries = 1
    MaxAttempt = 1
    MaxClaims = 1
    MaxInvocations = 2
    MaxGrants = 2
    MaxSubmits = 2
SYMMETRY SessionSymmetry
INVARIANTS
    TypeOK
    ExclusiveExecution
PROPERTIES
    GrantIsCurrent
    
