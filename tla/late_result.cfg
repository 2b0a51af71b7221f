SPECIFICATION Spec
CONSTANTS
    Session = {s1, s2}
    Legacy = {}
    None = None
    MaxRetries = 2
    MaxAttempt = 2
    MaxClaims = 2
    MaxInvocations = 2
    MaxGrants = 1
    MaxSubmits = 1
SYMMETRY SessionSymmetry
INVARIANTS
    AcceptedIssued
