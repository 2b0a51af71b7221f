SPECIFICATION Spec
CONSTANTS
    Session = {s1}
    Legacy = {s1}
    None = None
    MaxRetries = 2
    MaxAttempt = 3
    MaxClaims = 2
    MaxInvocations = 2
    MaxGrants = 0
    MaxSubmits = 1
INVARIANTS
    
    
    CompletedCurrent
    RetryBudget
    DeadLetterKept
PROPERTY ImplementsLife
