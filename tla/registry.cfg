SPECIFICATION Spec
CONSTANTS
    Slot = {1}
    Instance = {i1, i2}
    None = None
    MaxRegistrations = 2
    MaxLifecycles = 2
    MaxGeneration = 2
SYMMETRY InstanceSymmetry
INVARIANTS
    FreeSlotFenced
    IdentityUnique
    RepliesTruthful
PROPERTY GenerationGrows
CHECK_DEADLOCK FALSE
