SPECIFICATION Spec
CONSTANTS
    NAttempts = 2
    NFiles = 1
    Kinds = {"create", "update", "keep"}
    MaxFence = 3
    MaxSession = 2
    MaxEdits = 1
INVARIANTS
    EffectsAreAccounted
    CommittedIsReal
PROPERTIES
    StoreAccepts
    NoLateEffect
CHECK_DEADLOCK FALSE
