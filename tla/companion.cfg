SPECIFICATION FairSpec
CONSTANTS
    o1 = o1
    o2 = o2
    x = x
    Ops <- MCOps
    Exports <- MCExports
    Faults <- AllFaults
    MaxFence = 2
    MaxEpoch = 3
    MaxCrashes = 1
INVARIANTS
    TypeOK
    EffectOnce
    FailedHasNoEffect
PROPERTIES
    AcceptedIsSettled
    KeepsPromise
CHECK_DEADLOCK FALSE
