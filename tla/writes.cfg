SPECIFICATION Spec
CONSTANTS
    n1 = n1
    n2 = n2
    Batches = {1, 2}
    Plans <- TwoPlans
    RetainDone = 1
    MaxStepFailures = 1
    MaxCheckpoints = 3
    MaxFaults = 1
INVARIANTS
    WrittenOnce
    
    CheckpointKept
CHECK_DEADLOCK FALSE
