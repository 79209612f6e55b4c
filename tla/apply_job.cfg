SPECIFICATION Spec
CONSTANTS
    NItems = 2
    MaxAttempts = 2
    Modes = {"apply", "simulate"}
    Policies = {"stop", "continue"}
    MaxControls = 2
    MaxStarts = 2
INVARIANTS
    TypeOK
    OneStarted
    ConfirmedIsStopped
PROPERTIES
    CommittedStays
    NoStartWhileStopping
CHECK_DEADLOCK FALSE
