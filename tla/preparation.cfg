SPECIFICATION Spec
CONSTANTS
    NItems = 2
    MaxAttempts = 2
    Workers = 2
    StopOnError = FALSE
    Assets = {"audio"}
    AssetOf <- Shared
    Procs = {p1, p2}
    Nobody = Nobody
    Dead = Dead
    MaxControls = 2
    MaxRuns = 3
    MaxPrunes = 1
SYMMETRY Alike
INVARIANTS
    EvidenceIsThere
    ConfirmedIsStopped
    ReadsAreStarted
CHECK_DEADLOCK FALSE
