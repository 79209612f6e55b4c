SPECIFICATION Spec
CONSTANTS
    tick = tick
    user = user
    Procs <- Both
    NRestores = 2
    MaxFence = 4
    MaxChanges = 1
SYMMETRY Alike
INVARIANTS
    RecordIsTrue
    RestoredOnce
CHECK_DEADLOCK FALSE
