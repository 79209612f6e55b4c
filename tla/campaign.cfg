SPECIFICATION Spec
CONSTANTS
    write = write
    p1 = p1
    p2 = p2
    Writer = write
    Workers <- Two
    Initial = 1
    MaxBatches = 2
    PrepareAhead = 1
    Limits = {1, 2}
    MaxStepFailures = 1
    HasPilot = TRUE
    Commands = {"status", "item", "reopen", "fresh", "skip", "requeue", "agent", "edit", "tune"}
    MaxCommands = 1
SYMMETRY Alike
CONSTRAINT WhileTuned
INVARIANTS
    OneLaneMayMove
    JobsAreLocked
PROPERTY PreparedAhead
