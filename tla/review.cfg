CONSTANTS
    d1 = d1
    Docs = {d1, d2}
    d2 = d2
    Due <- Both
    Procs = {p1}
    Files <- BothWays
    MaxPasses = 4
    Chunk = 1
    MaxRevisions = 3
    MaxChanges = 1
    MaxLeftOut = 1
SPECIFICATION ReviewSpec
INVARIANTS
    VerifiedAsSeen
    BatchStabilizes
CHECK_DEADLOCK FALSE
