CONSTANTS
    d1 = d1
    Docs = {d1, d2}
    d2 = d2
    Due <- Pair
    Procs = {p1}
    Files <- BothWays
    MaxPasses = 4
    Chunk = 1
    MaxRevisions = 6
    MaxChanges = 2
    MaxLeftOut = 0
SPECIFICATION ReviewSpec
INVARIANTS
    ApprovedIsReviewed
CHECK_DEADLOCK FALSE
