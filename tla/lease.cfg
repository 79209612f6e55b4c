SPECIFICATION LeaseSpec
CONSTANTS
    p1 = p1
    p2 = p2
    Pids <- MCPids
    Duration = 2
    MaxStarts = 4
    MaxBoots = 2
    MaxGeneration = 4
INVARIANTS
    LeaseTypeOK
    OneInside
    InsideOwns
PROPERTIES
    LostForGood
CHECK_DEADLOCK FALSE
