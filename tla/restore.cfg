SPECIFICATION SplitSpec
CONSTANTS
    Children <- OneChild
    Anchor = "anchor"
    NAttempts = 2
    NRestores = 2
    MaxFence = 4
    MaxFaults = 2
INVARIANTS
    AnchorLast
    RestoredOnce
PROPERTY
    RestoresWhatWasSeen
CHECK_DEADLOCK FALSE
