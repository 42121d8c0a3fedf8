SPECIFICATION FairSpec
CONSTANTS
    MaxAttempts = 1
    Capacity = 1
    MaxFrames = 3
    MaxFaults = 3
INVARIANTS
    RelayIsClean
PROPERTIES
    RelayEnds
CHECK_DEADLOCK FALSE
