CONSTANTS
    N = 2
    CanBadFrame = TRUE
    CanSpawnFail = TRUE
    CanUpdate = TRUE
SPECIFICATION FairSpec
INVARIANTS
    HandlesAreTrue
    NothingElseLost
PROPERTIES
    HistoryIsKept
    CallsReturn
