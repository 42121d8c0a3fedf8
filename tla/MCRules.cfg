SPECIFICATION Spec
CONSTANTS
    None = None
    Err = Err
    UMax = 100
    MaxConfigCount = 2
    MaxConfigItem = 16
    MaxConfigTotal = 24
    MaxTracks = 2
    MaxRetryBackoff = 30
    U32Max = 12
    MaxMockDelay = 50
    MaxDims = 5
    MaxIo = 2
    Inf = Inf
    Bounds <- MCBounds
    Elements <- MCElements
    Lim <- MCLim
    OsdLim <- MCOsdLim
    MaxDrainTimeout = 4
    Eos = Eos
    Groups <- MCGroups
    Cases <- MCCases
INVARIANTS MeaningIsKept SizesStayInBounds ValidSpecsAreSound PlansAreHonest OpenedIsUsable ResultsAreRight
CHECK_DEADLOCK FALSE
