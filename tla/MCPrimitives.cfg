CONSTANTS
    Senders = {s1, s2}
    Receivers = {r1, r2}
    None = None
    PipeCapacity = 2
    MaxSends = 3
    Keys <- MCKeys
    Buffers = {1, 2, 3, 4}
    MaxCachedBytes = 3
    MaxCachedEntries = 3
    MaxPerDescriptor = 2
    Queues = 2
    Jobs = {1, 2}
    Panicking = {2}
    RouteCapacity = 2
    RoutePackets = 4
    MaxWrites = 3
SPECIFICATION MCSpec
CHECK_DEADLOCK FALSE
INVARIANTS
    DepthAccounted
    CacheAccounted
    RouteIsKept
PROPERTIES
    BackgroundWorkGetsDone
