CONSTANTS
    P = P
    Q = Q
    R = R
    c1 = c1
    c2 = c2
    k1 = k1
    k2 = k2
    Cores = {1, 2, 3}
    Kind <- Kinds
    Clients = {c1, c2}
    Pools = {P, Q, R}
    Assignments <- Staff
    Available <- CoresOf
    InstanceCount <- Counts
    Keys = {k1, k2}
    NoKey = NoKey
    CursorWrap = 2
    Expiring = {k2}
SPECIFICATION Spec
INVARIANTS
    LeasesAreExact
    StreamsStayPut
    PanicsOnlyOnForeignCore
