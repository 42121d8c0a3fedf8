CONSTANT Graphs <- PassGraphs
SPECIFICATION FairSpec
INVARIANTS
    FlowIsSound
    DeliveryIsExact
PROPERTIES
    Termination
    StopEndsAllWorkers
