SPECIFICATION FairSpec
CONSTANTS
    None = None
    Threads = {t1, t2}
    Destroyer = t1
    Names <- MCNames
    Loadable <- MCLoadable
    Ext = {e1}
    Uses <- MCUses
    MaxPackets = 1
    MaxNodes = 2
    MaxOutputs = 2
    MaxCalls = 4
INVARIANTS OneGraph
PROPERTIES EndMeansDrained EverythingGivenBack
CHECK_DEADLOCK FALSE
