SPECIFICATION FairSpec
CONSTANTS
  None = None
  p1 = p1
  p2 = p2
  s1 = s1
  s2 = s2
  r1 = r1
  u1 = u1
  u2 = u2
  Urls <- MCUrls
  Pubs <- MCPubs
  Subs <- MCSubs
  Reqs <- MCReqs
  MaxStreams = 1
  MaxSubs = 1
  MaxCores = 2
  MaxIds = 2
  Uses <- MCUses
INVARIANTS
  RegistryIsExact
  HolesEndInKeyframe
PROPERTIES
  CleanEndIsComplete
  CountedKeepsEntry
  CloseReachesSubscribers
CHECK_DEADLOCK FALSE
