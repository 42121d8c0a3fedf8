SPECIFICATION FairSpec
CONSTANTS
  r1 = r1
  r2 = r2
  Runtimes <- MCRuntimes
  Backends <- MCBackends
  MaxSequence = 3
  Packets = 4
  MayFail = TRUE
  MayStop = TRUE
INVARIANTS
  AccountsMatch
  EosAfterEveryResult
PROPERTY ElementEnds
CHECK_DEADLOCK FALSE
