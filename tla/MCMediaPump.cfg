SPECIFICATION FairSpec
CONSTANTS
  Frames = 4
  StepBudget = 2
  Settings <- MCSettings
INVARIANTS
  EveryFrameInOrder
PROPERTIES
  ImplementsFrameLine
  PumpEnds
CHECK_DEADLOCK FALSE
