SPECIFICATION CooperativeSpec
CONSTANTS
  j1 = j1
  j2 = j2
  j3 = j3
  Jobs = {j1, j2}
  NRemotes = 2
  Source <- PairSource
  Target <- PairTarget
  MaxRunning = 2
  KeepFinished = 1
  MaxConflicts = 0
  MaxDrops = 1
PROPERTIES AllocatesSlots EveryJobEnds
CHECK_DEADLOCK FALSE
