SPECIFICATION Spec
CONSTANTS
  j1 = j1
  j2 = j2
  j3 = j3
  Jobs = {j1}
  NRemotes = 2
  Source <- SoloSource
  Target <- SoloTarget
  MaxRunning = 2
  KeepFinished = 1
  MaxConflicts = 2
  MaxDrops = 3
INVARIANT LostConnectionsFailNoJob
CHECK_DEADLOCK FALSE
