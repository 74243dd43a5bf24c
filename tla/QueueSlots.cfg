SPECIFICATION Spec
CONSTANTS
  j1 = j1
  j2 = j2
  j3 = j3
  Jobs = {j1, j2, j3}
  NRemotes = 2
  Source <- CrossSource
  Target <- CrossTarget
  MaxRunning = 1
  KeepFinished = 1
  MaxConflicts = 0
  MaxDrops = 0
INVARIANTS TypeOK OneJobPerServer SlotsHeldOnlyForRunning AtMostMaxRunning ListKeepsTheNewest
CHECK_DEADLOCK FALSE
