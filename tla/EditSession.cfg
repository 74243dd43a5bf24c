SPECIFICATION Spec
CONSTANTS
  MaxSaves = 2
  MaxForeign = 1
  MaxDrops = 1
INVARIANTS LastSaveSurvives QuitKnows
PROPERTIES ReplacedKnowingly SavesArrive
CHECK_DEADLOCK FALSE
