SPECIFICATION Spec
CONSTANTS
  MaxSaves = 2
  MaxForeign = 1
  MaxDrops = 1

PROPERTY NeverOverUnseen
CHECK_DEADLOCK FALSE
