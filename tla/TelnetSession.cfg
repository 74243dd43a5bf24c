SPECIFICATION SessionSpec
CONSTANTS
  Kinds = {"local", "ssh", "telnet", "elevated"}
  MaxTyped = 3
  Room = 2
  Options = {1, 6, 31}
  MaxChanges = 1
  MaxResizes = 1
INVARIANTS TypedArrives ExitIsLast
PROPERTIES SessionsEnd OptionsAgree
CHECK_DEADLOCK FALSE
