\* Terminals, by hand: the end of a closed tab's session waits behind a write to a
\* shell that does not read.  Violated, with any one kind.
SPECIFICATION Spec
CONSTANTS
  Kinds = {"elevated"}
  MaxTyped = 3
  Room = 1
PROPERTY ClosingEnds
CHECK_DEADLOCK FALSE
