SPECIFICATION Spec
CONSTANTS
  lister = lister
  other = other
  Callers = {lister, other}
  Does <- OneLists
  MaxRequests = 4
  Window = 1
INVARIANTS RepliesAreRead FoldersAreClosed
PROPERTY RequestsEnd
CHECK_DEADLOCK FALSE
