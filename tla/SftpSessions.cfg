SPECIFICATION Spec
CONSTANTS
  left = left
  right = right
  tab1 = tab1
  tab2 = tab2
  Panels = {left, right}
  Tabs = {tab1, tab2}
  Layouts <- Both
  Servers = {s1, s2}
  Jobs = {job1}
  MaxLogins = 2
  MaxMounts = 2
  MaxSessions = 3
  MaxMoves = 3
  MaxEnds = 1
INVARIANT UsersAreServed
PROPERTIES NothingLeaks CallsEnd
CHECK_DEADLOCK FALSE
