SPECIFICATION Spec
CONSTANTS
  Windows = {"a", "b"}
  Editors = {"a"}
  Pids = {1, 2}
  Sessions = {"s1", "s2"}
  Folders = {"f1", "f2"}
  Auths = {"password", "key"}
  MaxDepth = 2
  Beginnings <- SomeBeginnings
INVARIANTS ChangesAreWhole SecretsBelong EverythingShown TabsAreKnown
PROPERTY OffersAreFree
CHECK_DEADLOCK FALSE
