SPECIFICATION Spec
CONSTANTS
  Calls = {1, 2}
  Requests <- LinkRequests
  Builds = {"unix", "windows"}
  Disks <- LinkDisks
  MaxFaults = 0
PROPERTY NeverReplaces
CHECK_DEADLOCK FALSE
