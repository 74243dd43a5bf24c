SPECIFICATION Spec
CONSTANTS
  Calls = {1, 2}
  Requests <- SomeRequests
  Builds = {"unix", "windows"}
  Disks <- SomeDisks
  MaxFaults = 2
INVARIANTS ReplacedOrKept WalksAreWhole NamesSurvive
PROPERTY OnlyWhatWasAsked
CHECK_DEADLOCK FALSE
