SPECIFICATION Spec
CONSTANTS
  job1 = job1
  job2 = job2
  someone = someone
  file1 = file1
  file2 = file2
  tree = tree
  twin1 = twin1
  twin2 = twin2
  link = link
  linked = linked
  name = name
  other = other
  folder = folder
  Jobs = {job1}
  Items = {tree, twin1, twin2, link, linked}
  Handling <- TreeHandling
  Big = {twin1}
  Children <- TreeChildren
  Picked <- TreePicked
  Stored <- TreeStored
  Moves = {job1}
  Cancellable = {job1}
  Befores <- TreeBefores
  PosixRename = TRUE
  Answers = {"overwrite", "rename", "skip"}
  PartialAnswers = {"resume", "overwrite"}
  ForAll = {TRUE, FALSE}
  Typed = {}
  MaxDrops = 1
INVARIANTS NothingIsLost ReplacedWhenAgreed DoneIsComplete
PROPERTY JobsEnd
CHECK_DEADLOCK FALSE
