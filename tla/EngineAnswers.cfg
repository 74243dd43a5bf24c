SPECIFICATION Spec
CONSTANTS
  job1 = job1
  job2 = job2
  someone = someone
  file1 = file1
  file2 = file2
  tree = tree
  twin1 = twin1
  twin2 = twin2
  link = link
  linked = linked
  name = name
  other = other
  folder = folder
  Jobs = {job1}
  Items = {file1}
  Handling <- PairHandling
  Big = {}
  Children <- NoChildren
  Picked <- OnePicked
  Stored <- PairStored
  Moves = {job1}
  Cancellable = {job1}
  Befores <- TypedBefores
  PosixRename = FALSE
  Answers = {"overwrite", "type"}
  PartialAnswers = {"resume", "overwrite"}
  ForAll = {FALSE}
  Typed = {other}
  MaxDrops = 1
INVARIANT AnswersMeanTheirClash
CHECK_DEADLOCK FALSE
