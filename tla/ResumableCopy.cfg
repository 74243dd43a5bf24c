SPECIFICATION Spec
CONSTANTS
  ReadChunk = 2
  ReadDepth = 2
  Overlap = 2
  Pipelines <- NarrowAndWide
  MaxLength = 5
  MaxFailures = 2
INVARIANTS ReadsInOrder ResumePointIsClean FinishedIsWhole
PROPERTIES Uploads CopyEnds
CHECK_DEADLOCK FALSE
