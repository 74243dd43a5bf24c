\* OneFilesystem, by hand, with -continue: a walk that goes on in its own target
\* where links cannot be made (see WalkEnds), and the removal of a moved link
\* whose folder it replaced (see TakesOnlyItsOwn).  Both violated.
SPECIFICATION Spec
INVARIANTS AllWalksEnd AllTakeTheirOwn
CHECK_DEADLOCK FALSE
