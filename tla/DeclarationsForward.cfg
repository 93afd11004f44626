SPECIFICATION Spec
CONSTANTS
  Files <- MsgFiles
  IntMax = 7
INVARIANTS
  OnlyDuplicates
CHECK_DEADLOCK FALSE
