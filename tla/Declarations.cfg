SPECIFICATION FairSpec
CONSTANTS
  Files <- AllFiles
  IntMax = 7
INVARIANTS
  Contract
  NamesMean
  Faithful
  Accepts
PROPERTIES
  TypesKept
  Ends
CHECK_DEADLOCK FALSE
