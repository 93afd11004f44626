SPECIFICATION FairSpec
CONSTANTS
  Programs <- AllPrograms
  IntMax = 7
  IdMax = 5
  Running = Running
INVARIANTS
  CallsResolved
  NestedTyped
  StopsAtTypes
  DispatchAgrees
PROPERTIES
  PromiseSpec
  Finishes
CHECK_DEADLOCK FALSE
