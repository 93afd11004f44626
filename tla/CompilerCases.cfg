SPECIFICATION Spec
CONSTANTS
  Programs <- CasePrograms
  IntMax = 7
  IdMax = 5
  Running = Running
INVARIANTS
  CasesDistinct
CHECK_DEADLOCK FALSE
