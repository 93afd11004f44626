SPECIFICATION FairSpec
CONSTANTS
  Programs <- AllPrograms
  IntMax = 7
INVARIANTS
  TypeOK
  GroupExact
  AcceptedLaidOut
  DeclaredBeforeUse
  NoRedeclaration
  BindsSound
  IdsAscend
PROPERTIES
  LayoutSpec
  WriteOnce
  Terminates
CHECK_DEADLOCK FALSE
