SPECIFICATION FairSpec
CONSTANTS
  Texts <- ShortTexts
INVARIANTS
  TypeOK
  Tiled
  WellRead
  LineExact
PROPERTIES
  Ends
CHECK_DEADLOCK FALSE
