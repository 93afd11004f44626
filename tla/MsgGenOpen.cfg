SPECIFICATION Spec
CONSTANTS
  Messages <- GenMessages
INVARIANTS
  SameBytes
CHECK_DEADLOCK FALSE
