SPECIFICATION Spec
CONSTANTS
  Messages <- CheckMessages
INVARIANTS
  EqualChecked
CHECK_DEADLOCK FALSE
