SPECIFICATION Spec
CONSTANTS
  Messages <- GenMessages
INVARIANTS
  TypeOK
  PanicIsTyped
  GroupsWhole
  Symmetric
PROPERTIES
  EncodeLayoutSpec
  DecodeLayoutSpec
CHECK_DEADLOCK FALSE
