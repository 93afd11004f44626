SPECIFICATION Spec
CONSTANTS
  Texts <- MCTexts
  Literals <- MCLiterals
  Strings <- MCStrings
  Names <- MCNames
  IntMax = 7
INVARIANT ParsesByPrecedence
INVARIANT ConditionKeepsMeaning
INVARIANT TypedValue
CHECK_DEADLOCK FALSE
