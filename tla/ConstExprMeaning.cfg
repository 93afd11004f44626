SPECIFICATION Spec
CONSTANTS
  Texts <- ArithmeticTexts
  Literals <- MCLiterals
  Strings <- MCStrings
  Names <- MCNames
  IntMax = 7
INVARIANT ConstantsMean
CHECK_DEADLOCK FALSE
