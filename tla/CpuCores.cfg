SPECIFICATION Spec
CONSTANTS
  Content <- MCContent
  Start <- MCStart
  Operands <- MCOperands
  Values <- MCValues
  AddValues <- MCAddValues
  Indices <- MCIndices
  FlagSets <- MCFlagSets
  MaxSteps = 2
PROPERTIES CoresAgree ArithmeticRight ReturnsRestore
CHECK_DEADLOCK FALSE
