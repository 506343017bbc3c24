SPECIFICATION Spec
CONSTANTS
  Item <- MCItem
  Statements <- MCStatements
  Starts <- MCStarts
  DoubleScale = 4
  LongestSize = 9
INVARIANT TargetsAsDefined SizeErrorTold
CHECK_DEADLOCK FALSE
