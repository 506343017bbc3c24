SPECIFICATION Spec
CONSTANTS
  Files <- MCFiles
  Records <- MCRecords
  Statements <- MCStatements
  InitialDisks <- MCDisks
  LockedChoices <- MCLocked
  InitialCapacity = 1
  MaxReleased = 2
  Absent = Absent
  Free = Free
  None = None
  AtEnd = AtEnd
INVARIANTS GivingInOrder ReturnsInOrder AreasCorrect
PROPERTY Finishes
