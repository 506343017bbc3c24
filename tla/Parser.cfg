SPECIFICATION Spec
CONSTANTS
  Names <- MCNames
  Integers_ = {"1", "2"}
  Decimals = {"1.5"}
  Strings = {"'s'"}
  Levels <- MCLevels
  Pictures = {"p"}
  EntryLevels <- MCLevels
  MaxEntries = 5
  EntryName_ = "A"
  MaxRelations = 3
  Subjects <- MCSubjects
  Objects <- MCObjects
  Values_ = {0, 1}
  Simple <- MCSimple
  Compound <- MCCompound
  Alone <- MCAlone
  Whole <- MCWhole
  MaxStatements = 3
  MaxOpen = 2
  MaxSentences = 2
  Damage <- MCDamage
  Parts <- MCParts
  Optional <- MCOptional
  Several <- MCSeveral
  MaxExtra = 3
INVARIANTS EntriesByLevel ConditionsMeant ParsedAsWritten DamageContained ProgramParsedAsWritten
CHECK_DEADLOCK FALSE
