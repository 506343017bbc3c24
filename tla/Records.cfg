SPECIFICATION Spec
CONSTANTS
  Width = 2
  Kinds <- MCKinds
  MaxRecords = 3
INVARIANT TypeOK
PROPERTIES ImplementsRecordSequence AnswersAsPromised
VIEW MCView
