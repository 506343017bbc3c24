SPECIFICATION Spec
CONSTANTS
  PrimaryKeys = {1, 2, 3}
  AlternateKeys = {1, 2, 3}
  Probes <- MCFewProbes
  Access = "Sequential"
  AltDuplicates = FALSE
  Optional = FALSE
  OpenModes = {"Input", "Output", "IoMode"}
  MaxSlots = 3
INVARIANTS KeysUnique LoadedInKeyOrder
PROPERTY AnswersAsPromised
