SPECIFICATION Spec
CONSTANTS
  PrimaryKeys = {1, 2, 3}
  AlternateKeys = {1, 2}
  Probes <- MCFewProbes
  Access = "Dynamic"
  AltDuplicates = TRUE
  Optional = FALSE
  OpenModes = {"Output", "IoMode", "Extend"}
  MaxSlots = 3
PROPERTY EqualsKeepOrder
