SPECIFICATION Spec
CONSTANTS
  PrimaryKeys = {1, 2, 3}
  AlternateKeys = {1, 2}
  Probes <- MCGenericProbe
  Access = "Dynamic"
  AltDuplicates = TRUE
  Optional = TRUE
  OpenModes = {"Output", "IoMode"}
  MaxSlots = 3
INVARIANTS TypeOK IndexesMatchDisk CursorConsistent
PROPERTIES ScanKeepsPlace ImplementsKeyedStore
