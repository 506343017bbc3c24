SPECIFICATION Spec
CONSTANTS
  ContentWidth = 6
  MaxCopyDepth = 2
  SearchPaths <- MCSearchPaths
  Sources <- MCSources
  LineSources <- MCLineSources
INVARIANTS TextAsDefined LinesKept
