SPECIFICATION Spec
CONSTANTS
  LineWidth = 5
  Operands <- MCOperands
  DelimiterLists <- MCDelimiterLists
  TargetLists <- MCTargetLists
  TallyingLists <- MCTallyingLists
  ReplacingItems <- MCReplacingItems
  SeriesLists <- MCSeriesLists
  Conversions <- MCConversions
  Literals <- MCLiterals
  Items <- MCItems
  Movable <- MCMovable
INVARIANTS LineIsWhatWasSent TakenApart InspectedAsDefined MovedAsDefined
VIEW StateView
