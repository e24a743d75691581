SPECIFICATION Spec
CONSTANTS
  Columns <- MCColumns
  Expressions <- MCExpressions
  Catalogs <- MCCatalogs
  MaxScans = 0
INVARIANT NoLossOfReadPerformance
CHECK_DEADLOCK FALSE
