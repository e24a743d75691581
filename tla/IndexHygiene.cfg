SPECIFICATION Spec
CONSTANTS
  Columns <- MCColumns
  Expressions <- MCExpressions
  Catalogs <- MCCatalogs
  MaxScans = 0
INVARIANTS
  TypeOK
  ConstraintsSurvive
  DuplicatesLeaveCover
  NoRedundancyLeft
CHECK_DEADLOCK FALSE
