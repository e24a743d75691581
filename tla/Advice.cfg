SPECIFICATION AdviceSpec
CONSTANTS
  MaxQueries = 3
  MaxIncluded = 2
  MinOccurrences = 2
  Tables <- MCTables
  Columns <- MCColumns
  Aliases <- MCAliases
  Relations <- MCRelations
  Structures <- MCStructures
  Workloads <- MCWorkloads
  Drops <- MCDrops
INVARIANTS
  AdviceTypeOK
  EveryFindingReported
  RankedAsDocumented
  CheapBelowCostly
  FlaggedScansSeek
  FlaggedScansSort
  MergeIsExact
CHECK_DEADLOCK FALSE
