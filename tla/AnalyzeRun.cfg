SPECIFICATION Spec
CONSTANTS
  TimeoutSeconds = 30
  MaxQueries = 3
  Workloads <- MCWorkloads
INVARIANTS
  TypeOK
  EveryQueryAccounted
  MeasuredOnEarlierWrites
  NothingDurable
  ReadOnlyUnlessConfirmed
  NothingLeftBehind
  ResultAddsUp
PROPERTIES
  Terminates
  ReviewSpec
