SPECIFICATION Spec
CONSTANTS
  TimeoutSeconds = 30
  MaxQueries = 2
  Workloads <- MCWorkloads
INVARIANTS
  SectionsAccounted
  CompletedWorkloadIsWhole
  
  NothingLeftBehind
PROPERTY Terminates
