SPECIFICATION CommandSpec
CONSTANTS
  TimeoutSeconds = 30
  MaxQueries = 2
  Workloads <- MCWorkloads
  AntiPatternKeys <- MCAntiPatternKeys
  FindingKeys <- MCFindingKeys
  IndexKeys <- MCIndexKeys
  Summary <- MCSummary
  Keys <- MCKeys
  Invocations <- MCInvocations
INVARIANTS
  SecondRunStartsClean
  DiffOfTheFiles
  TotalsOfTheFiles
  ExitCodeTells
  RejectedUntouched
  VerdictIsEarned
PROPERTY Exits
