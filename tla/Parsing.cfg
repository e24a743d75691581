SPECIFICATION Spec
CONSTANTS
  MaxSymbols = 7
  MaxLines = 4
  MaxSegments = 4
  Texts <- MCTexts
  Logs <- MCLogs
INVARIANTS
  StatementsExact
  ReadablePortionKept
  BlocksExact
  EntriesExact
CHECK_DEADLOCK FALSE
