CONSTANTS
  HeaderVersion = 1
  HeaderSize = 48
  InvalidComp = 0
  NoneComp = 1
  TypeMax = 30
  FieldValues <- MCFieldValues
  Payloads <- MCPayloads
  MaxCorrupt = 1
  Timeout = 3
  MaxRetryTimes = 3
  ls1 = ls1
  ls2 = ls2
  ls3 = ls3
  LSStats <- MCLSStats
  InvalidId <- MCInvalidId
  InfoRows <- MCInfoRows
  RestoreRows <- MCRestoreRows
  ListInputs <- MCListInputs
  MaxSets = 1
  PieceRows <- MCPieceRows
  PieceTenants <- MCPieceTenants
SPECIFICATION Spec
INVARIANT TypeOK
INVARIANT AcceptedIsWhatWasWritten
INVARIANT StatsAreSumOfAdded
PROPERTY RetryLoopsEnd
PROPERTY InfoCopyIsWhole
PROPERTY RestoreAssignIsWhole
PROPERTY PieceInitIsWhole
