CONSTANTS
  f1 = f1
  f2 = f2
  Files <- MCFiles
  KeyValues <- MCKeyValues
INIT Init
NEXT Next
PROPERTY DeletionIsFinal
INVARIANT BrokenNeverRestored
INVARIANT IncompleteNeedsCopy
INVARIANT PieceKeyOrderIsLexicographic
