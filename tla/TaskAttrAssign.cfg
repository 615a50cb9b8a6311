CONSTANTS
  Rows <- MCRows
  Words <- MCWords
  Times <- MCTimes
  MaxBlack <- MCMaxBlack
SPECIFICATION Spec
PROPERTY AssignIsValidatedCopy
