CONSTANT MaxTs <- MCMaxTs
INIT Init
NEXT Next
INVARIANT TypeOK
INVARIANT DoingHasPositiveTs
PROPERTY RefinesArchiveStatusMachine
