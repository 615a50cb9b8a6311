CONSTANTS
  Paths <- MCPaths
  SetIds <- MCSetIds
  DescTypes <- MCDescTypes
  MaxItems <- MCMaxItems
  MaxText <- MCMaxText
INIT Init
NEXT Next
INVARIANT TypeOK
PROPERTY PathListRoundTrip
PROPERTY DescListRoundTrip
PROPERTY HexListRoundTrip
