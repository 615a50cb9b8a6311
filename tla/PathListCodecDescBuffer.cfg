CONSTANTS
  Paths <- MCShortPaths
  SetIds <- MCSetIds
  DescTypes <- MCDescTypes
  MaxItems <- MCMaxItems
  MaxText <- MCMaxText
INIT Init
NEXT Next
PROPERTY DescListFormatsWhenItFits
