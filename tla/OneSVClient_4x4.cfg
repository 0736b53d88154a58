CONSTANTS
  PartNum = 4
  PartSize = 4
  Lambda = 2
  LowerFilter <- MCLowerFilter
  UpperFilter <- MCUpperFilter
  DummyPeriod = 12
  Rows <- MCRows4
  RowChoices <- MCFewChoices
  Seeds = {1, 2}
  PrfTables <- MCPrfTables
  NumQueries = 2
  EncZeroCount = 2
  Garbage <- MCGarbage
SPECIFICATION FairSpec
INVARIANTS
  Supplied
  QueryBalanced
PROPERTY Terminates
