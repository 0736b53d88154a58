CONSTANTS
  PartNum = 2
  PartSize = 2
  Lambda = 4
  LowerFilter <- MCLowerFilter
  UpperFilter <- MCUpperFilter
  DummyPeriod = 12
  Rows <- MCRows2
  RowChoices <- MCFewChoices
  Seeds = {0, 1, 2}
  PrfTables <- MCPrfTables
  NumQueries = 2
  EncZeroCount = 2
  Garbage <- MCGarbage
SPECIFICATION Spec
INVARIANT MissIsSkipped
