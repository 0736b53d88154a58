CONSTANTS
  PartNum = 2
  PartSize = 2
  Lambda = 4
  LowerFilter <- MCLowerFilter
  UpperFilter <- MCUpperFilter
  DummyPeriod = 12
  Rows <- MCRows2
  RowChoices <- MCSomeChoices
  Seeds = {0, 1, 2}
  PrfTables <- MCPrfTables
  NumQueries = 4
  EncZeroCount = 3
  Garbage <- MCGarbage
SPECIFICATION Spec
INVARIANTS
  TypeOK
  HintsSound
  BackupsSound
  AnswersCorrect
  RepeatedQueryHits
  HintIDsDistinct
  AbortOnlyWhenUsedUp
PROPERTIES
  RefreshIsLocal
  ImplementsLookup
