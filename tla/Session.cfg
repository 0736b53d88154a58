CONSTANTS
  LogSizes = {2, 3, 4, 5, 7, 9}
  MaxLog = 9
  MinDegree = 2
  MaxDegree = 8
  CoeffBits = 54
  PlainBits = 20
  ByteBits = 4
  BatchChoices <- MCBatchChoices
  MaxCells = 16
SPECIFICATION MCSpec
INVARIANTS
  ParametersAgree
  AnswersMatched
  BatchesIntact
PROPERTIES
  ServedInOrder
  SessionCompletes
  PeersFollow
  EveryBatchArrives
