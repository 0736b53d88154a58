CONSTANTS
  WordBits = 6
  T = 5
  Secret = 3
  QBits <- MCQBits
  MaxPolys = 4
  PlainBits = 3
  Messages = {2, 4}
  Mask = 1
  FreshScale = 3
  MaxCalls = 3
SPECIFICATION Spec
CHECK_DEADLOCK FALSE
INVARIANTS
  DecryptsToMessage
  HeadersTrue
