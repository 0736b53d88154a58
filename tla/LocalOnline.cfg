CONSTANTS
  W = 8
  P = 3
  Q = 59
  GroupLen = 3
  EncErr = 0
  FloatErr = 0
  NoiseBound = 0
  Masks = {0, 1, 17, 57, 58}
SPECIFICATION OnlineSpec
INVARIANT OnlineResultIsEntry
