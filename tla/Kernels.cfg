CONSTANTS
  HostThreads = {t1, t2, t3}
  WordBits = 10
  THREAD_COUNT_LOG2 = 2
  BatchSize = 1
  Shapes <- MCShapes
  Inputs <- MCInputs
SPECIFICATION Spec
INVARIANTS
  LaunchSafe
  TransformsExact
  ActsOnIntegers
  SharedDataComplete
PROPERTIES
  SharedDataKept
  EveryCallEnds
CHECK_DEADLOCK FALSE
