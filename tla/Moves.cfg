CONSTANTS
  WordBits = 12
  LogN = 5
  Primes <- MCPrimes
  StepLists <- MCStepLists
  Calls <- MCCalls
  KERNEL_THREAD_COUNT = 12
  NumThreads = 2
  NumSlots = 3
  Pools = {"global", "own"}
  Shared = {"global"}
  NewLens = {2}
  Lens = {0, 3}
  Capacity = 7
  PRESERVED_MEMORY_BYTES = 1
  MaxCalls = 4
SPECIFICATION MCSpec
INVARIANTS
  Rotates
  MemorySafe
CHECK_DEADLOCK FALSE
