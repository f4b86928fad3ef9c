SPECIFICATION Spec
CONSTANTS
  Low = 2
  Steps = 3
  CacheSize = 2
  Benches <- OneBench
  Dividers <- MCDividers
  Attempts = 3
  MaxBad = 0
  MaxPasses = 1
  Cards <- MCCards
  Width = 22
  LeastSize = 2
  ZeroTries = 3
  Patience = 3
  MaxFaults = 0
  MaxSwaps = 0
  Fleet <- OneBoard
  Samples = 3
INVARIANT SoundCallsWork
CHECK_DEADLOCK FALSE
