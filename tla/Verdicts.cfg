SPECIFICATION Spec
CONSTANTS
  Low = 2
  Steps = 3
  CacheSize = 2
  Benches <- MCBenches
  Dividers <- MCDividers
  Attempts = 3
  MaxBad = 5
  MaxPasses = 2
  Cards <- MCCards
  Width = 22
  LeastSize = 2
  ZeroTries = 3
  Patience = 3
  MaxFaults = 2
  MaxSwaps = 1
  Fleet <- Healthy
  Samples = 3
INVARIANTS
  CardsAreTrue
  MemoryRowsAreTrue
  LinkVerdictIsEarned
  VerdictIsRight
\* The boot and the row are over; the board is decided.
CHECK_DEADLOCK FALSE
