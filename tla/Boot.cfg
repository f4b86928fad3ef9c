SPECIFICATION FairSpec
CONSTANTS
  Boards <- MCBoards
  Clocks <- MCClocks
  Stock = "stock"
  Cpu <- MCCpu
  Volt <- MCVolt
  Fallback = 126
  Reachable <- MCReachable
  Holds <- MCHolds
  Compiled = "auto"
INVARIANTS
  PlugCures
  RequestsAreHonoured
PROPERTIES
  RequestsAreOneShot
  ConsoleIsExplained
  BootEnds
