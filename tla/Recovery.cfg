SPECIFICATION FairSpec
CONSTANTS
  HelloMs = 2000
  ProbeMs = 200
  RetryMs = 2550
  SweepMs = 3000
  SoakMs = 6000
  PollMs = 5000
  PulseMs = 250
  DetectMs = 120
  FsPollMs = 40
  BackoffTicks = 3
  AwayPolls = 30
  AwayMs = 50
  BackPolls = 100
  BackMs = 100
  ColdMs <- MCLongBoot
  WarmMs <- MCWarmOnly
  DogMs <- MCDogFed
  Phase <- MCExtremePhases
  Wired = {TRUE, FALSE}
  MaxLost = 1
  MaxTrouble = 1
INVARIANTS
  PulseFits
  PassIsHonest
PROPERTIES
  InterfaceReturns
  SlaveIsFound
