SPECIFICATION CallingSpec
CONSTANTS
  Op <- MCOp
  Exchange <- MCOp
  Divider <- MCDividers
  VerifyBlocks = 2
  StreamBlocks = 256
  MaxFaults = 1
  FrameUs = 5
  BlockUs = 520
  HandshakeUs = 2000000
  CtrlUs = 1000000
  ProbeUs = 200000
  ResyncUs = 2500000
  ServeUs = 1000000
  WatchdogUs = 8000000
  BootUs = 1200000
  MayHang = TRUE
INVARIANTS
  CleanWiresWork
PROPERTIES
  EveryCallReturns
  Recovers
