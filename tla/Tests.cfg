SPECIFICATION FairSpec
CONSTANTS
  Len = 4
  Needs <- MCNeeds
  LinkRows = {3, 4}
  Contact = 3
  Boards <- MCBoards
  Unknown = "unknown"
  Choosable = {"core2", "frank"}
  Claimed <- MCClaimed
  Wired = {"core2"}
  Probed = {"link"}
  MaxCycles = 2
INVARIANTS
  RowsAreHonest
PROPERTIES
  NothingLeft
  StopIsHonoured
