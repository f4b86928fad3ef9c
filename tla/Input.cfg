SPECIFICATION InputSpec
CONSTANTS
  UsbKeyboards = {k1, k2}
  MaxHeld = 2
  MaxPresses = 3
  FifoDepth = 3
  Mice = {m1}
  RingSize = 5
  PollBytes = 2
  HasPs2 = TRUE
  Shelves <- MCShelves
  Addresses = {1, 2, 3}
  Instances = 4
INVARIANTS KeysAreTrue OnePacketResyncs DevicesAreTrue
PROPERTIES PointerFollows
