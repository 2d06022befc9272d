CONSTANTS
  Addresses = {a1}
  Host = Host
  MaxRepeats = 0
  Packets = {0, 1, 2}
  Oversized = {2}
  InboundCapacity = 1
  Receivers = {r1, r2}
  Operators = {o1, o2}
  NoPacket = NoPacket
  MaxSeq = 2
  PlayCapacity = 2
  Gap = 1
  Offsets = {0, 2}
  MaxLifecycles = 3
  MaxClears = 1
SPECIFICATION FairSpec
PROPERTY NothingLingers
CHECK_DEADLOCK FALSE
