CONSTANTS
  Producers = {p1}
  Consumers = {c1}
  p1 = p1
  Offered <- ThreeAndACopy
  Gap = 2
  Offsets <- Falling
  Latency = 1
  MaxLate = 1
  MaxEarly = 1
  Capacity = 2
  Resolution = 2
  MaxTime = 4
  MaxStarts = 1
  MaxRemovals = 1
SPECIFICATION Spec
INVARIANTS IdsMirrorHeap EveryPacketOnce ReleasedInOrder
PROPERTIES NotBeforeDeadline ImplementsPlayout
CHECK_DEADLOCK FALSE
