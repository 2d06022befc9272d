CONSTANTS
  Workers = {w1, w2}
  Directs = {}
  Callers = {c1}
  Producers = {p1}
  Clearers = {}
  Ops = {"start", "stop", "pause", "resume"}
  WorkerCount = 2
  MaxRetryCount = 1
  QueueCapacity = 2
  TransportCapacity = 1
  Modulus = 8
  NoOne = NoOne
  MaxPackets = 3
  MaxCalls = 4
  MaxClears = 0
SPECIFICATION Spec
SYMMETRY Symmetry
INVARIANTS HandedInOrder
CHECK_DEADLOCK FALSE
