CONSTANTS
  Workers = {w1, w2}
  Directs = {}
  Callers = {c1, c2}
  Producers = {p1}
  Clearers = {}
  Ops = {"start", "stop", "pause", "resume"}
  WorkerCount = 1
  MaxRetryCount = 1
  QueueCapacity = 2
  TransportCapacity = 1
  Modulus = 8
  NoOne = NoOne
  MaxPackets = 0
  MaxCalls = 3
  MaxClears = 0
SPECIFICATION FairSpec
PROPERTIES StopReturns
CHECK_DEADLOCK FALSE
