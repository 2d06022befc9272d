CONSTANTS
  Workers = {w1}
  Directs = {}
  Callers = {c1}
  Producers = {p1}
  Clearers = {x1}
  Ops = {"start", "stop", "pause", "resume"}
  WorkerCount = 1
  MaxRetryCount = 1
  QueueCapacity = 2
  TransportCapacity = 1
  Modulus = 8
  NoOne = NoOne
  MaxPackets = 1
  MaxCalls = 1
  MaxClears = 1
SPECIFICATION FairSpec
PROPERTIES ClearReturns
CHECK_DEADLOCK FALSE
