CONSTANTS
  Workers = {w1, w2}
  Directs = {d1}
  Callers = {c1, c2}
  Producers = {p1}
  Clearers = {x1}
  Ops = {"start", "stop", "pause", "resume"}
  WorkerCount = 1
  MaxRetryCount = 1
  QueueCapacity = 1
  TransportCapacity = 1
  Modulus = 8
  NoOne = NoOne
  MaxPackets = 2
  MaxCalls = 3
  MaxClears = 1
SPECIFICATION Spec
SYMMETRY Symmetry
INVARIANTS EveryPacketInOnePlace EachWorkerInOrder LeaksAtMostOnePacket StoppedIsQuiet NoWorkerForgotten
CHECK_DEADLOCK FALSE
