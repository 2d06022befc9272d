CONSTANTS
  MaxSeq = 3
  MaxBufferSize = 2
  TargetDelay = 1
  MinTargetDelay = 0
  MaxTargetDelay = 2
  MaxPacketAge = 2
  DuplicateCacheSize = 2
  AdaptiveEnabled = TRUE
  AdaptiveStep = 1
  JitterHeadrooms = {0, 2}
  MaxArrivals = 5
SPECIFICATION FairSpec
INVARIANTS TypeOK NothingBufferedIsPassed OutputInOrder CacheMirrorsSet LossAccounting PacketConservation SizeAgrees
PROPERTIES ImplementsOrderedDelivery EveryPacketLeaves
