CONSTANTS
  Syncers = {s1, s2}
  Updaters = {u1}
  Measurements <- FarAndNear
  Estimates = {0, 2}
  MaxOffset = 4
  MaxDrift = 1
  RateNum = 1
  RateDen = 2
  MaxStep = 3
  Threshold = 1
  Window = 2
  MaxStarts = 2
  MaxSyncs = 3
SPECIFICATION FairSpec
INVARIANTS UnsyncedIsBlank OffsetWithinMeasured
PROPERTIES ImplementsSteadyClock Converges
CHECK_DEADLOCK FALSE
