SPECIFICATION Spec
CONSTANTS
  BatchMax = 2
  RetryMax = 1
  CacheMax = 1
  TrimEvery = 2
  QueueLeft = 2
  MaxRows = 6
  MaxBreaks = 0
  MaxCrashes = 1
  MaxDbErrors = 1
  MaxStops = 1
INVARIANTS
  CacheBounded
PROPERTIES
  TrimStopsAtLimit
