SPECIFICATION Spec
CONSTANTS
  BatchMax = 2
  RetryMax = 2
  CacheMax = 0
  TrimEvery = 1
  QueueLeft = 0
  MaxRows = 1
  MaxBreaks = 1
  MaxCrashes = 0
  MaxDbErrors = 0
  MaxStops = 1
INVARIANT OutageLosesNoRow
