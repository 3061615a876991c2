SPECIFICATION Spec
CONSTANTS
  BatchMax = 2
  RetryMax = 1
  CacheMax = 1
  TrimEvery = 2
  QueueLeft = 0
  MaxRows = 3
  MaxBreaks = 1
  MaxCrashes = 0
  MaxDbErrors = 0
  MaxStops = 0
PROPERTY TrimPrefersUploaded
