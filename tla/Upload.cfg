SPECIFICATION FairSpec
CONSTANTS
  BatchMax = 2
  RetryMax = 2
  CacheMax = 0
  TrimEvery = 1
  QueueLeft = 1
  MaxRows = 3
  MaxBreaks = 1
  MaxCrashes = 1
  MaxDbErrors = 1
  MaxStops = 1
INVARIANTS
  TypeOK
  AtMostOncePerFault
  UploadedIsDelivered
  RetryWithinOutages
  DrainLeavesNothing
PROPERTIES
  FirstCopiesInOrder
  RowsSettle
  UploaderStops
  ImplementsLedger
