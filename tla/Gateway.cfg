SPECIFICATION FairSpec
CONSTANTS
  QueueCap = 2
  MaxSamples = 5
  Modes = {"service", "test"}
INVARIANTS
  TypeOK
  StoredInOrder
  NoUseAfterClose
  SamplesAccounted
  RefusalsBounded
  LateSampleBounded
PROPERTIES
  ShutdownTerminates
CHECK_DEADLOCK FALSE
