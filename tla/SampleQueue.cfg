SPECIFICATION FairSpec
CONSTANTS
  p1 = p1
  p2 = p2
  c1 = c1
  c2 = c2
  s1 = s1
  s2 = s2
  NoSample = NoSample
  Producers <- MCProducers
  Consumers <- MCConsumers
  Sample <- MCSample
  Capacity = 2
  MaxPushes = 4
INVARIANTS
  TypeOK
  Conservation
  NoLostWakeup
  NoSleepAfterShutdown
PROPERTIES
  ImplementsFifo
  ShutdownReleasesAll
