SPECIFICATION FairSpec
CONSTANTS
  Quantity = 1
  ReadSize = 256
  MaxRounds = 6
  MaxFaults <- TwoFaults
INVARIANTS
  TypeOK
  FramesProtected
  DamageRefused
  MocksWithinFaults
PROPERTIES
  ReadingsAdvance
  LagWithinFaults
  CollectStops
