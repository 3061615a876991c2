SPECIFICATION FairSpec
CONSTANTS
  OnCount = 3
  OffCount = 2
  MaxRun = 4
  Readings <- Limits
  MockSeqs <- Seqs
INVARIANTS
  LedOffWhenNormal
