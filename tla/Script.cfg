SPECIFICATION FairSpec
CONSTANTS
  Shells = {a, b}
  MaxProcs = 4
  Polls = 2
  MaxCommands = 4
  MaxOverlaps = 2
  MaxAborts = 1
INVARIANTS
  TypeOK
  GatewaysWithinOverlaps
  PidfileNamesGateway
PROPERTIES
  StopEndsGateway
