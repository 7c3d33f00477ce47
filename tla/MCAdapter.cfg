SPECIFICATION FairSpec
CONSTANTS
  Clients = {c1, c2}
  Cleanup = Cleanup
  Stopper = Stopper
INVARIANTS
  TypeOK
  NoIdleFeed
PROPERTIES
  HandlerEnds
  StopEnds
CHECK_DEADLOCK FALSE
