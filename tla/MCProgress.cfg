SPECIFICATION FairSpec
CONSTANTS
  LastTest = 2
  TestDuration = 1
  RecoveryDuration = 1
  FatalOutage = 2
  DataTimeout = 1
  Callers = {}
  MaxGeneration = 1
  NONE = NONE
PROPERTIES
  SnapshotTestEnds
  RestEnds
  SilentStreamEnds
