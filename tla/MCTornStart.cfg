SPECIFICATION Spec
CONSTANTS
  LastTest = 2
  TestDuration = 2
  RecoveryDuration = 1
  FatalOutage = 2
  DataTimeout = 1
  Callers = {}
  MaxGeneration = 1
  NONE = NONE
INVARIANTS
  ManualPauseExcluded
