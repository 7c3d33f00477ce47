SPECIFICATION Spec
CONSTANTS
  LastTest = 2
  TestDuration = 1
  RecoveryDuration = 1
  FatalOutage = 1
  DataTimeout = 1
  Callers = {}
  MaxGeneration = 1
  NONE = NONE
INVARIANTS
  OneFinalOutcome
