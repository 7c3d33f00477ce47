SPECIFICATION Spec
CONSTANTS
  LastTest = 3
  TestDuration = 1
  RecoveryDuration = 1
  FatalOutage = 1
  DataTimeout = 1
  Callers = {c1}
  MaxGeneration = 1
  NONE = NONE
PROPERTIES
  ContinueOnlyAfterLowBattery
