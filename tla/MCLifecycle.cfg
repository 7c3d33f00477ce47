SPECIFICATION Spec
CONSTANTS
  LastTest = 3
  TestDuration = 2
  RecoveryDuration = 2
  FatalOutage = 2
  DataTimeout = 1
  Callers = {c1}
  MaxGeneration = 1
  NONE = NONE
INVARIANTS
  TypeOK
  PhaseLedger
  RecoveryHasDeadline
  RunnerPresent
  ElapsedIsActiveTime
  OutageNeverOvercounted
PROPERTIES
  ImplementsLifecycle
  RecoveryIsFull
  NoTestSkippedByTimer
  ManualStopSticks
