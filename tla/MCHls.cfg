SPECIFICATION FairSpec
CONSTANTS
  Runs = {r1, r2}
  App = App
  Procs = {p1, p2}
  None = None
INVARIANTS
  TypeOK
  OneStreamClient
  OneFfmpegIsFed
  NoStrayFfmpeg
PROPERTIES
  StopEnds
  FailureIsRetried
CHECK_DEADLOCK FALSE
