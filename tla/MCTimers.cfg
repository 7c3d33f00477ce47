SPECIFICATION FairSpec
CONSTANTS
  SnapshotInterval = 3
  BatteryInterval = 5
  CheckpointInterval = 4
  MeasurementInterval = 6
  Duration = 25
  MaxCall = 7
  MaxLate = 2
INVARIANTS
  TypeOK
  PollIsPrompt
  EndIsPrompt
PROPERTIES
  NoCatchUp
  TestEnds
