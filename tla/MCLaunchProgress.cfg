SPECIFICATION FairSpec
CONSTANTS
  Launches = {l1, l2}
  Cameras = {front}
  Versions = {3}
  NONE = NONE
PROPERTIES
  OverlapEnds
  StopEnds
