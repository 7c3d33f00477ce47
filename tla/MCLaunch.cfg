SPECIFICATION Spec
CONSTANTS
  Launches = {l1, l2}
  Cameras = {front, back}
  Versions = {0, 1, 2, 3, 4}
  NONE = NONE
INVARIANTS
  TypeOK
  StoreReadable
  SchemaAgrees
  NoAdapterLeftBehind
PROPERTY
  CameraRemembered
