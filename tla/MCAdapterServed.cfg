SPECIFICATION Spec
CONSTANTS
  Clients = {c1, c2}
  Cleanup = Cleanup
  Stopper = Stopper
INVARIANTS
  ConsumerIsServed
CHECK_DEADLOCK FALSE
