SPECIFICATION Spec
CONSTANTS
  Resumes = {r1, r2}
  Handlers = {h1}
  Relay = relay
  Nobody = nobody
  ReturnsCapacity = 1
  MaxInFlight = 2
INVARIANTS
  MarkedIsStored
  DatabaseOutlivesItsUsers
PROPERTY
  ShutdownEnds
CHECK_DEADLOCK FALSE
