SPECIFICATION Spec
CONSTANTS
  Resumes = {r1, r2}
  Handlers = {h1}
  Relay = relay
  Nobody = nobody
  ReturnsCapacity = 1
  MaxInFlight = 2
PROPERTY
  ReconnectsByItself
CHECK_DEADLOCK FALSE
