SPECIFICATION Spec
CONSTANTS
  Resumes = {r1, r2}
  Workers = {w1}
  Passes = {p1}
  Scanned = {r2}
  Scores = {s1}
  PublishLimit = 1
  MaxRetries = 1
  FaultKinds = {"crash", "channel", "publish"}
  MaxFaults = 1
  MaxReplays = 1
PROPERTIES
  KeepsPromise
CHECK_DEADLOCK FALSE
