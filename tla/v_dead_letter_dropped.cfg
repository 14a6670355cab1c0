SPECIFICATION Safe
CONSTANTS
  Resumes = {r1}
  Workers = {w1}
  Passes = {p1}
  Scanned = {}
  Scores = {s1}
  PublishLimit = 1
  MaxRetries = 1
  FaultKinds = {"publish", "store"}
  MaxFaults = 2
  MaxReplays = 0
INVARIANT
  AckedIsSafe
CHECK_DEADLOCK FALSE
