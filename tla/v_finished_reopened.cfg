SPECIFICATION Safe
CONSTANTS
  Resumes = {r1}
  Workers = {w1, w2}
  Passes = {p1}
  Scanned = {}
  Scores = {s1}
  PublishLimit = 1
  MaxRetries = 1
  FaultKinds = {"crash"}
  MaxFaults = 1
  MaxReplays = 0
PROPERTY
  FinishedResultStands
CHECK_DEADLOCK FALSE
