SPECIFICATION Safe
CONSTANTS
  Resumes = {r1}
  Workers = {w1}
  Passes = {p1}
  Scanned = {}
  Scores = {s1}
  PublishLimit = 1
  MaxRetries = 1
  FaultKinds = {"store"}
  MaxFaults = 2
  MaxReplays = 1
INVARIANT
  ScoresCarryCandidate
CHECK_DEADLOCK FALSE
