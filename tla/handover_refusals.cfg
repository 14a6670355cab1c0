SPECIFICATION Spec
CONSTANTS
  Resumes = {r1}
  Workers = {w1}
  Passes = {p1}
  Scanned = {}
  Scores = {s1}
  PublishLimit = 1
  MaxRetries = 0
  FaultKinds = {"crash", "channel", "publish", "store"}
  MaxFaults = 4
  MaxReplays = 1
INVARIANTS
  NoResumeLost
PROPERTIES
  AnsweredOrKept
CHECK_DEADLOCK FALSE
