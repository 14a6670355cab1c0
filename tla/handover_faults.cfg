SPECIFICATION Spec
CONSTANTS
  Resumes = {r1}
  Workers = {w1, w2}
  Passes = {p1, p2}
  Scanned = {}
  Scores = {s1}
  PublishLimit = 1
  MaxRetries = 1
  FaultKinds = {"crash", "channel", "publish", "store"}
  MaxFaults = 2
  MaxReplays = 0
INVARIANTS
  TypeOK
  NoResumeLost
  NoDuplicateRequests
  Agreement
PROPERTIES
  FirstAnswerStands
  ResultSettles
  AnsweredOrKept
CHECK_DEADLOCK FALSE
