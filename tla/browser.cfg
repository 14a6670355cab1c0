SPECIFICATION Spec
CONSTANTS
  Tabs = {t1, t2}
  SessionIds = {s1, s2}
  Calls = {c1, c2}
  Exchanges = {e1, e2}
  MaxTokens = 3
  MaxMishaps = 1
SYMMETRY Symmetry
INVARIANTS
  TokenUsedOnce
  CallsAsShown
  NobodyIsForgotten
CHECK_DEADLOCK FALSE
