SPECIFICATION Spec
CONSTANTS
  Tabs = {t1}
  SessionIds = {s1, s2}
  Calls = {c1}
  Exchanges = {e1, e2}
  MaxTokens = 3
  MaxMishaps = 1
SYMMETRY Symmetry
PROPERTY
  SignedOutStays
CHECK_DEADLOCK FALSE
