SPECIFICATION Spec
CONSTANTS
  MemberIds = {m1, m2}
  SessionIds = {s1, s2}
  Calls = {c1, c2}
  Shared = {m2}
  MaxTokens = 3
  MaxPasswords = 2
SYMMETRY Symmetry
CONSTRAINT OneMemberAtATime
INVARIANTS
  OneTokenLeft
  RevokedHasNoToken
  SessionsAreCurrent
  CallsGoOn
PROPERTY
  KeepsPromise
CHECK_DEADLOCK FALSE
