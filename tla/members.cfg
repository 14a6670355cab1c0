SPECIFICATION Spec
CONSTANTS
  MemberIds = {m1, m2, m3}
  Emails = {e1, e2, e3}
  Seed = m1
  Calls = {c1, c2}
INVARIANTS
  AdminRemains
PROPERTIES
  RemovedStays
  EveryCallEnds
