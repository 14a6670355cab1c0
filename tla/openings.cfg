SPECIFICATION Spec
CONSTANTS
  Openings = {o1, o2}
  CriteriaSets = {k1, k2}
  Batches = {b1}
  Resumes = {r1, r2}
  Calls = {c1, c2}
  Shared = {o2}
SYMMETRY Symmetry
INVARIANTS
  OutcomeIffClosed
  RecordedHasFile
PROPERTIES
  ClosedStays
  KeepsPromise
CHECK_DEADLOCK FALSE
