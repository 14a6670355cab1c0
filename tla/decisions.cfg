SPECIFICATION Spec
CONSTANTS
  Resumes = {r1, r2}
  Scores = {40, 90, 101}
  Calls = {c1, c2}
  Shared = {r2}
SYMMETRY Symmetry
INVARIANTS
  OnlyScreenedAreDecided
PROPERTIES
  AnswerStands
  DecisionStands
CHECK_DEADLOCK FALSE
