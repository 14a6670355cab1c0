SPECIFICATION Spec
CONSTANTS
  Guides = {g1, g2}
  GuideIds = {i1, i2}
  Texts = {t1, t2}
  MaxQuestions = 2
  MaxRevision = 3
  Calls = {c1, c2}
  Shared = {g2}
SYMMETRY Symmetry
CONSTRAINT OneGuideAtATime
INVARIANTS
  AttributedToItsAuthor
  NotesBelong
PROPERTIES
  OneGuide
  NotesKept
CHECK_DEADLOCK FALSE
