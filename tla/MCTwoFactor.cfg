\* Two requests at once; a statement may fail or the process die.
SPECIFICATION Spec
CONSTANTS
  Requests = {r1, r2}
  Batches = {b1, b2, b3}
  Codes = {c1, c2}
  NoBatch = NoBatch
  MaxFailures = 1
  MaxUses = 3
SYMMETRY Symmetry
INVARIANTS CodesGoWithSecret ReuseBounded
PROPERTIES AnswersHold
