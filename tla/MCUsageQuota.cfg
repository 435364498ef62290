SPECIFICATION Spec
CONSTANTS
  Requests = {r1, r2, r3}
  Limits = {0, 1, 2}
  Window = 3
  MaxSpan = 1
  MaxTime = 5
SYMMETRY Symmetry
INVARIANTS
  CountWithinLimit
  OverrunBounded
