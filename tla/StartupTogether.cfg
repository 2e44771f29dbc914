CONSTANTS
  Proc = {p1, p2, p3}
  Together = TRUE
  MaxRuns = 4
SPECIFICATION Spec
INVARIANT OnlyOnce
