CONSTANTS
  Proc = {p1, p2, p3}
  Together = FALSE
  MaxRuns = 4
SPECIFICATION Spec
INVARIANTS TypeOK OnlyOnce PathsComplete
