CONSTANTS
  r1 = r1
  r2 = r2
  r3 = r3
  near = near
  far = far
  other = other
  NULL = NULL
  Func = {near, far, other}
  Region = {r1, r2, r3}
  PerBlock = 2
  Reach <- DistantWindows
SPECIFICATION Spec
INVARIANT WalksOwnList
