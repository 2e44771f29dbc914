CONSTANTS
  NONE = NONE
  main = main
  Caller = {main, exc}
  Worker = {w1}
  Func = {f1}
  MaxTries = 1
  MaxCalls = 2
  DllMainHooks = FALSE
SPECIFICATION Spec
INVARIANT MutualExclusion
CHECK_DEADLOCK FALSE
