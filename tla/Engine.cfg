CONSTANTS
  NONE = NONE
  main = main
  Caller = {main, exc}
  Worker = {w1}
  Func = {f1}
  MaxTries = 1
  MaxCalls = 2
  DllMainHooks = TRUE
SPECIFICATION FairSpec
INVARIANTS TypeOK MutualExclusion OnlyAdmittedEscape NoneLeftSuspended
PROPERTY CallsReturn
CHECK_DEADLOCK FALSE
