CONSTANTS
  f1 = f1
  f2 = f2
  i1 = i1
  i2 = i2
  NULL = NULL
  Func = {f1, f2}
  HookFn = {h1, h2, h3}
  Thunk = {i1, i2}
  Lead <- MCLead
SPECIFICATION Spec
INVARIANT UnhookRemoves
CHECK_DEADLOCK FALSE
