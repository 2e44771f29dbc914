CONSTANTS
  Half = 16
  Reach = 14
  Above = 9
  Granularity = 2
  JmpSize = 2
  LongJmp = 4
  MaxIns = 3
  StubAt = 2
  CodeAt = 3
  MaxCode = 6
  Addr <- MCAddr
  Func <- MCFunc
  Hook <- MCHook
  Disp <- MCDisp
SPECIFICATION Spec
INVARIANTS TypeOK RipSurvives TrampolineNear NearestBlock
CHECK_DEADLOCK FALSE
