SPECIFICATION Spec
CONSTANTS
  MAXLINE = 2
  NBytes = 2
  SndBuf = 1
  RcvBuf = 1
  PipeBuf = 1
  ServerMayDie = FALSE
  Faults = {}
INVARIANTS NormalTerminationIsComplete
CHECK_DEADLOCK FALSE
