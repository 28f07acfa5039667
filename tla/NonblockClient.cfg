SPECIFICATION Spec
CONSTANTS
  MAXLINE = 2
  NBytes = 4
  SndBuf = 2
  RcvBuf = 1
  PipeBuf = 1
  ServerMayDie = TRUE
  Faults = {"stdin", "sock", "stdout"}
INVARIANTS TypeOK InOrder HalfCloseOnce SelectHasWork ExitExplained
PROPERTIES EveryByteEchoed EofTerminates UpRelay DownRelay
\* str_cli returns, and the process ends.
CHECK_DEADLOCK FALSE
