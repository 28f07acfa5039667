\* recvline and the socket's buffers hold two units, and five lines are typed: some
\* reads fill recvline, and some leave a unit of an earlier one in it.
SPECIFICATION Spec
CONSTANTS
  Programs = {"tcpcli2", "connect"}
  MaxLines = 5
  MAXLINE = 2
  Cap = 2
  Faults = {"stdin", "stdout", "sock"}
INVARIANTS OutputExplained EndsExplained
PROPERTIES BothEnd
\* The client ends, and one of its processes may wait for ever.
CHECK_DEADLOCK FALSE
