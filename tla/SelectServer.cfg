\* server_2_pselect, with time for two clients to fill their windows.
SPECIFICATION Spec
CONSTANTS
  Clients = {c1, c2}
  NOFILE = 6
  MaxSend = 2
  RcvWindow = 1
  AbortOutcomes = {"dequeued", "accepted", "reported"}
  Trouble = {"lost", "short"}
  FD_SETSIZE = 6
  SigintBlocked = TRUE
  AcceptChecked = TRUE
  StrayBit = 5
INVARIANTS TypeOK NreadyExact EchoesOwnBytes CleanExit StuckOnlyByAbort
PROPERTIES EveryByteServed
\* The server stops at SIGINT or err_sys, and clients need not come.
CHECK_DEADLOCK FALSE
