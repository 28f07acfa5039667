\* Two clients are enough for every order of two accepts, two workers and two
\* SIGCHLDs that become one; one goes on reading, and one may leave off.
SPECIFICATION Spec
CONSTANTS
  Clients = {c1, c2}
  Readers = {c1}
  Programs = {"echo", "greet", "nul", "string", "sum", "value", "heap"}
  MaxSend = 2
  Brief = {c2}
  Window = 1
INVARIANTS EchoFaithful ResourcesOwned NoZombieForgotten
PROPERTIES FinishedClientsLeaveNothing
\* The server stops at SIGINT or err_sys, and clients need not come.
CHECK_DEADLOCK FALSE
