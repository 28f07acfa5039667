\* server_2_select, and nonblock_srv_select_accept_busy which may do whatever it
\* does and more, with more clients than descriptors: entries and descriptors
\* are used up and used again.
SPECIFICATION Spec
CONSTANTS
  Clients = {c1, c2, c3}
  NOFILE = 6
  MaxSend = 1
  RcvWindow = 1
  AbortOutcomes = {"accepted", "reported"}
  Trouble = {"lost", "short"}
  FD_SETSIZE = 6
  SigintBlocked = FALSE
  AcceptChecked = FALSE
  StrayBit = 5
SYMMETRY ClientSymmetry
INVARIANTS TableConsistent FailureExplained
CHECK_DEADLOCK FALSE
