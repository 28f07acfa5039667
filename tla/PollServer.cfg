\* More clients than descriptors: they are used up and used again.
SPECIFICATION Spec
CONSTANTS
  Clients = {c1, c2, c3}
  NOFILE = 6
  MaxSend = 1
  RcvWindow = 1
  AbortOutcomes = {"dequeued", "accepted", "reported"}
  Trouble = {"lost", "short"}
  OpenMax = 6
SYMMETRY ClientSymmetry
INVARIANTS TypeOK EntriesMatchFiles ReadsOnlyReady ResetIsContained
\* The server stops at err_sys, and clients need not come.
CHECK_DEADLOCK FALSE
