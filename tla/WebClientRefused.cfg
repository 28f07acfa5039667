SPECIFICATION Spec
CONSTANTS
  nfiles = 2
  maxnconn = 2
  NAddrs = 1
  MaxReply = 1
  ServersFail = TRUE
INVARIANT FailedConnectIsNonfatal
CHECK_DEADLOCK FALSE
