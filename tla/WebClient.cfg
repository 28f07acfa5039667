SPECIFICATION Spec
CONSTANTS
  nfiles = 3
  maxnconn = 2
  NAddrs = 2
  MaxReply = 1
  ServersFail = TRUE
INVARIANTS TypeOK CountersAgree SetsAgree FetchedWhole
PROPERTIES AlwaysEnds PoolSpec
CHECK_DEADLOCK FALSE
