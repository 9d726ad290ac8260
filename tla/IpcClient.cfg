SPECIFICATION FairSpec
CONSTANTS
  MaxRequests = 4
  MaxChunks = 3
  DaemonDies = TRUE
INVARIANTS
  ShownInOrder
  ReaderIsJoined
  OnlyCurrentIsPending
PROPERTY
  RequestReturns
CHECK_DEADLOCK FALSE
