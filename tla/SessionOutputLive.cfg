SPECIFICATION FairSpec
CONSTANTS
  c1 = c1
  Clients = {c1}
  Reader = reader
  Exiter = exiter
  None = none
  Commands = {"attach", "input", "detach"}
  MaxChunks = 2
  FailedReads = FALSE
INVARIANT
  OutputsInOrder
PROPERTIES
  RequestsAnswered
  ExitAnnounced
CHECK_DEADLOCK FALSE
