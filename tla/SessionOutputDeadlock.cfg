SPECIFICATION FairSpec
CONSTANTS
  Clients = {c1}
  Reader = reader
  Exiter = exiter
  None = none
  Commands = {"attach", "input", "detach"}
  MaxChunks = 1
  FailedReads = TRUE
PROPERTY
  RequestsAnswered
CHECK_DEADLOCK FALSE
