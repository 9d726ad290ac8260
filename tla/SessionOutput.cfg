SPECIFICATION Spec
CONSTANTS
  Clients = {c1, c2}
  Reader = reader
  Exiter = exiter
  None = none
  Commands = {"attach", "input", "detach"}
  MaxChunks = 1
  FailedReads = TRUE
SYMMETRY ClientsAreAlike
INVARIANTS
  NoOutputMissed
  ExitIsLast
  NothingAfterDetach
CHECK_DEADLOCK FALSE
