SPECIFICATION FairSpec
CONSTANTS
  Sessions = {s1}
  s1 = s1
  Workers = {w1, w2}
  w1 = w1
  w2 = w2
  Requests = {"new", "kill", "rename"}
  CanExit = TRUE
  MaxRestarts = 1
  Empty = Empty
  Mixed = Mixed
INVARIANTS
  NoOrphanShell
  NoDanglingSession
PROPERTY
  ExitReleasesPty
CHECK_DEADLOCK FALSE
