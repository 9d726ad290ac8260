SPECIFICATION SendFairSpec
CONSTANTS
  w1 = w1
  Workers = {w1}
  Main = main
  k1 = k1
  CtrlThreads = {k1}
  s1 = s1
  ShutdownThreads = {s1}
  MaxClients = 1
  MaxSent = 2
  LineEnds <- MCLineEnds
  None = none
  p1 = p1
  Senders = {p1}
  MaxEvents = 1
INVARIANTS
  OwnedIsPresent
  TextOutlivesWrite
PROPERTIES
  FreedWhenWritten
  StopTerminates
  PendingReadNotices
  RequestsAreHandled
CHECK_DEADLOCK FALSE
