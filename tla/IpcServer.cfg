SPECIFICATION Spec
CONSTANTS
  Workers = {w1, w2}
  Main = main
  CtrlThreads = {}
  ShutdownThreads = {}
  MaxClients = 2
  MaxSent = 3
  LineEnds <- MCLineEnds
  None = none
SYMMETRY WorkersAreAlike
INVARIANTS
  SingleOwner
  AtMostOneAcceptor
  NoByteLost
  NotifiedOnce
PROPERTIES
  AcceptingEndsByFailure
  ErasedWhenIdle
CHECK_DEADLOCK FALSE
