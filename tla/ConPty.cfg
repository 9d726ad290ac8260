SPECIFICATION FairSpec
CONSTANTS
  MaxBytes = 7
  BufferSize = 3
  Continuations = {4, 6}
INVARIANTS
  NothingLeaks
  ClosedOnce
  OutputIsContiguous
PROPERTIES
  OnlySlippedReadIsLeft
  DestructorReturns
CHECK_DEADLOCK FALSE
