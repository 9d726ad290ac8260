SPECIFICATION ReadSpec
CONSTANTS
  Line <- MCLine
  EmptyLine = ""
  Chunks <- MCChunks
  MaxSize = 3
  Limits = {0, 2}
INVARIANTS
  CursorFollowsCount
  QuietReadIsRecent
  FillingReadIsWhole
PROPERTY
  RefinesBoundedHistory
