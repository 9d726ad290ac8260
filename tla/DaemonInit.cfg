SPECIFICATION Spec
CONSTANTS
  Absent = Absent
  Empty = Empty
  NoFile = NoFile
  Garbage = Garbage
  Commands = {c1, c2}
  c1 = c1
  c2 = c2
  Inits = {i1}
  i1 = i1
  Daemons = {d1, d2}
  d1 = d1
  d2 = d2
  UserConfigs <- MCUserConfigs
  Attempts = 2
INVARIANT
  InitMakesLoadable
CHECK_DEADLOCK FALSE
