\* One click, and a signal at any moment.
CONSTANTS
  Ids = {i1}
  Requests = {r1}
  ChanCap = 2
  CleanEvery = 2
  Minute = 1
SPECIFICATION Spec
INVARIANT ShutdownDrains
CHECK_DEADLOCK FALSE
