SPECIFICATION Spec
CONSTANTS
  x1 = x1
  x2 = x2
  Foreign = {x1, x2}
  MaxEdits = 2
  MaxFaults = 0
INVARIANT ForeignFilesKept
CHECK_DEADLOCK FALSE
