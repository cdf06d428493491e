SPECIFICATION Spec
CONSTANTS
  x1 = x1
  x2 = x2
  Foreign = {x1, x2}
  MaxEdits = 3
  MaxFaults = 2
INVARIANTS
  TypeOK
  OneDisturbanceIsSafe
  AppliedOnlyOverReviewed
CHECK_DEADLOCK FALSE
