SPECIFICATION FairSpec
CONSTANTS
  p1 = p1
  p2 = p2
  s1 = s1
  s2 = s2
  Promoters = {p1}
  Sweepers = {s1}
  MaxFaults = 0
  MaxCrashes = 0
  MaxEdits = 0
PROPERTIES
  SweepProgress
CHECK_DEADLOCK FALSE
