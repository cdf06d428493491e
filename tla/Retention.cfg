SPECIFICATION Spec
CONSTANTS
  p1 = p1
  p2 = p2
  s1 = s1
  s2 = s2
  Promoters = {p1, p2}
  Sweepers = {s1}
  MaxFaults = 2
  MaxCrashes = 2
  MaxEdits = 1
SYMMETRY PromoterSymmetry
INVARIANTS
  TypeOK
  OneHolder
  AppliedOnce
  LockedIsInspectable
  OutcomeIsTruthful
CHECK_DEADLOCK FALSE
