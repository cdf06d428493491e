SPECIFICATION Spec
CONSTANTS
  a1 = a1
  g1 = g1
  g2 = g2
  lax = lax
  strict = strict
  p1 = p1
  p2 = p2
  e1 = e1
  e2 = e2
  Ids <- MCIds
  Grants <- MCGrants
  Policies <- MCPolicies
  Publishers = {p1, p2}
  Executors = {e1, e2}
  approval_id <- MCApprovalId
  expires_at_ms <- MCExpires
  Permitted <- MCPermitted
  MaxTime = 1
  NoGrant = NoGrant
  NoOne = NoOne
SYMMETRY MCSymmetry
INVARIANTS
  TypeOK
  SingleUse
  RunsWhatWasApproved
  PublicationTruthful
PROPERTIES
  ImplementsLedger
CHECK_DEADLOCK FALSE
