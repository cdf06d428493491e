CONSTANTS
  Descendants = {d1}
  Processes = 1
  OutputLimit = 1
  PipeCapacity = 1
  MaxFaults = 1
SPECIFICATION FairSpec
INVARIANTS
  TypeOK
  OutputTruthful
  NothingLeft
  LimitsHeld
  ReceivedIsForwarded
PROPERTY Returns
CHECK_DEADLOCK FALSE
