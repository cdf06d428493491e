CONSTANTS
  Descendants = {d1}
  Processes = 1
  OutputLimit = 1
  PipeCapacity = 1
  MaxFaults = 0
SPECIFICATION Spec
INVARIANT NothingEscapes
CHECK_DEADLOCK FALSE
