CONSTANTS
  Descendants = {d1}
  Processes = 1
  OutputLimit = 1
  PipeCapacity = 1
  MaxFaults = 1
SPECIFICATION Spec
INVARIANT AttestedIsInstalled
CHECK_DEADLOCK FALSE
