CONSTANTS
  Descendants = {d1}
  Processes = 1
  OutputLimit = 1
  PipeCapacity = 1
  MaxFaults = 0
SPECIFICATION FairSpec
PROPERTY DeadlineReturns
CHECK_DEADLOCK FALSE
