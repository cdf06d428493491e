CONSTANTS
  Readers = {r1}
  Sweepers = {s1}
  MaxOutput = 2
  ChunkBytes = 1
  ModelBudget = 1
  MaxFaults = 1
  MaxCrashes = 1
SPECIFICATION FairSpec
INVARIANTS
  TypeOK
  PollsTruthful
  ReceiptComplete
PROPERTIES
  PollerEnds
  ManifestSwept
