SPECIFICATION Spec
CONSTANTS
  SizeOf <- MCSizeOf
  Folding <- MCFolding
  Sessions <- MCSessions
  Requests <- MCRequests
  Replacement <- MCReplacement
  Offsets <- MCOffsets
  MaxBundle = 7
  MaxFiles = 3
  MaxPath = 2
  MaxArtifact = 4
  MaxReport = 1
  Int64 = 8
  MaxObjects = 3
  MaxColumns = 3
  MaxForeignKeys = 2
  MaxFilters = 2
  MaxOrder = 2
  MaxOffset = 2
  MaxLimit = 2
  MaxRows = 3
  MaxGrouping = 2
  MaxCategories = 3
  MaxEdges = 2
  MaxKeys = 2
  Report <- MCReport
  Product <- MCProduct
  Data <- MCData
  Words <- MCWords
  Lines <- MCLines
  Elements <- MCElements
  MaxRecords = 2
  MaxObservations = 2
  MaxNumber = 2
  MaxDepth = 4
  MaxCases = 2
  MaxEdits = 2
  MaxElements = 6
INVARIANTS
  TypeOK
  ArchivesTrusted
  ReadersAttribute
  ComparisonFair
  NoCaseHidden
  AnswersComplete
  ShownCanBeFollowed
  QuestionsAgree
  SummariesExact
CHECK_DEADLOCK FALSE
