SPECIFICATION Spec
CHECK_DEADLOCK FALSE
CONSTANTS
  Databases = {"d1", "d2"}
  First = "d1"
  LastOffset = 1
  MaxActions = 4
  MaxPending = 2
  MaxRestarts = 1
INVARIANTS TypeOK ServedIsPinned ScreenTruthful NothingOverwritten
PROPERTIES AnswerFollowsLastClick ImplementsHistory Settles
