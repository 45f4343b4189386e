SPECIFICATION FairSpec
CONSTANTS
  None = None
  Missing = Missing
  NotRegular = NotRegular
  NonText = NonText
  Garbled = Garbled
  Contents <- MCContents
  Length <- MCLength
  NotUtf8 = {}
  MaxTextBytes = 2
  MediaTypes <- MCMedia
  PlainText <- MCPlainText
  Scopes <- MCScopes
  Oversized = {"huge"}
  Requests <- MCRequests
  Policies <- MCPolicies
  Found <- MCFound
  InVault = {"short"}
  Budgets <- MCBudgets
INVARIANTS
  TypeOK
  AnswersTrue
  CapturedIsReadable
PROPERTIES
  CatchesUp
  Responds
CHECK_DEADLOCK FALSE
