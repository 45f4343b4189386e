SPECIFICATION FairSpec
CONSTANTS
  None = None
  Records <- MCRecords
  Scopes <- MCScopes
  Queries <- MCQueries
  Policies <- MCPolicies
  MaxPage = 3
  RawBatch = 2
  MaxScan = 3
  MaxRefs = 3
  WireBudget = 3
INVARIANTS
  TypeOK
  Descending
  Complete
  WithinGrant
  FailsForCause
PROPERTIES
  Terminates
CHECK_DEADLOCK FALSE
