SPECIFICATION FairSpec
CONSTANTS
  None = None
  Rows <- MCRows
  Texts = {"a", "b", "long"}
  NoText = "none"
  TooLong = {"long"}
  Starts = {0, 2}
  Overlap = 2
  MaxResults = 2
  Breakable = {2}
  MaxCrashes = 1
  Steady = TRUE
INVARIANTS
  TypeOK
  EachFrameOnce
  NoFrameSkipped
  RefsInVault
PROPERTIES
  Captured
CHECK_DEADLOCK FALSE
