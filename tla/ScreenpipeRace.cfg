SPECIFICATION Spec
CONSTANTS
  None = None
  Rows <- MCRows
  Texts = {"a", "b", "long"}
  NoText = "none"
  TooLong = {"long"}
  Starts = {0}
  Overlap = 2
  MaxResults = 2
  Breakable = {}
  MaxCrashes = 0
  Steady = FALSE
INVARIANT
  NoFrameSkipped
CHECK_DEADLOCK FALSE
