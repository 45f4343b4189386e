SPECIFICATION FairSpec
CONSTANTS
  None = None
  Files = {"f", "g", "h"}
  Folders = {"h"}
  Paths <- MCPaths
  Dirs <- MCDirs
  DirOf <- MCDirOf
  BufferSize = 2
  MaxChanges = 4
  MaxCrashes = 1
  QuietStartup = TRUE
INVARIANTS
  TypeOK
  RestMeansConverged
PROPERTIES
  RightLocationsStay
  Converges
CHECK_DEADLOCK FALSE
