SPECIFICATION Spec
CONSTANTS
  None = None
  Files = {"f", "g", "h"}
  Folders = {"h"}
  Paths <- MCPaths
  Dirs <- MCDirs
  DirOf <- MCDirOf
  BufferSize = 2
  MaxChanges = 2
  MaxCrashes = 0
  QuietStartup = FALSE
INVARIANT
  RestMeansConverged
CHECK_DEADLOCK FALSE
