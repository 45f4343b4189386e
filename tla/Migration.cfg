SPECIFICATION FairSpec
CONSTANTS
  None = None
  Openers = {"agent", "second", "cli"}
  Events = {"file", "note", "late"}
  Files = {"file"}
  Local <- MCLocal
  Offset <- MCOffset
  ScopeOf <- MCScopeOf
  Unscoped = ""
  Releases = {1, 2, 3}
  StartVersions = {0, 1, 2, 3, 4, 5}
  MaxCrashes = 2
INVARIANTS
  VersionTellsSchema
  KeysComplete
PROPERTIES
  Opens
CHECK_DEADLOCK FALSE
