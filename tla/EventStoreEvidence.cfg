SPECIFICATION Spec
CONSTANTS
  None = None
  fileA = fileA
  fileB = fileB
  watcher = watcher
  browser = browser
  EventIds <- MCEventIds
  Sources <- MCSources
  Identities <- MCIdentities
  Paths <- MCPaths
  NoCase <- MCNoCase
  DownloadIds <- MCDownloadIds
  Urls <- MCUrls
  Tasks = {"T"}
  Names = {"n1", "n2"}
  Tolerance = 1
  Engines = {agent}
  Inputs <- SpellingInputs
  InputsV2 = {}
  DerivedIds = {m1}
  ReconciledAt = {}
INVARIANTS
  CitedWithinTolerance
