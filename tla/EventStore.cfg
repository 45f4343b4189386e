SPECIFICATION Spec
CONSTANTS
  None = None
  fileA = fileA
  fileB = fileB
  watcher = watcher
  browser = browser
  EventIds <- MCEventIds
  Sources <- MCSources
  Identities <- MCIdentities
  Paths <- MCPaths
  NoCase <- MCNoCase
  DownloadIds <- MCDownloadIds
  Urls <- MCUrls
  Tasks = {"T"}
  Names = {"n1", "n2"}
  Tolerance = 1
  Engines = {agent, cli}
  Inputs <- StoreInputs
  InputsV2 <- CheckpointInputsV2
  DerivedIds = {m1, m2}
  ReconciledAt = {0, 5}
CONSTRAINT OneWorkload
SYMMETRY Interchangeable
INVARIANTS
  TypeOK
  UniqueIds
  OneActiveLocation
  EdgesCited
  EdgesSupported
  Witnessed
  MatchedHasEdge
  OneMatchPerDownloadEvent
  EitherOrderMatched
  Rebuildable
  CheckpointCoversLog
PROPERTIES
  RawEventsImmutable
