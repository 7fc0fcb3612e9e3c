SPECIFICATION FairSpec
CONSTANTS
  self = self
  other = other
  Pids = {self, other}
  NoPid = NoPid
  Self = self
  Other = other
  Tasks <- MCTasks
  Header <- MCHeader
  Archives <- MCArchives
  Expected = "r"
  Reports <- MCReports
  MaxExtract = 4
  Chunk = 2
  MaxHosts = 2
  Sites <- MCSites
  BaseUrl <- B
  Depths = {1, 2, 3}
  ArtifactNames = {"z"}
  SignatureNames = {"z.asc"}
  SortingPieces = {"?C"}
  Loads <- MCLoads
  MaxStoreFaults = 2
  MaxStops = 1
INVARIANTS TypeOK DiskWithinLimit ToolSeesTheArchive NothingLeftBehind CompletedIsDeserved UsualHeaderPasses CopiesAreWhole CrawlIsExact
PROPERTIES ProgressIsOurs TasksEnd
CHECK_DEADLOCK FALSE
