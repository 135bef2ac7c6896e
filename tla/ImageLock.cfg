CONSTANTS
  d1 = d1
  d2 = d2
  Floating = Floating
  NoFile = NoFile
  Blank = Blank
  Refs <- MCRefs
  Repos <- MCRepos
  Uids <- MCUids
  Digests <- MCDigests
  RepoOf <- MCRepoOf
  UidOf <- MCUidOf
  Pin <- MCPin
  Rank <- MCRank
  ImageSets <- MCImageSets
  Workers = 2
  MaxRuns = 2
  MaxRetags = 1
  MaxKills = 1
  None = None
  MapImages <- MCMapImages
  Labels <- MCLabels
  Directories <- MCDirectories
  MapInputs <- MCMapInputs
  Words <- MCWords
  Written <- MCWritten
  MirrorMaps <- MCMirrorMaps
  Dotted <- MCDotted
  Ports <- MCPorts
  CraneDigest <- MCDigest
  PortNumber <- MCNumber
  NSources = 3
  MirrorRetries = 3
SPECIFICATION GeneratorSpec
INVARIANTS
  LockIsTrue
  CacheWhole
  FailsForAReason
  MapIsTrue
  OrderIsIrrelevant
  OneFileOneArchive
  NamesAreDockers
  LoopsInBounds
  OutputIsTheImage
  FailsOnlyExhausted
PROPERTIES
  FailedRunsKeepLock
CHECK_DEADLOCK FALSE
