CONSTANTS
  d1 = d1
  d2 = d2
  Floating = Floating
  NoFile = NoFile
  Blank = Blank
  Refs <- MCRefs
  Repos <- MCRepos
  Uids <- MCUids
  Digests <- MCDigests
  RepoOf <- MCRepoOf
  UidOf <- MCUidOf
  Pin <- MCPin
  Rank <- MCRank
  ImageSets <- MCImageSets
  Workers = 2
  MaxRuns = 2
  MaxRetags = 1
  MaxKills = 1
SPECIFICATION Spec
INVARIANTS StructureOnlyIsTrue
CHECK_DEADLOCK FALSE
