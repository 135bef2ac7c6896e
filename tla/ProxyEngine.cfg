SPECIFICATION EngineSpec
CONSTANTS
  Pods = {p1, p2}
  MaxFetches = 2
  MaxErrors = 1
  MaxDeaths = 1
  Nobody = Nobody
  Dead = Dead
  SubLists <- MCSubLists
  Answers <- MCAnswers
  RetryLimit = 2
  Groups <- MCGroups
  Strict = {"US"}
  Selected <- MCSelected
INVARIANTS
  TypeOK
  VolumeIsClean
  FilesAgree
  NoFallbackOnlyAtFirst
  GuardsOwnAddress
  ConfigIsUsable
  NothingLost
PROPERTIES
  OutputFollowsLastGood
  ImplementsStore
  CacheKeepsPodsStarting
CHECK_DEADLOCK FALSE
