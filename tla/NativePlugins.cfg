SPECIFICATION PluginsSpec
CONSTANTS
  Versions = {0, 1}
  Commands = {gcc, clang}
  Missing = Missing
  Torn = Torn
  None = None
  gcc = gcc
  clang = clang
  PinnedImage <- MCPinnedImage
  SelfContained <- MCSelfContained
  MaxEdits = 2
  MaxBundleEdits = 3
  EnvoyHosts <- MCEnvoyHosts
  EnvoyIntervals <- MCEnvoyIntervals
  EnvoyDecimal <- MCEnvoyDecimal
  UsualHost <- MCUsualHost
  NginxHosts <- MCNginxHosts
  NginxTimes <- MCNginxTimes
  NginxDecimal <- MCNginxDecimal
  PlainHost <- MCPlainHost
  MaxStates = 3
INVARIANTS
  ManifestIsTrue
  IndependentVerify
  OneBuild
  OneBundle
  BundleIsTrue
  BuffersSuffice
  FieldsTellTheTruth
CHECK_DEADLOCK FALSE
