SPECIFICATION Spec
CONSTANTS
  Versions = {0, 1}
  PinnedImage <- MCPinnedImage
  SelfContained <- MCSelfContained
  Missing = Missing
  Torn = Torn
INVARIANTS
  PreparedRenders
CHECK_DEADLOCK FALSE
