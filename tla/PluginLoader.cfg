SPECIFICATION FairSpec
CONSTANTS
  Nodes = {n1}
  Proxies = {p1, p2}
  MaxRelease = 3
  Matching = {1, 3}
  MaxKills = 2
INVARIANTS
  ModulesAreMountable
PROPERTIES
  GetsThrough
