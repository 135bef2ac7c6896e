SPECIFICATION FairSpec
CONSTANTS
  Images = {i1, i2}
  Runs = {nightly, manual}
  Scheduled = nightly
  MaxMoves = 1
  MaxStarts = 1
  MaxFaults = 1
INVARIANTS
  GreenIsMerged
PROPERTIES
  NeverOlder
  Converges
