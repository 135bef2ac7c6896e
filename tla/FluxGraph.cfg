SPECIFICATION FairSpec
CONSTANTS
  Installed <- MCHadLonghorn
  MaxFaults = 1
INVARIANTS
  ReleasedInOrder
PROPERTIES
  Converges
CHECK_DEADLOCK FALSE
