SPECIFICATION FairSpec
CONSTANTS
  Installed <- MCFresh
  MaxFaults = 0
PROPERTY
  FollowsDependencies
CHECK_DEADLOCK FALSE
