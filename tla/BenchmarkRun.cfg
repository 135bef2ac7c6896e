CONSTANTS
  Roles <- const_Roles
  Rounds = 2
  MinRounds = 2
  MaxInvocations = 3
  MaxKills = 1
  MaxErrors = 1
  MaxEdits = 1
  MaxDays = 1
SPECIFICATION Spec
INVARIANTS
  SamplesAreSound
  AcceptedOnlyComplete
  LeftoversNeedInterruption
PROPERTIES
  NoSampleLost
  InvalidIsFinal
CHECK_DEADLOCK FALSE
