SPECIFICATION VerifyFairSpec
CONSTANTS
  Windows = {1, 6}
  CheckEvery = 2
  Confirm = 2
  InFlight = 2
  Uplinks <- Seen
CHECK_DEADLOCK FALSE
INVARIANTS
  VerifyTypeOK
  LinkDownEarned
PROPERTIES
  VerdictComes
