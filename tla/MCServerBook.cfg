SPECIFICATION Spec
CONSTANTS
  school = school
  hotspot = hotspot
  jp = jp
  Networks = {school, hotspot}
  Servers = {jp}
  Logs <- PrintedLogs
  RetryAfter = 1
  MaxNow = 4
  MaxAttempts <- Bounds
INVARIANTS
  TypeOK
  BlockedForCause
  HoldMatchesRecord
  ProvenStaysWorking
PROPERTIES
  OtherNetworksUntouched
