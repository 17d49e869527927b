SPECIFICATION Spec
CONSTANTS
  alice = alice
  hook = hook
  timer = timer
  nobody = nobody
  home = home
  cafe = cafe
  offline = offline
  nowhere = nowhere
  Users = {alice}
  Script = hook
  Watch = timer
  NoProc = nobody
  Networks = {home, cafe}
  Offline = offline
  NoNetwork = nowhere
  Listed = {}
  Never = {}
  Targets = {home}
  DownHolds = TRUE
  Attempts = 2
INVARIANTS
  TypeOK
  LicensedWhereAsked
PROPERTIES
  CarryingLeftAlone
  RestingDownStays
  LockedDownLands
