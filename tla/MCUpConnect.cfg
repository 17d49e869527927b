SPECIFICATION FairSpec
CONSTANTS
  jp = jp
  sg = sg
  us = us
  nl = nl
  none = none
  Servers = {jp, sg, us, nl}
  NoServer = none
  Proven = {jp, sg}
  Direct = {jp, sg, nl}
  WrittenOff = {}
  FastCandidates = 1
  QuietLimit = 2
  Blind = 2
  MaxAttempts = 3
CHECK_DEADLOCK FALSE
INVARIANTS
  TypeOK
  HonestSuccess
  NothingLeftBehind
  NeverBackToBlamed
PROPERTIES
  CertBlamesNobody
  Finishes
