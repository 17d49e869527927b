SPECIFICATION HopFairSpec
CONSTANTS
  jp = jp
  sg = sg
  us = us
  none = none
  Servers = {jp, sg, us}
  NoServer = none
  Proven = {jp}
  Direct = {jp, sg}
  WrittenOff = {}
  FastCandidates = 0
  QuietLimit = 1
  Blind = 1
  MaxAttempts = 1
  HopAttempts = 2
  Wants <- Asks
CHECK_DEADLOCK FALSE
INVARIANTS
  HopLandsAsAsked
  HopLeavesNothing
PROPERTIES
  HopFinishes
