SPECIFICATION SteerSpec
CONSTANTS
  jp = jp
  sg = sg
  us = us
  nl = nl
  none = none
  hop = hop
  query = query
  chore = chore
  Servers = {jp, sg, us, nl}
  Patterns = {{jp}, {us, nl}}
  Outages = {{}, {jp}}
  Endpointed = {jp, sg, us, nl}
  Hop = hop
  Readers = {query}
  Chore = chore
  None = none
CHECK_DEADLOCK FALSE
INVARIANTS
  PicksNamed
  Recoverable
PROPERTIES
  PutsBack
