SPECIFICATION Spec
CONSTANTS
  jp = jp
  sg = sg
  nl = nl
  us = us
  None = None
  Torn = Torn
  Best = Best
  Servers = {jp, sg, nl, us}
  List <- ProtonsOrder
  Logical <- Lines
  MaxTier = 0
  Asked <- AskedOf
  Handshakes = {10, 30}
  Shortlist = 2
  Refine = 2
  Limit = 3
  Books <- BooksAtFirst
  Connects = {c1, c2}
INVARIANT RankedByBestSample
PROPERTY MeasuringLosesNothing
