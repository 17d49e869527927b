SPECIFICATION FairSpec
CONSTANTS
  None = None
  MaxChanges = 1
  MaxPresses = 1
  AtFirst = {"none", "carries"}
PROPERTY FreshOneComesIn
