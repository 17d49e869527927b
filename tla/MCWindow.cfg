SPECIFICATION PromptSpec
CONSTANTS
  None = None
  MaxChanges = 1
  MaxPresses = 1
  AtFirst = {"none", "carries"}
PROPERTIES
  Settles
  ReconnectHasItsEnd
