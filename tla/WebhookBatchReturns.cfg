SPECIFICATION FairSpec
CONSTANTS
  Events = {e1, e2}
  Limit = 2
PROPERTIES BatchReturns
CHECK_DEADLOCK FALSE
