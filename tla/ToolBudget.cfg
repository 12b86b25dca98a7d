CONSTANTS
  MaxRequests = 3
  Conversations <- MCTools
  MaxPipe = 1
  Exits <- NoExits
  Ids = {1, 2}
  Script <- MCScript
  Responders = {}
  MaxTurns = 1
  MaxTools = 1
  MaxOffered = 1
  MaxStops = 1
  MaxIdentities = 2
  TextLimit = 1
SPECIFICATION Spec
INVARIANT ToolCallsBounded
CHECK_DEADLOCK FALSE
