CONSTANTS
  MaxRequests = 3
  Conversations <- MCConversations
  MaxPipe = 1
  Exits <- MCExits
  Ids = {1, 2}
  Script <- MCScript
  Responders = {"r1"}
  MaxTurns = 1
  MaxTools = 1
  MaxOffered = 1
  MaxStops = 1
  MaxIdentities = 2
  TextLimit = 1
SPECIFICATION Spec
INVARIANTS RuntimeTypeOK NoStaleEntry SameTerminal EventsBeforeTerminal TerminalIsLast TextIsComplete CompletedIsEarned RequestsSettle 
CHECK_DEADLOCK FALSE
