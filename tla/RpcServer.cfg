\* Two daemons, a spawn and a poll of the facade, one connection at a time.
CONSTANTS
  Daemons = {"d1", "d2"}
  Clients = {"spawn", "poll"}
  Plan <- MCPlan
  MaxConns = 2
  MaxConnections = 1
  After = 0
  MaxEvents = 1
SPECIFICATION Spec
CHECK_DEADLOCK FALSE
INVARIANTS ServiceTypeOK WorkUnderLock FileIsOurs 
PROPERTY ShutdownCompletes
