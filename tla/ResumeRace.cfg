SPECIFICATION SchedulerSpec
CONSTANTS
  a1 = a1
  a2 = a2
  w1 = w1
  w2 = w2
  k1 = k1
  k2 = k2
  None = None
  Agents = {a1, a2}
  Workspaces = {w1, w2}
  Keys = {k1, k2}
  WorkspaceOf <- MCSameWorkspace
  KeyOf <- MCKeys
  Messages = {m1}
  Requests = {}
  Correlations = {}
  Resumers = {r1}
  Callers = {}
  Closers = {}
  Senders = {}
  Bodies = {b1}
  ResultOutcomes = {"COMPLETED", "FAILED", "CANCELLED", "RUNTIME_LOST", "RESULT_INVALID"}
  PerWorkspaceLimit = 1
  MaxEpoch = 2
  MaxCrashes = 0
  CleanupMayFail = FALSE
INVARIANTS
  OneAgentPerWorkspace
CHECK_DEADLOCK FALSE
