SPECIFICATION SchedulerSpec
CONSTANTS
  a1 = a1
  a2 = a2
  w1 = w1
  w2 = w2
  k1 = k1
  k2 = k2
  None = None
  Agents = {a1}
  Workspaces = {w1, w2}
  Keys = {k1, k2}
  WorkspaceOf <- MCOneAgent
  KeyOf <- MCOneKey
  Messages = {m1}
  Requests = {}
  Correlations = {}
  Resumers = {}
  Callers = {c1, c2}
  Closers = {c2}
  Senders = {s1, s2}
  Bodies = {b1}
  ResultOutcomes = {"COMPLETED", "FAILED", "CANCELLED", "TIMED_OUT", "RUNTIME_LOST", "RESULT_INVALID", "BUDGET_EXHAUSTED"}
  PerWorkspaceLimit = 1
  MaxEpoch = 1
  MaxCrashes = 0
  CleanupMayFail = TRUE
INVARIANTS
  SchedulerTypeOK
  
  RuntimeIsOwned
CHECK_DEADLOCK FALSE
