SPECIFICATION StoreSpec
CONSTANTS
  a1 = a1
  a2 = a2
  w1 = w1
  k1 = k1
  k2 = k2
  None = None
  Agents = {a1, a2}
  Workspaces = {w1}
  Keys = {k1, k2}
  WorkspaceOf <- MCSameWorkspace
  KeyOf <- MCKeys
  Messages = {m1}
  Requests = {}
  Resumers = {r1}
  Correlations = {}
  Bodies = {b1}
  ResultOutcomes = {"COMPLETED", "CANCELLED"}
  PerWorkspaceLimit = 1
  MaxEpoch = 2
INVARIANTS
  TypeOK
  WorkspaceExclusive
  RuntimeBelongsToClaim
PROPERTIES
  ResultImmutable
CHECK_DEADLOCK FALSE
