SPECIFICATION StoreSpec
SYMMETRY Symmetry
CONSTANTS
  a1 = a1
  a2 = a2
  w1 = w1
  k1 = k1
  k2 = k2
  None = None
  Agents = {a1}
  Workspaces = {w1}
  Keys = {k1}
  WorkspaceOf <- MCOneAgent
  KeyOf <- MCOneKey
  Messages = {m1, m2}
  Requests = {q1, q2}
  Resumers = {r1, r2}
  Correlations = {c1, c2}
  Bodies = {b1}
  ResultOutcomes = {"COMPLETED", "CANCELLED"}
  PerWorkspaceLimit = 1
  MaxEpoch = 1
INVARIANTS
  TerminalHasResult
  StopFencesCommands
  InputWaitMatchesRequests
  MessagesInOrder
PROPERTIES
  CancelWins
  CommandsMoveForward
CHECK_DEADLOCK FALSE
