\* Three callers: one performs, one joins, one arrives while a failure is read.
CONSTANTS
  Callers = {c1, c2, c3}
  Descendants = {d1}
  MaxCalls = 1
SPECIFICATION Spec
INVARIANTS TypeOK StoppedIsDead SignalsOwnGroup
PROPERTIES StopServiceSpec StopReturns ExitPublished
CHECK_DEADLOCK FALSE
