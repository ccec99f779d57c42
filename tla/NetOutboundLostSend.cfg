CONSTANTS
  Callers = {c1, c2}
  MaxCalls = 3
  Parts = 2
  Room = 2
  Serialised = FALSE
  Faults = FALSE
  Stopping = {}
SPECIFICATION Spec
INVARIANT
  SendNotForgotten
CHECK_DEADLOCK FALSE
