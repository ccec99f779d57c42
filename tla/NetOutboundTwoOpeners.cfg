CONSTANTS
  Callers = {c1, c2}
  MaxCalls = 2
  Parts = 2
  Room = 2
  Serialised = FALSE
  Faults = FALSE
  Stopping = {}
SPECIFICATION Spec
INVARIANT
  NoCheckFails
CHECK_DEADLOCK FALSE
