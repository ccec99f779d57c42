CONSTANTS
  Callers = {c1}
  MaxCalls = 1
  Parts = 2
  Room = 2
  Serialised = TRUE
  Faults = FALSE
  Stopping = {"Active"}
SPECIFICATION Spec
INVARIANT
  NoUnexpectedRun
CHECK_DEADLOCK FALSE
