CONSTANTS
  Callers = {c1, c2}
  MaxCalls = 3
  Parts = 2
  Room = 2
  Serialised = TRUE
  Faults = TRUE
  Stopping <- SockStates
SPECIFICATION Spec
INVARIANTS
  Watched
  
  ConnectionKept
  NothingUnforeseen
PROPERTIES
  BreakNoticed
CHECK_DEADLOCK FALSE
