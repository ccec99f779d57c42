CONSTANTS
  Callers = {c1, c2}
  MaxCalls = 3
  Parts = 2
  Room = 2
  Serialised = TRUE
  Faults = FALSE
  Stopping = {}
SPECIFICATION Spec
INVARIANTS
  TypeOK
  InOrder
  SendNotForgotten
PROPERTIES
  AllSent
  GoesQuiet
CHECK_DEADLOCK FALSE
