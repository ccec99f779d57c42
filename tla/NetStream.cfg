CONSTANTS
  H = 3
  Lens = {0, 1, 4}
  Cmd = 1
  MaxMsgs = 4
  Room = 5
  IntMax = 7
  MemSize = 4
SPECIFICATION Spec
INVARIANTS
  TypeOK
  OffsetsInMessage
  InStep
PROPERTIES
  ImplementsFifo
CHECK_DEADLOCK FALSE
