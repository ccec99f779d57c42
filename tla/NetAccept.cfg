CONSTANTS
  MaxConns = 2
  MaxPieces = 4
  Parts = 2
  Garbage = {{}, {1}}
  Faults = TRUE
SPECIFICATION Spec
INVARIANTS
  TypeOK
  OtherChecksHold
  NothingUnforeseen
  Paired
  AcceptArmed
  NoMessageLost
PROPERTIES
  AllParsed
  ResetNoticed
CHECK_DEADLOCK FALSE
