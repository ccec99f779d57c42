CONSTANTS
  Tasks = {t1, t2}
  Threads = {p1, p2}
  stop_ = stop_
  None = None
  SignalMax = 3
SPECIFICATION Spec
INVARIANTS
  TypeOK
  MarkedWhileQueued
  Signalled
  UnsignalFindsSignal
  NoLostWork
PROPERTIES
  WorkIsDone
  ImplementsTaskBox
CHECK_DEADLOCK FALSE
