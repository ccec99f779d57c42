CONSTANTS
  Handles = {h1, h2}
  Fds = {f1, f2}
  Nobody = Nobody
  Garbage = {Nobody}
  Early = {"Rm", "SetIn", "SetOut", "ResetIn", "ResetOut"}
  MaxEvents = 2
SPECIFICATION Spec
INVARIANTS
  TypeOK
  KernelAgrees
  BatchCurrent
PROPERTIES
  KeepsPromise
CHECK_DEADLOCK FALSE
