CONSTANTS
  Handles = {h1, h2}
  Fds = {f1, f2}
  Nobody = Nobody
  Garbage = {Nobody, f1, f2}
  Early = {"SetOut"}
  MaxEvents = 2
SPECIFICATION Spec
INVARIANTS
  KernelAgrees
CHECK_DEADLOCK FALSE
