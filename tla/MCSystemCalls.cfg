SPECIFICATION Spec
CONSTANTS
  Pids = {c1, c2, c3}
  First = c1
  NoPid = NoPid
  MaxCalls = 2
INVARIANT OneProgram
CHECK_DEADLOCK FALSE
