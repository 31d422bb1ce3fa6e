SPECIFICATION SpecEarly
CONSTANTS
  N = 2
  nl = nl
  a = a
  Bytes <- MCBytes
  Newline = nl
  Blocks = {b1, b2, b3, b4, b5}
  NULL = NULL
  Procs = {p1, p2}
  Files = {f1, f2}
  NoProc = NoProc
  Requests <- MCRequests
  MaxAlloc = 2
  MaxPos = 2
SYMMETRY Symmetry
INVARIANT LockOK
