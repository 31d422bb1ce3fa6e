SPECIFICATION Spec
CONSTANTS
  N = 2
  nl = nl
  a = a
  Bytes <- MCBytes
  Newline = nl
  Blocks = {b1, b2, b3, b4, b5}
  NULL = NULL
  Procs = {p1}
  Files = {f1}
  NoProc = NoProc
  Requests <- MCSeekRequests
  MaxAlloc = 3
  MaxPos = 4
SYMMETRY Symmetry
PROPERTY SeekLandsInCommand
