SPECIFICATION Spec
CONSTANTS
  x = x
  y = y
  Procs = {p1, p2, p3}
  NoProc = NoProc
  BufferSize = 3
  Sizes = {4}
  Modes <- MCModes
  Writes <- MCWrites
  Counts = {1, 2}
  NoByte = NoByte
SYMMETRY Symmetry
INVARIANT WritesInBuffer
