SPECIFICATION Spec
CONSTANTS
  c1 = c1
  c2 = c2
  nl = nl
  a = a
  b = b
  s = s
  Meta = FALSE
  Clients = {c1, c2}
  Messages <- MCMessages
  SeekArgs <- MCSeekArgs
  Newline = nl
  BufSize = 3
  Chunk = 2
  N = 2
  NoClient = NoClient
CHECK_DEADLOCK FALSE
PROPERTY ReadBackWhole
