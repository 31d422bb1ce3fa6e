SPECIFICATION FairSpec
CONSTANTS
  x = x
  y = y
  p1 = p1
  p2 = p2
  Procs = {p1, p2}
  NoProc = NoProc
  PageSize = 3
  Writes <- MCWrites
  NoByte = NoByte
INVARIANTS TypeOK OutputGoesOn SleepersWoken
PROPERTIES ImplementsQueue WriterGoesOn
