SPECIFICATION DevicesSpec
CONSTANTS
  x = x
  y = y
  Procs = {p1, p2, p3}
  NoProc = NoProc
  BufferSize = 3
  Sizes = {1}
  Modes <- MCModes
  Writes <- MCWrites
  Counts = {2}
  NoByte = NoByte
  a1 = a1
  a2 = a2
  a3 = a3
  tty1 = tty1
  tty2 = tty2
  NoTty = NoTty
  Callers <- MCCallers
  Users <- MCUsers
  Root <- MCRoot
  Uid <- MCUid
  Euid <- MCEuid
  Ttys <- MCTtys
  JiqFiles <- MCJiqFiles
  MaxLoads = 2
  Pids = {c1, c2, c3}
  First = c1
  NoPid = NoPid
  MaxCalls = 2
  LIMIT = 1
  Blocks = {b1, b2}
  NoBlock = NoBlock
  JIT_ASYNC_LOOPS = 2
SYMMETRY Symmetry
INVARIANTS
  TypesOK BufferSafe ReadersWoken
  SingleOpen OneUser WaitersWoken OneDevicePerTty JiqPrints LinesBeforeFree
PROPERTIES OnlyOpenStrands ImplementsQueue TtyPort ExecReports
