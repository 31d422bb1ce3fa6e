SPECIFICATION DriversSpec
CONSTANTS
  x = x
  y = y
  Procs = {p1}
  SCULL_QUANTUM = 2
  SCULL_QSET = 1
  Quanta = {1}
  Qsets = {2}
  Writes <- MCWrites
  Counts = {1, 3}
  Offsets <- MCOffsets
  MaxPos = 3
  Garbage = Garbage
  PAGE_SIZE = 1
  SCULLP_QSET = 2
  Orders = {1}
  MaxVmas = 2
  CopyWrites <- MCCopyWrites
  CopyCounts = {2}
  CopyOffsets = {0, 1}
  PageSize = 6
  RecordLen = 2
  NR_TIMEVAL = 2
  Lengths = {1, 6}
  SnullParameters <- MCSnullParameters
  Budget = 1
  Users = {u1, u2}
  Requests <- MCRequests
  Sectors = {0, 1, 2, 3}
  NoProc = NoProc
  Devices = {d1, d2, d3}
  MaxUrbs = 1
  NoDevice = NoDevice
INVARIANTS
  TypesOK ScullMemory ShortDelivers SnullPacketsOnce SnullGoesOn SbullDisk UsbRefsCounted
PROPERTY ScullsImplementFile
CHECK_DEADLOCK FALSE
