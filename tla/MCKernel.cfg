SPECIFICATION Spec
SYMMETRY Symmetry
CONSTANTS
  p1 = p1  p2 = p2  f1 = f1  f2 = f2
  c1 = c1  c2 = c2  t1 = t1  t2 = t2  t3 = t3
  BProcs = {p1, p2}
  BFiles = {f1, f2}
  InodeOf <- MCInodeOf
  BSIZE = 2
  NDIRECT = 1
  FSSIZE = 8
  LOGSIZE = 6
  Images = {0, 1}
  Writes <- MCWrites
  ReadSizes = {2}
  MaxWrites = 2
  FProcs = {p1, p2}
  InitP = p1
  NOFILE = 2
  NFILE = 3
  Pipes = {f1}
  NoneF = NoneF
  Readers = {p1, p2}
  INPUT_BUF = 3
  UINT = 6
  ReadLens = {0, 2}
  Typed = {"nl", "a", "bs", "kill", "", "eof"}
  NoneR = NoneR
  COLS = 2
  ROWS = 2
  Cpus = {c1, c2}
  Threads = {t1, t2, t3}
  DevLocks = {"dev"}
  NoneI = NoneI
  TProcs = {p1, p2}
  TICKS = 8
  Lengths = {0, 1, 3, 6}
INVARIANTS BlocksInv FilesKeepContents FilesCounted DeviceInv 
PROPERTIES ConsoleIsLines SleepsLongEnough
