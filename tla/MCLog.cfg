CONSTANTS
  p1 = p1
  p2 = p2
  b1 = b1
  b2 = b2
  Procs = {p1, p2}
  Blocks = {b1, b2}
  Values = {0, 1}
  Zero = 0
  NotCached = NotCached
  None = None
  LOGSIZE = 7
  LogSize = 7
  MAXOPBLOCKS = 3
  OpBlocks = 1
SPECIFICATION FairSpec
INVARIANTS
  LogInv
  
PROPERTIES
  AtomicCommit
  WriteAhead
  LogProgress
