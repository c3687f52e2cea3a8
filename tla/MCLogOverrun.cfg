CONSTANTS
  p1 = p1
  p2 = p2
  p3 = p3
  b1 = b1
  b2 = b2
  b3 = b3
  Procs = {p1, p2, p3}
  Blocks = {b1, b2, b3}
  Values = {0, 1}
  Zero = 0
  NotCached = NotCached
  None = None
  LOGSIZE = 3
  LogSize = 3
  MAXOPBLOCKS = 1
  OpBlocks = 1
SYMMETRY Symmetry
SPECIFICATION Spec
INVARIANT
  LogFits
