CONSTANTS
  a = a
  b = b
  Procs = {p1, p2}
  Names = {a, b}
  NInodes = 3
  NINODE = 3
  Calls <- SomeCalls
  None = None
SYMMETRY Symmetry
SPECIFICATION Spec
CHECK_DEADLOCK FALSE
INVARIANTS
  FsInv
  NoFsPanic
  
  UnlinkedIsFreed
  LinksCounted
