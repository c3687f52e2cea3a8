CONSTANTS
  CPUs = {c1, c2}
  NPROC = 3
  Sleepers = {1, 2}
  MaxItems = 2
  Free = Free
SYMMETRY Symmetry
SPECIFICATION Spec
INVARIANTS
  OneCpuPerStack
  NoLostWakeup
  SchedInv
