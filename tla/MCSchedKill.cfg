CONSTANTS
  CPUs = {c1, c2}
  NPROC = 2
  Sleepers = {1}
  MaxItems = 1
  Free = Free
SPECIFICATION FairSpec
PROPERTY
  KilledWakes
