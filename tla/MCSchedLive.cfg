CONSTANTS
  CPUs = {c1}
  NPROC = 3
  Sleepers = {1, 2}
  MaxItems = 1
  Free = Free
SPECIFICATION FairSpec
PROPERTIES
  
  RunnableRuns
