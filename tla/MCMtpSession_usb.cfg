SPECIFICATION FairSpec
CONSTANTS
  Files = {fa, fb}
  Archives = {fa}
  fa = fa
  fb = fb
  None = None
  XferMax = 1
  MaxIds = 2
  Chunks = 2
  MaxStarts = 1
  MaxFaults = 1
CHECK_DEADLOCK FALSE
INVARIANTS PipeInSync GameOnDisk
PROPERTIES NoGhostCard StopReturns
