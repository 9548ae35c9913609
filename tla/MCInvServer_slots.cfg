SPECIFICATION FairSpec
CONSTANTS
  Conns = {c1, c2}
  Kinds <- MCKinds
  c1 = c1
  c2 = c2
  None = None
  MaxFaults = 2
INVARIANTS WorkerIsOwned 
PROPERTIES ItemEndsWithPush NobodyWaitsForever HearsAgain
