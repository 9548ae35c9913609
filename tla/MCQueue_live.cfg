SPECIFICATION FairSpec
CONSTANTS
  Slots = {s1, s2}
  Files = {fa, fp}
  NoFile = NoFile
  Archives = {fa}
  Rars = {}
  Sized = {fa}
  Hashed = {}
  Dl = {d1}
  Ex = Ex
  MaxSeq = 2
  MaxDl = 1
  Results = {"good"}
  Ops = {"add", "cancel", "exit", "net", "lowspace", "space"}
  NoSlot = NoSlot
  Torn = Torn
PROPERTIES
  Drains
  ExitEnds
  CancelEnds
CHECK_DEADLOCK FALSE
