SPECIFICATION Spec
CONSTANTS
  Slots = {s1, s2}
  Files = {fa, fp}
  NoFile = NoFile
  Archives = {fa}
  Rars = {}
  Sized = {fa}
  Hashed = {}
  Dl = {d1}
  Ex = Ex
  MaxSeq = 2
  MaxDl = 1
  Results = {"good"}
  Ops = {"add", "batch", "crash", "exit", "start", "move", "moveend", "badsave"}
  NoSlot = NoSlot
  Torn = Torn
SYMMETRY Symmetry
INVARIANTS
  QueueFileAgrees
