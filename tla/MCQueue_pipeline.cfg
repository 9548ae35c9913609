SPECIFICATION Spec
CONSTANTS
  Slots = {s1, s2}
  Files = {fa}
  NoFile = NoFile
  Archives = {fa}
  Rars = {}
  Sized = {}
  Hashed = {}
  Dl = {d1, d2}
  Ex = Ex
  MaxSeq = 2
  MaxDl = 2
  Results = {"good"}
  Ops = {"add", "cancel", "limit", "pause", "ext"}
  NoSlot = NoSlot
  Torn = Torn
SYMMETRY Symmetry
INVARIANTS
  NobodyStranded
PROPERTIES
  PoolSpec
