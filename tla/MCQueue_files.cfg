SPECIFICATION Spec
CONSTANTS
  Slots = {s1, s2}
  Files = {fa}
  NoFile = NoFile
  Archives = {fa}
  Rars = {fa}
  Sized = {fa}
  Hashed = {fa}
  Dl = {d1}
  Ex = Ex
  MaxSeq = 2
  MaxDl = 1
  Results = {"some", "good", "bad"}
  Ops = {"add", "cancel", "retry", "requeue", "delete", "clear"}
  NoSlot = NoSlot
  Torn = Torn
SYMMETRY Symmetry
INVARIANTS
  OneWorkerPerItem
  OneWriterPerPart
  LibraryIntact
  PartFollowsItem
