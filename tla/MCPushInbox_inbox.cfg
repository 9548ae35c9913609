SPECIFICATION FairSpec
CONSTANTS
  Files = {ga, cf, dd, af}
  Consoles = {cf}
  Folders = {}
  Dats = {dd}
  Apps = {af}
  Namesakes = {ga, af}
  NoId = {}
  Blocks = 2
  Old = Old
  None = None
  FlushFails = FALSE
  MaxStarts = 2
  MaxFaults = 1
CHECK_DEADLOCK FALSE
INVARIANTS ResumeIsRight LandedIsWhole JobsKept AppSurvives
PROPERTIES JobsRun
