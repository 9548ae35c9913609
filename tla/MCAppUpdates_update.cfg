SPECIFICATION Spec
CONSTANTS
  Releases <- MCReleases
  Extras = {"data", "added", "config"}
  UserData = {"config"}
  Ships <- MCShips
  NameOf <- MCNameOf
  LabelOf <- MCLabelOf
  Jobs = {j1}
  Own = Own
  Torn = Torn
  None = None
  TornPasses = FALSE
  MaxOps = 3
  MaxFaults = 1
CHECK_DEADLOCK FALSE
INVARIANTS BuildSurvives RollbackRestores
PROPERTIES UserDataKept
