SPECIFICATION ConfigSpec
CONSTANTS
  MaxVer = 5
  MaxRefusals = 3
  MaxCuts = 2
  Upgrade = TRUE
INVARIANTS
  OldOrNewOnCard
  BackupsAge
PROPERTIES
  FailureIsUndone
