SPECIFICATION FairSpec
CONSTANTS
  Archive <- MCArchive
  Existing = {"a"}
  Rings = {0, 1, 2, 3}
  SlotSz = 2
  RenameFails = FALSE
  MaxMishaps = 2
  None = None
CHECK_DEADLOCK FALSE
INVARIANTS CountedIsWhole ArchiveKept
PROPERTIES GivesWayToWhole Ends
