SPECIFICATION FairSpec
CONSTANTS
  Total = 7
  NBuf = 2
  SlotSize = 2
  StallMax = 2
INVARIANTS
  SlotsDisjoint
  CountedIsRight
PROPERTIES
  StreamUnlessStopped
  PushEnds
