SPECIFICATION FairSpec
CONSTANTS
  Titles = {c1}
  g1 = g1
  c1 = c1
  None = None
  MaxReqs = 2
  MaxScans = 1
  MaxEdits = 1
CHECK_DEADLOCK FALSE
INVARIANTS PollIsOfLastRequest HitHasImage
PROPERTIES AnswersCome
