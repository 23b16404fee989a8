SPECIFICATION FairSpec
CONSTANTS
  Workers = {w1, w2}
  MaxFrame = 1
  QueueBound = 1
  OtherKinds = {}
  None = None
PROPERTY SessionEnds
CHECK_DEADLOCK FALSE
