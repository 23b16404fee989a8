SPECIFICATION FairHeapSpec
CONSTANTS
  Sequences = {1, 2}
  MaxTime = 2
  MaxPushes = 4
INVARIANTS Covered
PROPERTIES PopsExactly PushReportsChange CallsReturn
CHECK_DEADLOCK FALSE
