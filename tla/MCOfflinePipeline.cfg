SPECIFICATION FairSpec
CONSTANTS
  LastIndex = 1
  Runs = 2
  Setups <- MCSetups
  Clouds = 2
  PipeSlots = 1
  Depth = 1
  MaxUnread = 1
  None = None
  Cut = Cut
  Unmeasured = Unmeasured
INVARIANTS CutIsNotSuccess EncodedIsCurrent CycleIsOfThisRun
PROPERTY RunEnds
CHECK_DEADLOCK FALSE
