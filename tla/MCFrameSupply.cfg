SPECIFICATION FairSpec
CONSTANTS
  Files = {1, 2}
  Segments = {1, 2}
  Watches <- MCWatches
  None = None
  NoSegment = NoSegment
  MaxTorn = 1
  MaxUnlinkFaults = 2
  Capacity = 1
  MaxHeld = 1
  IdleRounds = 1
  Transports = {"filesystem", "shared-memory"}
INVARIANTS InPipelineOnce EndMeansSupplied OrphansBounded LostOnlyAfterExit
PROPERTY CaptureEnds
CHECK_DEADLOCK FALSE
