SPECIFICATION FairSpec
CONSTANTS
  Frames = {1, 2, 3}
  Total <- MCTotal
  Size <- MCSize
  MaxBytes = 3
  Ttl = 2
  MaxDuplicates = 1
INVARIANTS MemoryBounded NoSilentLoss
PROPERTY AssembliesLeave
CHECK_DEADLOCK FALSE
