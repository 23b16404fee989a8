SPECIFICATION FairSpec
CONSTANTS
  Writers = {"control", "reply"}
  Script <- MCScript
  Attempts <- MCAttempts
  Formats = {"binary", "text"}
  MaxTears = 1
  MaxCuts = 1
  MaxGarbage = 2
  Corrupt = Corrupt
INVARIANTS WholeOnceInOrder
PROPERTIES ImplementsFifo AllArrive
CHECK_DEADLOCK FALSE
