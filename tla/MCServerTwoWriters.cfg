SPECIFICATION Spec
CONSTANTS
  Writers = {"control", "reply"}
  Script <- MCScript
  Attempts <- MCAttempts
  Formats = {"binary", "text"}
  MaxTears = 0
  MaxCuts = 0
  MaxGarbage = 2
  Corrupt = Corrupt
INVARIANT FramesInSequence
CHECK_DEADLOCK FALSE
