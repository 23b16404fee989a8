SPECIFICATION Spec
CONSTANTS
  Workers = {w1}
  MaxFrame = 3
  CaptureBound = 1
  MaxInflight = 1
  Limits = {1}
  MaxStrikes = 2
  Faults = {"encode", "emit", "send", "timeout", "heartbeat", "closed", "garbled", "refused", "earlyEof"}
  None = None
  NoReport = NoReport
INVARIANTS
  AcksAreTracked WindowObserved OnlyEarlyAcksLinger
  TerminatedIsClean ReportHonest PublishedInOrder
CHECK_DEADLOCK FALSE
