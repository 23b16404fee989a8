SPECIFICATION FairSpec
CONSTANTS
  Workers = {w1, w2}
  MaxFrame = 2
  CaptureBound = 1
  MaxInflight = 2
  Limits = {1, 2}
  MaxStrikes = 1
  Faults = {"garbled", "emit", "earlyEof"}
  None = None
  NoReport = NoReport
INVARIANT EofMeansAllAnswered
PROPERTIES CleanRunDelivers StopEndsExchange
CHECK_DEADLOCK FALSE
