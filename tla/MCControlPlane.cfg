SPECIFICATION Spec
CONSTANTS
  Sequences = {1, 2}
  Timeouts = {1, 2}
  MaxTime = 6
INVARIANTS LateAckAccepted TerminatedMeansAllAcked DrainCompletes
PROPERTIES StrikesArePaced
CHECK_DEADLOCK FALSE
