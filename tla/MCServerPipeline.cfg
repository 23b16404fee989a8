SPECIFICATION FairSpec
CONSTANTS
  Workers = {w1, w2}
  MaxFrame = 3
  QueueBound = 2
  OtherKinds = {"HEARTBEAT", "ERROR"}
  None = None
INVARIANTS NoAckedFrameLost DecodeQueueBalanced SendQueueBalanced
PROPERTIES ImplementsService OrderlyEnd
CHECK_DEADLOCK FALSE
