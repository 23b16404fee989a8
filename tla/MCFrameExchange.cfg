SPECIFICATION Spec
CONSTANTS
  Count = 3
  Name <- MCNames
  Size <- MCSize
  Stamp <- MCStamp
  Workers = {w1, w2}
  Settings <- MCSettings
  MaxDecodeFaults = 1
  None = None
  Modulus = 4
INVARIANTS JobsExact AnswersMatch PublishedExact
CHECK_DEADLOCK FALSE
