CONSTANTS
  c1 = c1
  c2 = c2
  c3 = c3
  None = None
  Calls <- TwoCalls
  NoPrompt <- Silent
  Timeout <- ShortTwo
  Pipe <- NoPipe
  TaskInit <- GoodTask
  BreakerTripThreshold = 3
  MaxKills = 0
SPECIFICATION Spec
INVARIANTS NonceCountsOnce
CHECK_DEADLOCK FALSE
