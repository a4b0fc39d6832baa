CONSTANTS
  c1 = c1
  c2 = c2
  c3 = c3
  None = None
  Calls <- TwoCalls
  NoPrompt <- Silent
  Timeout <- ShortTwo
  Pipe <- LostPipe
  TaskInit <- NoTask
  BreakerTripThreshold = 1
  MaxKills = 0
SPECIFICATION FairSpec
PROPERTIES EveryCallReturns
CHECK_DEADLOCK FALSE
