CONSTANTS
  c1 = c1
  c2 = c2
  c3 = c3
  None = None
  Calls <- TwoCalls
  NoPrompt <- Silent
  Timeout <- Mixed
  Pipe <- SomePipe
  TaskInit <- GoodOrNot
  BreakerTripThreshold = 1
  MaxKills = 1
SPECIFICATION Spec
INVARIANTS TypeOK OkMeansServed 
 
CHECK_DEADLOCK FALSE
