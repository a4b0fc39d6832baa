CONSTANTS
  c1 = c1
  c2 = c2
  c3 = c3
  None = None
  Calls <- ThreeCalls
  NoPrompt <- ThreeCalls
  Timeout <- Short
  Pipe <- NoPipe
  TaskInit <- NoTask
  BreakerTripThreshold = 3
  MaxKills = 0
SPECIFICATION Spec
INVARIANTS BreakerOpens
CHECK_DEADLOCK FALSE
