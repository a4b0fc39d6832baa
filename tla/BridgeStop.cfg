CONSTANTS
  p = p
  q = q
  probe = probe
  None = None
  Clients <- NoClient
  Probes <- NoClient
  PipeWorkers = 2
  DispatchPool = 1
  EventMayFail = FALSE
  MayStop = TRUE
SPECIFICATION FairSpec
PROPERTIES StopCompletes
CHECK_DEADLOCK FALSE
