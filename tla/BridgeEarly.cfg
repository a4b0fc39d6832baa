CONSTANTS
  p = p
  q = q
  probe = probe
  None = None
  Clients <- One
  Probes <- NoClient
  PipeWorkers = 2
  DispatchPool = 1
  EventMayFail = FALSE
  MayStop = FALSE
SPECIFICATION FairSpec
PROPERTIES EveryConnectionIsServed
CHECK_DEADLOCK FALSE
