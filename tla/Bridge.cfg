CONSTANTS
  p = p
  q = q
  probe = probe
  None = None
  Clients <- Three
  Probes <- Probe
  PipeWorkers = 2
  DispatchPool = 1
  EventMayFail = TRUE
  MayStop = TRUE
SPECIFICATION ServingSpec
INVARIANTS TypeOK OneOwner
PROPERTIES NeverOrphaned EveryConnectionEnds ImplementsPipe
CHECK_DEADLOCK FALSE
