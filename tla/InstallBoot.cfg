CONSTANTS
  Items <- FewItems
  Critical <- FewCritical
  Dirs = {}
  Setup = "setup"
  Main = "app"
  Ecram = "ecram"
  Bridge = "bridge"
  Face = "face"
  Installs <- OneInstall
  Payloads <- OnePayload
  MaxRuns = 2
  Faults <- NoFaults
  CrashPoints <- BootCrashes
  KillPoints <- NoFaults
  LaunchPoints <- BootLaunch
  None = "none"
SPECIFICATION Spec
INVARIANTS RecoveryRepairs
CHECK_DEADLOCK FALSE
