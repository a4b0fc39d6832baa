CONSTANTS
  Items <- FewItems
  Critical <- FewCritical
  Dirs = {}
  Setup = "setup"
  Main = "app"
  Ecram = "ecram"
  Bridge = "bridge"
  Face = "face"
  Installs <- OneInstall
  Payloads <- OnePayload
  MaxRuns = 2
  Faults <- AnyPhase
  CrashPoints <- WorstCrashes
  KillPoints <- WorstKills
  LaunchPoints <- WorstLaunch
  None = "none"
SPECIFICATION Spec
INVARIANTS OkIsTrue
CHECK_DEADLOCK FALSE
