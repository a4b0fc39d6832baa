CONSTANTS
  Items <- MCItems
  Critical <- MCCritical
  Dirs = {"drivers"}
  Setup = "setup"
  Main = "app"
  Ecram = "ecram"
  Bridge = "bridge"
  Face = "face"
  Installs <- MCInstalls
  Payloads <- MCPayloads
  MaxRuns = 2
  Faults <- SafeFaults
  CrashPoints <- SafeCrashes
  KillPoints <- SafeKills
  LaunchPoints <- SafeLaunch
  None = "none"
SPECIFICATION Spec
INVARIANTS TypeOK Recoverable RecoveryRepairs CommitIsWhole MarkIsUndecided ServicesMatchFiles
PROPERTIES KeepsOthers ImplementsPromise
CHECK_DEADLOCK FALSE
