SPECIFICATION RuntimeSpec
VIEW RuntimeView
CONSTANTS
  \* Watchdog
  MaxEvents = 3
  EventKinds = {"start", "suspend", "quit", "crash", "stick", "starve", "window", "session", "autostart", "panic"}
  \* HealthSupervisor
  MaxOutages = 1
  MaxMisses = 1
  \* ServiceInstall
  Candidate = 2
  MaxEnsures = 2
  MaxSvcFaults = 1
  \* Updates
  Handlers = {"h1"}
  MaxAsks = 3
  MaxUpdateFaults = 2
  \* LocalSend
  Senders = {"phone"}
  Callers = {"c1", "c2"}
  MaxLocalCalls = 5
  \* UserData
  LogThreads = {"t1", "t2"}
  OldFiles = 2
  MaxLogFiles = 4
  MaxDataMoves = 4
  \* EcService
  EcClients = {"c1"}
  Repairers = {"r1"}
  MaxFaults = 1
  \* EcRegisters
  EcLevels = {0, 1}
  RawOn = TRUE
  AppAdmin = TRUE
  MaxEcCalls = 1
  \* IotChannel
  IotCallers = {"u1"}
  RateLimit = 1
  MaxSends = 2
  InfoFields = 2
  MaxIotCalls = 2
  \* Thermal
  Pollers = {"p1", "p2"}
  MaxThermalFaults = 1
  \* WmiPool
  PoolWorkers = {"w1", "w2"}
  PoolCallers = {"c1", "c2"}
  MaxInFlight = 2
  MaxResumes = 1
  MaxWmiFaults = 1
  \* OsTurbo
  Procs = {1}
  MaxRestarts = 1
  MaxTurboFaults = 1
  Overlap = FALSE
  \* PerfModes
  MaxSets = 2
  AppElevated = FALSE
  \* PowerEvents
  MaxPower = 2
  \* SysOpt
  MaxTweakCommands = 3
  MaxTweakFaults = 1
  \* Display
  MaxDisplayMoves = 2
  Learned = {}
  \* Hotkeys
  HotKeys = {"copilot", "f23", "plain"}
  ProbedKeys = {"plain"}
  MaxPresses = 2
  MaxDetects = 1
  MaxRemaps = 2
  \* FaceUnlock
  Gallery <- FaceGallery
  Similarities = {0, 1, 2}
  Threshold = 1
  Margin = 1
  MaxAttempts = 2
  MaxPolls = 2
  FaceGap = TRUE
  \* PadSettings
  PadReports = {"force", "gears"}
  MaxPadSets = 3
  \* Gestures
  MaxHeight = 3
  JumpThreshold = 2
  \* AppShell
  Scales = {100, 175}
  MaxHold = 2
  MaxRebuilds = 1
  \* AuthKey
  KeyUsers = {"app", "bridge"}
  MaxKeys = 2
  MaxDisturbed = 1
INVARIANTS
  AllTypeOK
  OnlyStaleIsKilled
  
  
  
  SuccessIsEarned
  
  
  
  
  RunningIsListening
  ShellIsWhole
  
  OneKey
  
  
PROPERTIES
  
  ServicesComeBack
  
  
  ClickCloses
CHECK_DEADLOCK FALSE
