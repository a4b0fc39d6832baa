-------------------------------- MODULE MCRuntime ------------------------------
(***************************************************************************)
(* The components of the running program, each on its own: a behaviour     *)
(* belongs to one of them, and the others stay as they begin. They share   *)
(* no variable, so what one behaviour shows of a component is what any     *)
(* interleaving with the others would show of it.                          *)
(***************************************************************************)
EXTENDS Watchdog, HealthSupervisor, ServiceInstall, Updates, LocalSend, UserData, EcService,
        EcRegisters, IotChannel, Thermal, WmiPool, OsTurbo, PerfModes, PowerEvents, SysOpt,
        Display, Hotkeys, FaceUnlock, PadSettings, Gestures, AppShell, AuthKey

\* The gallery of the face store: one user with one template, one with two.
FaceGallery == <<"ann", "bob", "bob">>

VARIABLE part   \* the component that moves

Parts ==
  {"watchdog", "health", "install", "updates", "localsend", "userdata", "ec",
   "registers", "iot", "thermal", "pool", "turbo", "perf", "power", "tweaks", "display",
   "hotkeys", "face", "pad", "gestures", "shell", "keys"}

supervisionVars == <<watchdogVars, healthVars, serviceVars, updateVars, localVars, userVars>>
controllerVars == <<ecServiceVars, registerVars, iotVars, thermalVars, poolVars>>
machineVars == <<turboVars, perfVars, powerVars, tweakVars, displayVars>>
deskVars == <<hotkeysVars, faceVars, padVars, gestureVars, shellVars, keyVars>>
runtimeVars == <<part, supervisionVars, controllerVars, machineVars, deskVars>>

\* A component with several initial states begins in all of them when it is the one that
\* moves, in one of them else.
Settled(name, canonical) == part # name => canonical

RuntimeInit ==
  /\ part \in Parts
  /\ WatchdogInit
  /\ HealthInit
  /\ ServiceInit
  /\ UpdatesInit
  /\ LocalInit
  /\ UserDataInit /\ Settled("userdata", area = "rotating")
  /\ EcInit
  /\ RegistersInit
  /\ IotInit
  /\ ThermalInit /\ Settled("thermal", bridgeUp /\ localReads)
  /\ PoolInit
  /\ TurboInit
  /\ PerfInit
  /\ PowerInit
  /\ SysOptInit /\ Settled("tweaks", tweak = "edge" /\ setting[1] = "off")
  /\ DisplayInit
  /\ HotkeysInit /\ Settled("hotkeys", llHook)
  /\ FaceInit /\ Settled("face", liveness)
  /\ PadInit
  /\ GesturesInit
  /\ AppShellInit /\ Settled("shell", dpi = [m \in Monitors |-> 100])
  /\ AuthKeyInit /\ Settled("keys", legacyKey = Legacy)

SupervisionMoves ==
  /\ \/ /\ part = "watchdog" /\ WatchdogNext
        /\ UNCHANGED <<healthVars, serviceVars, updateVars, localVars, userVars>>
     \/ /\ part = "health" /\ HealthNext
        /\ UNCHANGED <<watchdogVars, serviceVars, updateVars, localVars, userVars>>
     \/ /\ part = "install" /\ ServiceNext
        /\ UNCHANGED <<watchdogVars, healthVars, updateVars, localVars, userVars>>
     \/ /\ part = "updates" /\ UpdatesNext
        /\ UNCHANGED <<watchdogVars, healthVars, serviceVars, localVars, userVars>>
     \/ /\ part = "localsend" /\ LocalNext
        /\ UNCHANGED <<watchdogVars, healthVars, serviceVars, updateVars, userVars>>
     \/ /\ part = "userdata" /\ UserDataNext
        /\ UNCHANGED <<watchdogVars, healthVars, serviceVars, updateVars, localVars>>
  /\ UNCHANGED <<part, controllerVars, machineVars, deskVars>>

ControllerMoves ==
  /\ \/ part = "ec" /\ EcNext /\ UNCHANGED <<registerVars, iotVars, thermalVars, poolVars>>
     \/ /\ part = "registers" /\ RegistersNext
        /\ UNCHANGED <<ecServiceVars, iotVars, thermalVars, poolVars>>
     \/ /\ part = "iot" /\ IotNext
        /\ UNCHANGED <<ecServiceVars, registerVars, thermalVars, poolVars>>
     \/ /\ part = "thermal" /\ ThermalNext
        /\ UNCHANGED <<ecServiceVars, registerVars, iotVars, poolVars>>
     \/ /\ part = "pool" /\ PoolNext
        /\ UNCHANGED <<ecServiceVars, registerVars, iotVars, thermalVars>>
  /\ UNCHANGED <<part, supervisionVars, machineVars, deskVars>>

MachineMoves ==
  /\ \/ part = "turbo" /\ TurboNext /\ UNCHANGED <<perfVars, powerVars, tweakVars, displayVars>>
     \/ part = "perf" /\ PerfNext /\ UNCHANGED <<turboVars, powerVars, tweakVars, displayVars>>
     \/ part = "power" /\ PowerNext /\ UNCHANGED <<turboVars, perfVars, tweakVars, displayVars>>
     \/ part = "tweaks" /\ SysOptNext /\ UNCHANGED <<turboVars, perfVars, powerVars, displayVars>>
     \/ part = "display" /\ DisplayNext /\ UNCHANGED <<turboVars, perfVars, powerVars, tweakVars>>
  /\ UNCHANGED <<part, supervisionVars, controllerVars, deskVars>>

DeskMoves ==
  /\ \/ /\ part = "hotkeys" /\ HotkeysNext
        /\ UNCHANGED <<faceVars, padVars, gestureVars, shellVars, keyVars>>
     \/ /\ part = "face" /\ FaceNext
        /\ UNCHANGED <<hotkeysVars, padVars, gestureVars, shellVars, keyVars>>
     \/ /\ part = "pad" /\ PadNext
        /\ UNCHANGED <<hotkeysVars, faceVars, gestureVars, shellVars, keyVars>>
     \/ /\ part = "gestures" /\ GesturesNext
        /\ UNCHANGED <<hotkeysVars, faceVars, padVars, shellVars, keyVars>>
     \/ /\ part = "shell" /\ AppShellNext
        /\ UNCHANGED <<hotkeysVars, faceVars, padVars, gestureVars, keyVars>>
     \/ /\ part = "keys" /\ AuthKeyNext
        /\ UNCHANGED <<hotkeysVars, faceVars, padVars, gestureVars, shellVars>>
  /\ UNCHANGED <<part, supervisionVars, controllerVars, machineVars>>

RuntimeNext == SupervisionMoves \/ ControllerMoves \/ MachineMoves \/ DeskMoves

\* The others are constant: a state is told from the others by its own component.
RuntimeView ==
  CASE part = "watchdog" -> <<part, watchdogVars>>
    [] part = "health" -> <<part, healthVars>>
    [] part = "install" -> <<part, serviceVars>>
    [] part = "updates" -> <<part, updateVars>>
    [] part = "localsend" -> <<part, localVars>>
    [] part = "userdata" -> <<part, userVars>>
    [] part = "ec" -> <<part, ecServiceVars>>
    [] part = "registers" -> <<part, registerVars>>
    [] part = "iot" -> <<part, iotVars>>
    [] part = "thermal" -> <<part, thermalVars>>
    [] part = "pool" -> <<part, poolVars>>
    [] part = "turbo" -> <<part, turboVars>>
    [] part = "perf" -> <<part, perfVars>>
    [] part = "power" -> <<part, powerVars>>
    [] part = "tweaks" -> <<part, tweakVars>>
    [] part = "display" -> <<part, displayVars>>
    [] part = "hotkeys" -> <<part, hotkeysVars>>
    [] part = "face" -> <<part, faceVars>>
    [] part = "pad" -> <<part, padVars>>
    [] part = "gestures" -> <<part, gestureVars>>
    [] part = "shell" -> <<part, shellVars>>
    [] part = "keys" -> <<part, keyVars>>

\* The fairness of the components whose liveness is checked, for the one that moves.
RunsWatchdog(action) ==
  /\ part = "watchdog" /\ action
  /\ UNCHANGED <<part, controllerVars, machineVars, deskVars>>
  /\ UNCHANGED <<healthVars, serviceVars, updateVars, localVars, userVars>>
RunsHealth(action) ==
  /\ part = "health" /\ action
  /\ UNCHANGED <<part, controllerVars, machineVars, deskVars>>
  /\ UNCHANGED <<watchdogVars, serviceVars, updateVars, localVars, userVars>>
RunsThermal(action) ==
  /\ part = "thermal" /\ action
  /\ UNCHANGED <<part, supervisionVars, machineVars, deskVars>>
  /\ UNCHANGED <<ecServiceVars, registerVars, iotVars, poolVars>>

RuntimeSpec ==
  /\ RuntimeInit /\ [][RuntimeNext]_runtimeVars
  /\ WF_runtimeVars(RunsWatchdog(Polling)) /\ WF_runtimeVars(RunsWatchdog(WatchdogTick))
  /\ WF_runtimeVars(RunsWatchdog(SetUp \/ Ready))
  /\ WF_runtimeVars(RunsHealth(Supervise))
  /\ \A p \in Pollers : WF_runtimeVars(RunsThermal(PollerStep(p)))
  /\ WF_runtimeVars(RunsThermal(BackoffRunsOut)) /\ WF_runtimeVars(RunsThermal(TaskRepaired))

-----------------------------------------------------------------------------
(* Properties.                                                             *)

\* Every component keeps its types.
AllTypeOK ==
  /\ part \in Parts
  /\ part = "watchdog" => WatchdogTypeOK
  /\ part = "health" => HealthTypeOK
  /\ part = "install" => ServiceTypeOK
  /\ part = "updates" => UpdatesTypeOK
  /\ part = "localsend" => LocalTypeOK
  /\ part = "userdata" => UserDataTypeOK
  /\ part = "ec" => EcTypeOK
  /\ part = "registers" => RegistersTypeOK
  /\ part = "iot" => IotTypeOK
  /\ part = "thermal" => ThermalTypeOK
  /\ part = "pool" => PoolTypeOK
  /\ part = "turbo" => TurboTypeOK
  /\ part = "perf" => PerfTypeOK
  /\ part = "power" => PowerTypeOK
  /\ part = "tweaks" => SysOptTypeOK
  /\ part = "display" => DisplayTypeOK
  /\ part = "hotkeys" => HotkeysTypeOK
  /\ part = "face" => FaceTypeOK
  /\ part = "pad" => PadTypeOK
  /\ part = "gestures" => GesturesTypeOK
  /\ part = "shell" => AppShellTypeOK
  /\ part = "keys" => AuthKeyTypeOK

\* While the user wants the app it does not stay dead: DeadAppReturns of the watchdog.
TheAppReturns == part = "watchdog" => DeadAppReturns

\* Every poller is told the temperatures again: TemperaturesReturn of the breaker.
TheTemperaturesReturn == part = "thermal" => TemperaturesReturn
================================================================================
