------------------------------ MODULE RuntimeProofs -----------------------------
(***************************************************************************)
(* The theorems of the components carried to the running program, in which *)
(* each of them is one part: a behaviour of the program is, seen by a      *)
(* component, a behaviour of that component.                               *)
(***************************************************************************)
EXTENDS MCRuntime, MachineProofs, DeskProofs, KeepingProofs

LEMMA RuntimeSteps == RuntimeSpec => RuntimeInit /\ [][RuntimeNext]_runtimeVars
BY PTL DEF RuntimeSpec

LEMMA WatchdogRuns == RuntimeSpec => WatchdogSpec
<1>1. RuntimeInit => WatchdogInit
  BY Zenon DEF RuntimeInit
<1>2. [RuntimeNext]_runtimeVars => [WatchdogNext]_watchdogVars
  BY Zenon DEF runtimeVars, supervisionVars, RuntimeNext, SupervisionMoves, ControllerMoves, MachineMoves, DeskMoves
<1> QED
  BY <1>1, <1>2, RuntimeSteps, PTL DEF WatchdogSpec

LEMMA HealthRuns == RuntimeSpec => HealthSpec
<1>1. RuntimeInit => HealthInit
  BY Zenon DEF RuntimeInit
<1>2. [RuntimeNext]_runtimeVars => [HealthNext]_healthVars
  BY Zenon DEF runtimeVars, supervisionVars, RuntimeNext, SupervisionMoves, ControllerMoves, MachineMoves, DeskMoves
<1> QED
  BY <1>1, <1>2, RuntimeSteps, PTL DEF HealthSpec

LEMMA InstallRuns == RuntimeSpec => ServiceSpec
<1>1. RuntimeInit => ServiceInit
  BY Zenon DEF RuntimeInit
<1>2. [RuntimeNext]_runtimeVars => [ServiceNext]_serviceVars
  BY Zenon DEF runtimeVars, supervisionVars, RuntimeNext, SupervisionMoves, ControllerMoves, MachineMoves, DeskMoves
<1> QED
  BY <1>1, <1>2, RuntimeSteps, PTL DEF ServiceSpec

LEMMA UpdatesRuns == RuntimeSpec => UpdatesSpec
<1>1. RuntimeInit => UpdatesInit
  BY Zenon DEF RuntimeInit
<1>2. [RuntimeNext]_runtimeVars => [UpdatesNext]_updateVars
  BY Zenon DEF runtimeVars, supervisionVars, RuntimeNext, SupervisionMoves, ControllerMoves, MachineMoves, DeskMoves
<1> QED
  BY <1>1, <1>2, RuntimeSteps, PTL DEF UpdatesSpec

LEMMA LocalRuns == RuntimeSpec => LocalSpec
<1>1. RuntimeInit => LocalInit
  BY Zenon DEF RuntimeInit
<1>2. [RuntimeNext]_runtimeVars => [LocalNext]_localVars
  BY Zenon DEF runtimeVars, supervisionVars, RuntimeNext, SupervisionMoves, ControllerMoves, MachineMoves, DeskMoves
<1> QED
  BY <1>1, <1>2, RuntimeSteps, PTL DEF LocalSpec

LEMMA UserDataRuns == RuntimeSpec => UserDataSpec
<1>1. RuntimeInit => UserDataInit
  BY Zenon DEF RuntimeInit
<1>2. [RuntimeNext]_runtimeVars => [UserDataNext]_userVars
  BY Zenon DEF runtimeVars, supervisionVars, RuntimeNext, SupervisionMoves, ControllerMoves, MachineMoves, DeskMoves
<1> QED
  BY <1>1, <1>2, RuntimeSteps, PTL DEF UserDataSpec

LEMMA EcRuns == RuntimeSpec => EcSpec
<1>1. RuntimeInit => EcInit
  BY Zenon DEF RuntimeInit
<1>2. [RuntimeNext]_runtimeVars => [EcNext]_ecServiceVars
  BY Zenon DEF runtimeVars, controllerVars, RuntimeNext, SupervisionMoves, ControllerMoves, MachineMoves, DeskMoves
<1> QED
  BY <1>1, <1>2, RuntimeSteps, PTL DEF EcSpec

LEMMA RegistersRuns == RuntimeSpec => RegistersSpec
<1>1. RuntimeInit => RegistersInit
  BY Zenon DEF RuntimeInit
<1>2. [RuntimeNext]_runtimeVars => [RegistersNext]_registerVars
  BY Zenon DEF runtimeVars, controllerVars, RuntimeNext, SupervisionMoves, ControllerMoves, MachineMoves, DeskMoves
<1> QED
  BY <1>1, <1>2, RuntimeSteps, PTL DEF RegistersSpec

LEMMA IotRuns == RuntimeSpec => IotSpec
<1>1. RuntimeInit => IotInit
  BY Zenon DEF RuntimeInit
<1>2. [RuntimeNext]_runtimeVars => [IotNext]_iotVars
  BY Zenon DEF runtimeVars, controllerVars, RuntimeNext, SupervisionMoves, ControllerMoves, MachineMoves, DeskMoves
<1> QED
  BY <1>1, <1>2, RuntimeSteps, PTL DEF IotSpec

LEMMA ThermalRuns == RuntimeSpec => ThermalSpec
<1>1. RuntimeInit => ThermalInit
  BY Zenon DEF RuntimeInit
<1>2. [RuntimeNext]_runtimeVars => [ThermalNext]_thermalVars
  BY Zenon DEF runtimeVars, controllerVars, RuntimeNext, SupervisionMoves, ControllerMoves, MachineMoves, DeskMoves
<1> QED
  BY <1>1, <1>2, RuntimeSteps, PTL DEF ThermalSpec

LEMMA PoolRuns == RuntimeSpec => PoolSpec
<1>1. RuntimeInit => PoolInit
  BY Zenon DEF RuntimeInit
<1>2. [RuntimeNext]_runtimeVars => [PoolNext]_poolVars
  BY Zenon DEF runtimeVars, controllerVars, RuntimeNext, SupervisionMoves, ControllerMoves, MachineMoves, DeskMoves
<1> QED
  BY <1>1, <1>2, RuntimeSteps, PTL DEF PoolSpec

LEMMA TurboRuns == RuntimeSpec => TurboSpec
<1>1. RuntimeInit => TurboInit
  BY Zenon DEF RuntimeInit
<1>2. [RuntimeNext]_runtimeVars => [TurboNext]_turboVars
  BY Zenon DEF runtimeVars, machineVars, RuntimeNext, SupervisionMoves, ControllerMoves, MachineMoves, DeskMoves
<1> QED
  BY <1>1, <1>2, RuntimeSteps, PTL DEF TurboSpec

LEMMA PerfRuns == RuntimeSpec => PerfSpec
<1>1. RuntimeInit => PerfInit
  BY Zenon DEF RuntimeInit
<1>2. [RuntimeNext]_runtimeVars => [PerfNext]_perfVars
  BY Zenon DEF runtimeVars, machineVars, RuntimeNext, SupervisionMoves, ControllerMoves, MachineMoves, DeskMoves
<1> QED
  BY <1>1, <1>2, RuntimeSteps, PTL DEF PerfSpec

LEMMA PowerRuns == RuntimeSpec => PowerSpec
<1>1. RuntimeInit => PowerInit
  BY Zenon DEF RuntimeInit
<1>2. [RuntimeNext]_runtimeVars => [PowerNext]_powerVars
  BY Zenon DEF runtimeVars, machineVars, RuntimeNext, SupervisionMoves, ControllerMoves, MachineMoves, DeskMoves
<1> QED
  BY <1>1, <1>2, RuntimeSteps, PTL DEF PowerSpec

LEMMA TweaksRuns == RuntimeSpec => SysOptSpec
<1>1. RuntimeInit => SysOptInit
  BY Zenon DEF RuntimeInit
<1>2. [RuntimeNext]_runtimeVars => [SysOptNext]_tweakVars
  BY Zenon DEF runtimeVars, machineVars, RuntimeNext, SupervisionMoves, ControllerMoves, MachineMoves, DeskMoves
<1> QED
  BY <1>1, <1>2, RuntimeSteps, PTL DEF SysOptSpec

LEMMA DisplayRuns == RuntimeSpec => DisplaySpec
<1>1. RuntimeInit => DisplayInit
  BY Zenon DEF RuntimeInit
<1>2. [RuntimeNext]_runtimeVars => [DisplayNext]_displayVars
  BY Zenon DEF runtimeVars, machineVars, RuntimeNext, SupervisionMoves, ControllerMoves, MachineMoves, DeskMoves
<1> QED
  BY <1>1, <1>2, RuntimeSteps, PTL DEF DisplaySpec

LEMMA HotkeysRuns == RuntimeSpec => HotkeysSpec
<1>1. RuntimeInit => HotkeysInit
  BY Zenon DEF RuntimeInit
<1>2. [RuntimeNext]_runtimeVars => [HotkeysNext]_hotkeysVars
  BY Zenon DEF runtimeVars, deskVars, RuntimeNext, SupervisionMoves, ControllerMoves, MachineMoves, DeskMoves
<1> QED
  BY <1>1, <1>2, RuntimeSteps, PTL DEF HotkeysSpec

LEMMA FaceRuns == RuntimeSpec => FaceSpec
<1>1. RuntimeInit => FaceInit
  BY Zenon DEF RuntimeInit
<1>2. [RuntimeNext]_runtimeVars => [FaceNext]_faceVars
  BY Zenon DEF runtimeVars, deskVars, RuntimeNext, SupervisionMoves, ControllerMoves, MachineMoves, DeskMoves
<1> QED
  BY <1>1, <1>2, RuntimeSteps, PTL DEF FaceSpec

LEMMA PadRuns == RuntimeSpec => PadSpec
<1>1. RuntimeInit => PadInit
  BY Zenon DEF RuntimeInit
<1>2. [RuntimeNext]_runtimeVars => [PadNext]_padVars
  BY Zenon DEF runtimeVars, deskVars, RuntimeNext, SupervisionMoves, ControllerMoves, MachineMoves, DeskMoves
<1> QED
  BY <1>1, <1>2, RuntimeSteps, PTL DEF PadSpec

LEMMA GesturesRuns == RuntimeSpec => GesturesSpec
<1>1. RuntimeInit => GesturesInit
  BY Zenon DEF RuntimeInit
<1>2. [RuntimeNext]_runtimeVars => [GesturesNext]_gestureVars
  BY Zenon DEF runtimeVars, deskVars, RuntimeNext, SupervisionMoves, ControllerMoves, MachineMoves, DeskMoves
<1> QED
  BY <1>1, <1>2, RuntimeSteps, PTL DEF GesturesSpec

LEMMA ShellRuns == RuntimeSpec => AppShellSpec
<1>1. RuntimeInit => AppShellInit
  BY Zenon DEF RuntimeInit
<1>2. [RuntimeNext]_runtimeVars => [AppShellNext]_shellVars
  BY Zenon DEF runtimeVars, deskVars, RuntimeNext, SupervisionMoves, ControllerMoves, MachineMoves, DeskMoves
<1> QED
  BY <1>1, <1>2, RuntimeSteps, PTL DEF AppShellSpec

LEMMA KeysRuns == RuntimeSpec => AuthKeySpec
<1>1. RuntimeInit => AuthKeyInit
  BY Zenon DEF RuntimeInit
<1>2. [RuntimeNext]_runtimeVars => [AuthKeyNext]_keyVars
  BY Zenon DEF runtimeVars, deskVars, RuntimeNext, SupervisionMoves, ControllerMoves, MachineMoves, DeskMoves
<1> QED
  BY <1>1, <1>2, RuntimeSteps, PTL DEF AuthKeySpec

-----------------------------------------------------------------------------
(* What holds of the running program.                                      *)

LEMMA PartStays == RuntimeSpec => [](part \in Parts)
<1>1. RuntimeInit => part \in Parts
  BY Zenon DEF RuntimeInit
<1>2. part \in Parts /\ [RuntimeNext]_runtimeVars => (part \in Parts)'
  BY Zenon DEF runtimeVars, RuntimeNext, SupervisionMoves, ControllerMoves, MachineMoves, DeskMoves
<1> QED
  BY <1>1, <1>2, RuntimeSteps, PTL

\* Every component keeps its types, for every value of its constants: any number of
\* processes, keys, clients, faults and restarts.
THEOREM RuntimeTypeCorrect == RuntimeSpec => []AllTypeOK
<1>1. /\ part \in Parts /\ WatchdogTypeOK /\ HealthTypeOK /\ ServiceTypeOK /\ UpdatesTypeOK
      /\ LocalTypeOK /\ UserDataTypeOK /\ EcTypeOK /\ RegistersTypeOK /\ IotTypeOK /\ ThermalTypeOK
      /\ PoolTypeOK /\ TurboTypeOK /\ PerfTypeOK /\ PowerTypeOK /\ SysOptTypeOK /\ DisplayTypeOK
      /\ HotkeysTypeOK /\ FaceTypeOK /\ PadTypeOK /\ GesturesTypeOK /\ AppShellTypeOK /\ AuthKeyTypeOK
      => AllTypeOK
  BY Zenon DEF AllTypeOK
<1>2. ShellInv => AppShellTypeOK
  BY DEF ShellInv
<1>3. RuntimeSpec => [](WatchdogTypeOK /\ HealthTypeOK /\ ServiceTypeOK /\ UpdatesTypeOK /\ LocalTypeOK
                         /\ UserDataTypeOK)
  BY WatchdogRuns, HealthRuns, InstallRuns, UpdatesRuns, LocalRuns, UserDataRuns, WatchdogTypeCorrect,
     HealthTypeCorrect, BridgeIsKept, UpdatesTypeCorrect, ReceiverIsListening, UserDataTypeCorrect, PTL
<1>4. RuntimeSpec => [](EcTypeOK /\ RegistersTypeOK /\ IotTypeOK /\ ThermalTypeOK /\ PoolTypeOK)
  BY EcRuns, RegistersRuns, IotRuns, ThermalRuns, PoolRuns, EcTypeCorrect, RegistersTypeCorrect,
     IotTypeCorrect, ThermalTypeCorrect, PoolTypeCorrect, PTL
<1>5. RuntimeSpec => [](TurboTypeOK /\ PerfTypeOK /\ PowerTypeOK /\ SysOptTypeOK /\ DisplayTypeOK)
  BY TurboRuns, PerfRuns, PowerRuns, TweaksRuns, DisplayRuns, TurboTypeCorrect, PerfTypeCorrect,
     PowerTypeCorrect, SysOptTypeCorrect, DisplayTypeCorrect, PTL
<1>6. RuntimeSpec => [](HotkeysTypeOK /\ FaceTypeOK /\ PadTypeOK /\ GesturesTypeOK /\ AppShellTypeOK
                         /\ AuthKeyTypeOK)
  BY <1>2, HotkeysRuns, FaceRuns, PadRuns, GesturesRuns, ShellRuns, KeysRuns, HotkeysTypeCorrect,
     FaceTypeCorrect, PadKeepsSetting, SlidesBegin, ShellInductive, KeysAgree, PTL
<1> QED
  BY <1>1, <1>3, <1>4, <1>5, <1>6, PartStays, PTL

\* What the components promise holds of the program they run in: the watchdog spares a
\* living app, a mailbox and a key are not left behind, what is kept is what was last set,
\* and what is reported as done is done.
THEOREM RuntimeKeepsPromises ==
  RuntimeSpec =>
    /\ [](OnlyStaleIsKilled /\ RunningBridgeIsKept /\ OneKey /\ NewestFilesAreKept /\ OkIsDone)
    /\ [](LeftoverIsCleared /\ NoStaleQuery /\ PlacesAgree /\ EventTellsAc)
    /\ [](TargetIsReleased /\ SuccessIsEarned /\ PadHasSetting /\ RunningIsListening)
    /\ HandsOff
<1>1. RuntimeSpec => [](OnlyStaleIsKilled /\ RunningBridgeIsKept /\ OneKey /\ NewestFilesAreKept /\ OkIsDone)
  BY WatchdogRuns, InstallRuns, KeysRuns, UserDataRuns, TweaksRuns, LivingAppIsSpared, BridgeIsKept,
     KeysAgree, NewestAreKept, OkDone, PTL
<1>2. RuntimeSpec => [](LeftoverIsCleared /\ NoStaleQuery /\ PlacesAgree /\ EventTellsAc)
  BY EcRuns, PoolRuns, PerfRuns, PowerRuns, MailboxIsCleared, QueriesAreFresh, PlacesComeToAgree,
     EventsAlternate, PTL
<1>3. RuntimeSpec => [](TargetIsReleased /\ SuccessIsEarned /\ PadHasSetting /\ RunningIsListening)
  BY HotkeysRuns, FaceRuns, PadRuns, LocalRuns, InjectedKeyIsReleased, SuccessEarned, PadKeepsSetting,
     ReceiverIsListening, PTL
<1> QED
  BY <1>1, <1>2, <1>3, DisplayRuns, SliderIsRespected, PTL

\* And three promises that hold on a condition: Turbo can be undone when no refresh runs
\* beside set_os_turbo, the updater launches a whole setup shell when one handler downloads
\* at a time, and a click shorter than the debounce closes the popup.
THEOREM RuntimeKeepsConditions ==
  ASSUME Overlap = FALSE, \A g, h \in Handlers : g = h, MaxHold < Debounce
  PROVE  RuntimeSpec => [](TurboIsReversible /\ ShellIsWhole) /\ ClickCloses
<1>1. TurboSpec => []TurboIsReversible
  BY TurboCanBeUndone
<1>2. UpdatesSpec => [](InstallTypeOK /\ ShellIsWhole)
  BY LaunchesWholeShell
<1>3. AppShellSpec => []AppShellTypeOK /\ ClickCloses
  BY ClicksClose
<1> QED
  BY <1>1, <1>2, <1>3, TurboRuns, UpdatesRuns, ShellRuns, PTL
=================================================================================
