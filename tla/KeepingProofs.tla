------------------------------- MODULE KeepingProofs ---------------------------
(***************************************************************************)
(* What is proved of the parts that keep the program running and in order: *)
(* the watchdog, the services, the updates, the key, the logs and the      *)
(* programs of the tweaks.                                                 *)
(***************************************************************************)
EXTENDS Watchdog, HealthSupervisor, ServiceInstall, Updates, AuthKey, UserData, SysOpt,
        SequenceTheorems, TLAPS

-----------------------------------------------------------------------------
(* The app under its watchdog.                                             *)

PollInv ==
  /\ app \in {"off", "starting", "set", "up", "stuck"}
  /\ poll \in {"sleep", "look", "kill", "launch"}
  /\ age \in 0..StaleAge /\ wait \in 0..PollGap /\ zombie \in 0..MaxZombieResets + 1
  /\ upPolls \in 0..2 /\ slept \in BOOLEAN
  \* The heartbeat of an app that is up gets old only by a sleep of the machine,
  /\ app = "up" => age = 0 \/ slept
  \* and so does one that is found old by a poll that began with the app up.
  /\ poll = "look" /\ upPolls >= 1 /\ age = StaleAge => slept
  /\ poll # "look" /\ upPolls >= 1 /\ zombie >= 1 => slept
  \* After such a poll the heartbeat is new before the next one comes.
  /\ poll = "sleep" /\ upPolls >= 1 /\ zombie >= 1 /\ wait < PollGap /\ app = "up" => age = 0
  /\ poll = "look" /\ upPolls = 2 /\ zombie >= 1 => age = 0
  /\ poll = "kill" => upPolls < 2

\* Between two polls: what is not up says nothing about its heartbeat.
LEMMA AppStepKeeps ==
  ASSUME PollInv, app' \in {"off", "starting", "set", "stuck", app},
         UNCHANGED <<poll, age, wait, zombie, slept>>, upPolls' = upPolls
  PROVE  PollInv'
BY DEF PollInv

LEMMA WatchdogStepKeeps ==
  ASSUME PollInv, WatchdogNext PROVE PollInv'
<1>1. CASE SetUp
  BY <1>1, AppStepKeeps DEF SetUp, pollVars, histories
<1>2. CASE Ready
  BY <1>2 DEF Ready, WriteHeartbeat, pollVars, histories, PollInv, StaleAge
<1>3. CASE WatchdogTick
  <2>1. /\ poll = "sleep" /\ wait > 0 /\ wait' = wait - 1
        /\ app = "up" => age' = 0
        /\ app # "up" => age' = IF age < StaleAge THEN age + 1 ELSE age
        /\ UNCHANGED <<app, poll, zombie, upPolls, slept>>
    BY <1>3 DEF WatchdogTick, WriteHeartbeat, histories
  <2> QED
    BY <2>1 DEF PollInv, StaleAge, PollGap
<1>4. CASE UserStart \/ UserQuit \/ Crash \/ Stick
  BY <1>4, AppStepKeeps DEF UserStart, UserQuit, Crash, Stick, Started, pollVars, histories, fileVars
<1>5. CASE Starve \/ LoseWindow \/ SessionChange \/ SetAutostart
  BY <1>5, AppStepKeeps DEF Starve, LoseWindow, SessionChange, SetAutostart, appVars, pollVars,
     histories, fileVars
<1>6. CASE Suspend
  <2>1. /\ ~slept /\ slept' = TRUE /\ poll = "sleep" /\ age' = StaleAge /\ wait' \in {0, wait}
        /\ UNCHANGED <<app, poll, zombie, upPolls>>
    BY <1>6 DEF Suspend, appVars
  <2> QED
    BY <2>1 DEF PollInv, StaleAge, PollGap
<1>7. CASE PollPanics
  <2>1. poll' = "sleep" /\ wait' = PollGap /\ zombie' = 0 /\ UNCHANGED <<app, age, upPolls, slept>>
    BY <1>7 DEF PollPanics, Sleep, appVars, fileVars
  <2> QED
    BY <2>1 DEF PollInv, PollGap, StaleAge, MaxZombieResets
<1>8. CASE PollMarkers
  <2>1. /\ poll = "sleep" /\ wait = 0
        /\ upPolls' = IF app # "up" THEN 0 ELSE IF upPolls < 2 THEN upPolls + 1 ELSE 2
        /\ \/ poll' = "sleep" /\ wait' = PollGap /\ zombie' = 0
           \/ poll' = "look" /\ UNCHANGED <<wait, zombie>>
        /\ UNCHANGED <<app, age, slept>>
    BY <1>8 DEF PollMarkers, Sleep, appVars, fileVars
  <2> QED
    BY <2>1 DEF PollInv, PollGap, StaleAge, MaxZombieResets
<1>9. CASE PollDead
  <2>1. /\ poll = "look" /\ app = "off" /\ zombie' = 0 /\ poll' \in {"launch", "sleep"}
        /\ wait' \in {wait, PollGap} /\ UNCHANGED <<app, age, upPolls, slept>>
    BY <1>9 DEF PollDead, Sleep, appVars, fileVars
  <2> QED
    BY <2>1 DEF PollInv, PollGap, StaleAge, MaxZombieResets
\* A second stale heartbeat in a row is not that of an app that was up at both polls.
<1>10. CASE PollZombie
  <2>1. /\ poll = "look" /\ app # "off" /\ age >= StaleAge
        /\ zombie' = IF zombie > MaxZombieResets THEN zombie ELSE zombie + 1
        /\ \/ zombie + 1 >= 2 /\ poll' = "kill" /\ UNCHANGED wait
           \/ poll' = "sleep" /\ wait' = PollGap
        /\ UNCHANGED <<app, age, upPolls, slept>>
    BY <1>10 DEF PollZombie, Sleep, appVars, fileVars, histories
  <2>2. age = StaleAge /\ age # 0
    BY <2>1 DEF PollInv, StaleAge
  <2> QED
    BY <2>1, <2>2 DEF PollInv, PollGap, MaxZombieResets
<1>11. CASE PollWell
  <2>1. /\ poll' = "sleep" /\ wait' = PollGap /\ zombie' = 0 /\ UNCHANGED <<app, age, upPolls, slept>>
    BY <1>11 DEF PollWell, Sleep, appVars, fileVars
  <2> QED
    BY <2>1 DEF PollInv, PollGap, StaleAge, MaxZombieResets
<1>12. CASE KillApp
  <2>1. /\ poll = "kill" /\ UNCHANGED <<age, zombie, upPolls, slept>>
        /\ \/ app' = "off" /\ poll' = "launch" /\ UNCHANGED wait
           \/ poll' = "sleep" /\ wait' = PollGap /\ UNCHANGED app
    BY <1>12 DEF KillApp, Sleep, fileVars
  <2> QED
    BY <2>1 DEF PollInv, PollGap
<1>13. CASE LaunchApp
  <2>1. /\ poll = "launch" /\ poll' = "sleep" /\ wait' = PollGap /\ app' \in {"starting", app}
        /\ UNCHANGED <<age, zombie, upPolls, slept>>
    BY <1>13 DEF LaunchApp, Sleep, Started, appVars, fileVars
  <2> QED
    BY <2>1 DEF PollInv, PollGap
<1> QED
  BY <1>1, <1>2, <1>3, <1>4, <1>5, <1>6, <1>7, <1>8, <1>9, <1>10, <1>11, <1>12, <1>13
     DEF WatchdogNext, Polling

LEMMA PollInductive == WatchdogSpec => []PollInv
<1>1. WatchdogInit => PollInv
  <2> SUFFICES ASSUME WatchdogInit PROVE PollInv
    OBVIOUS
  <2>1. /\ app = "off" /\ age = 3 /\ poll = "sleep" /\ wait = 2 /\ zombie = 0 /\ upPolls = 0
        /\ slept \in BOOLEAN
    BY DEF WatchdogInit, StaleAge, PollGap
  <2>2. age \in 0..3 /\ wait \in 0..2 /\ zombie \in 0..4 /\ upPolls \in 0..2
    BY <2>1
  <2> QED
    BY <2>1, <2>2 DEF PollInv, StaleAge, PollGap, MaxZombieResets
<1>2. PollInv /\ [WatchdogNext]_watchdogVars => PollInv'
  <2>1. PollInv /\ UNCHANGED watchdogVars => PollInv'
    BY DEF PollInv, watchdogVars, appVars, fileVars, pollVars, histories
  <2> QED
    BY <2>1, WatchdogStepKeeps
<1> QED
  BY <1>1, <1>2, PTL DEF WatchdogSpec

\* An app that two polls in a row found up is not killed by the second: for any number of
\* crashes, starts, hangs, sessions and panics, and one sleep of the machine.
THEOREM LivingAppIsSpared == WatchdogSpec => []OnlyStaleIsKilled
<1>1. PollInv => OnlyStaleIsKilled
  BY DEF PollInv, OnlyStaleIsKilled
<1> QED
  BY <1>1, PollInductive, PTL

\* What the polls say nothing of.
AppTypes ==
  /\ starved \in BOOLEAN /\ window \in BOOLEAN /\ probeFails \in 0..2
  /\ uiOk \in 0..1 /\ sentinel \in BOOLEAN /\ armed \in BOOLEAN /\ autostart \in BOOLEAN
  /\ flag \in BOOLEAN /\ abnormal \in BOOLEAN /\ session \in BOOLEAN /\ hidden \in BOOLEAN
  /\ dead \in 0..DeadPolls - 1 /\ events \in 0..MaxEvents

LEMMA AppTypesStep ==
  ASSUME AppTypes, WatchdogNext PROVE AppTypes'
<1>1. events' \in 0..MaxEvents
  <2>1. CASE SetUp \/ Ready \/ WatchdogTick \/ Polling
    <3>1. events' = events
      BY <2>1, Zenon DEF Polling, SetUp, Ready, WatchdogTick, PollMarkers, PollDead, PollZombie, PollWell,
         KillApp, LaunchApp
    <3> QED
      BY <3>1 DEF AppTypes
  <2>2. CASE ~(SetUp \/ Ready \/ WatchdogTick \/ Polling)
    <3>1. \E kind : Event(kind)
      BY <2>2, Zenon DEF WatchdogNext, UserStart, UserQuit, Crash, Stick, Starve, LoseWindow,
         SessionChange, Suspend, SetAutostart, PollPanics
    <3> QED
      BY <3>1, WatchdogAssumption DEF AppTypes, Event
  <2> QED
    BY <2>1, <2>2
<1>2. CASE SetUp \/ UserStart \/ UserQuit \/ Crash \/ Stick \/ Starve \/ LoseWindow
  <2>1. UNCHANGED <<autostart, session, uiOk, hidden, dead>> /\ probeFails' \in {0, probeFails}
    BY <1>2, Zenon DEF SetUp, UserStart, UserQuit, Crash, Stick, Starve, LoseWindow, fileVars, pollVars, Started
  <2>2. /\ starved' \in {starved, TRUE, FALSE} /\ window' \in {window, TRUE, FALSE}
        /\ sentinel' \in {sentinel, TRUE, FALSE} /\ armed' \in {armed, autostart}
        /\ flag' \in {flag, TRUE, FALSE} /\ abnormal' \in {abnormal, flag}
    BY <1>2, Zenon DEF SetUp, UserStart, UserQuit, Crash, Stick, Starve, LoseWindow, fileVars, Started
  <2>3. /\ starved' \in BOOLEAN /\ window' \in BOOLEAN /\ sentinel' \in BOOLEAN
        /\ armed' \in BOOLEAN /\ flag' \in BOOLEAN /\ abnormal' \in BOOLEAN
    BY <2>2, Zenon DEF AppTypes
  <2>4. probeFails' \in 0..2
    BY <2>1 DEF AppTypes
  <2> QED
    BY <1>1, <2>1, <2>3, <2>4, Zenon DEF AppTypes
<1>3. CASE SessionChange \/ Suspend \/ SetAutostart
  <2>1. UNCHANGED <<starved, window, probeFails, uiOk, sentinel, flag, abnormal, hidden, dead>>
    BY <1>3, Zenon DEF SessionChange, Suspend, SetAutostart, appVars, fileVars, pollVars
  <2>2. /\ session' \in {session, ~session} /\ autostart' \in {autostart, ~autostart}
        /\ armed' \in {armed, autostart'}
    BY <1>3, Zenon DEF SessionChange, Suspend, SetAutostart, fileVars
  <2> QED
    BY <1>1, <2>1, <2>2 DEF AppTypes
<1>4. CASE Ready \/ WatchdogTick
  <2>1. UNCHANGED <<starved, window, sentinel, armed, autostart, flag, abnormal, session, hidden, dead>>
    BY <1>4, Zenon DEF Ready, WatchdogTick, pollVars
  <2>2. uiOk' \in {uiOk, 0, 1} /\ probeFails' \in {probeFails, ProbeFails}
    BY <1>4 DEF Ready, WatchdogTick, WriteHeartbeat
  <2>3. ProbeFails \in 0..2
    BY DEF AppTypes, ProbeFails
  <2> QED
    BY <1>1, <2>1, <2>2, <2>3 DEF AppTypes
<1>5. CASE Polling \/ PollPanics
  <2>1. UNCHANGED <<uiOk, sentinel, armed, autostart, flag, abnormal, session>>
    BY <1>5, Zenon DEF Polling, PollPanics, PollMarkers, PollDead, PollZombie, PollWell, KillApp, LaunchApp, fileVars
  <2>2. /\ starved' \in {starved, FALSE} /\ window' \in {window, TRUE}
        /\ probeFails' \in {0, probeFails} /\ hidden' \in {hidden, TRUE, FALSE}
    BY <1>5, Zenon DEF Polling, PollPanics, PollMarkers, PollDead, PollZombie, PollWell, KillApp, LaunchApp, appVars,
       Started
  <2>3. dead' \in {0, dead} \/ (~(dead + 1 >= DeadPolls) /\ dead' = dead + 1)
    <3>1. CASE PollMarkers \/ PollPanics
      BY <3>1, Zenon DEF PollPanics, PollMarkers
    <3>2. CASE PollZombie \/ PollWell
      BY <3>2, Zenon DEF PollZombie, PollWell
    <3>3. CASE PollDead
      BY <3>3, Zenon DEF PollDead
    <3>4. CASE KillApp
      BY <3>4, Zenon DEF KillApp
    <3>5. CASE LaunchApp
      BY <3>5, Zenon DEF LaunchApp
    <3> QED
      BY <1>5, <3>1, <3>2, <3>3, <3>4, <3>5 DEF Polling
  <2>5. /\ starved' \in BOOLEAN /\ window' \in BOOLEAN /\ hidden' \in BOOLEAN
    BY <2>2, Zenon DEF AppTypes
  <2>6. probeFails' \in 0..2
    BY <2>2 DEF AppTypes
  <2>4. dead' \in 0..DeadPolls - 1
    BY <2>3 DEF AppTypes, DeadPolls
  <2> QED
    BY <1>1, <2>1, <2>4, <2>5, <2>6, Zenon DEF AppTypes
<1> QED
  BY <1>2, <1>3, <1>4, <1>5, Zenon DEF WatchdogNext

LEMMA AppTypesInductive == WatchdogSpec => []AppTypes
<1>1. WatchdogInit => AppTypes
  <2>1. 0 \in 0..2 /\ 0 \in 0..1 /\ 0 \in 0..DeadPolls - 1 /\ 0 \in 0..MaxEvents
    BY WatchdogAssumption DEF DeadPolls
  <2> QED
    BY <2>1, Zenon DEF WatchdogInit, AppTypes
<1>2. AppTypes /\ UNCHANGED watchdogVars => AppTypes'
  BY DEF AppTypes, watchdogVars, appVars, fileVars, pollVars
<1> QED
  BY <1>1, <1>2, AppTypesStep, PTL DEF WatchdogSpec

\* The counters of the watchdog stay within what its decisions are made for: one more than
\* MAX_ZOMBIE_RESETS, and fewer dead polls than a restart takes; for any app and any user.
THEOREM WatchdogTypeCorrect == WatchdogSpec => []WatchdogTypeOK
<1>1. PollInv /\ AppTypes => WatchdogTypeOK
  BY Zenon DEF PollInv, AppTypes, WatchdogTypeOK
<1> QED
  BY <1>1, PollInductive, AppTypesInductive, PTL

-----------------------------------------------------------------------------
(* The supervisor of the services.                                         *)

LEMMA HealthStep ==
  ASSUME HealthTypeOK, HealthNext PROVE HealthTypeOK'
<1> USE HealthAssumption
<1>1. CASE \E s \in Services : ServiceDown(s)
  <2>1. outages' \in 0..MaxOutages /\ up' \subseteq Services
    BY <1>1 DEF ServiceDown, HealthTypeOK
  <2> QED
    BY <1>1, <2>1 DEF ServiceDown, HealthTypeOK
<1>2. CASE NextTick
  <2>1. /\ check' \in [Services \cup {"ambient"} -> {"todo", "recover", "done"}]
        /\ UNCHANGED <<up, health, ambient, outages, misses>>
    BY <1>2 DEF NextTick, HealthTypeOK
  <2>2. sinceRepair' \in [Services -> 0..RecoveryCooldown]
    BY <1>2 DEF NextTick, HealthTypeOK, RecoveryCooldown
  <2>3. dogSince' \in 0..Never
    BY <1>2 DEF NextTick, HealthTypeOK, Never, IotCooldown
  <2>4. dogRepairs' \in BOOLEAN
    BY <1>2 DEF NextTick, HealthTypeOK
  <2> QED
    BY <2>1, <2>2, <2>3, <2>4 DEF HealthTypeOK
<1>3. CASE CheckAmbient
  BY <1>3 DEF CheckAmbient, HealthTypeOK
<1>4. CASE DogRepair
  <2>1. misses' \in 0..MaxMisses
    BY <1>4 DEF DogRepair, HealthTypeOK
  <2>2. up' \subseteq Services
    BY <1>4, Zenon DEF DogRepair, HealthTypeOK, Services
  <2>3. dogRepairs' \in BOOLEAN
    BY <1>4, Zenon DEF DogRepair
  <2> QED
    BY <1>4, <2>1, <2>2, <2>3, Zenon DEF DogRepair, HealthTypeOK
<1>5. ASSUME NEW s \in Services, CheckService(s) PROVE HealthTypeOK'
  <2>1. misses' \in 0..MaxMisses
    BY <1>5 DEF CheckService, HealthTypeOK
  <2>2. 0 \in 0..RecoveryCooldown
    BY DEF RecoveryCooldown
  <2>3. /\ health' \in [Services -> {"unknown", "healthy", "degraded", "recovering", "failed"}]
        /\ check' \in [Services \cup {"ambient"} -> {"todo", "recover", "done"}]
        /\ sinceRepair' \in [Services -> 0..RecoveryCooldown]
    BY <1>5, <2>2 DEF CheckService, HealthTypeOK
  <2> QED
    BY <1>5, <2>1, <2>3 DEF CheckService, HealthTypeOK
<1>6. ASSUME NEW s \in Services, RecoverService(s) PROVE HealthTypeOK'
  <2>1. misses' \in 0..MaxMisses /\ up' \subseteq Services
    BY <1>6 DEF RecoverService, HealthTypeOK
  <2>2. /\ health' \in [Services -> {"unknown", "healthy", "degraded", "recovering", "failed"}]
        /\ check' \in [Services \cup {"ambient"} -> {"todo", "recover", "done"}]
    BY <1>6 DEF RecoverService, HealthTypeOK
  <2> QED
    BY <1>6, <2>1, <2>2 DEF RecoverService, HealthTypeOK
<1> QED
  BY <1>1, <1>2, <1>3, <1>4, <1>5, <1>6 DEF HealthNext, Supervise

\* The supervisor counts each service's cool-down on its own and never past its length, also
\* when a repair fails, and repairs only services that there are (mark_failure,
\* bounded_recovery and the IoT watchdog's recovery_allowed).
THEOREM HealthTypeCorrect == HealthSpec => []HealthTypeOK
<1>1. HealthInit => HealthTypeOK
  <2>1. /\ 0 \in 0..MaxOutages /\ 0 \in 0..MaxMisses /\ Never \in 0..Never
        /\ RecoveryCooldown \in 0..RecoveryCooldown
    BY HealthAssumption DEF RecoveryCooldown, Never, IotCooldown
  <2> QED
    BY <2>1, Zenon DEF HealthInit, HealthTypeOK
<1>2. HealthTypeOK /\ UNCHANGED healthVars => HealthTypeOK'
  BY DEF HealthTypeOK, healthVars
<1> QED
  BY <1>1, <1>2, HealthStep, PTL DEF HealthSpec

-----------------------------------------------------------------------------
(* The services.                                                           *)

ServiceInv == ServiceTypeOK /\ RunningBridgeIsKept

InstallSteps == {"idle", "upStop", "upWait", "upCopy", "upStart", "check", "refresh",
                 "remove", "delete", "create", "start"}

\* One step of a request moves that request, and only by these ways.
LEMMA InstallMoves ==
  ASSUME ServiceTypeOK, NEW d \in Doors
  PROVE  /\ \A step \in InstallSteps : To(d, step) =>
              /\ ensure' \in [Doors -> InstallSteps] /\ ensure'[d] = step
              /\ \A e \in Doors : e # d => ensure'[e] = ensure[e]
              /\ ensured' \in [Doors -> {"none", "ok", "error"}]
         /\ \A out \in {"ok", "error"} : Done(d, out) =>
              /\ ensure' \in [Doors -> InstallSteps] /\ ensure'[d] = "idle"
              /\ \A e \in Doors : e # d => ensure'[e] = ensure[e]
              /\ ensured' \in [Doors -> {"none", "ok", "error"}]
BY DEF ServiceTypeOK, To, Done, InstallSteps

\* A step leaves a request that is at "check" or "upStop" there, ends it, or takes it on
\* when the bridge does not run, or stops it by the upgrade.
StepKeeps ==
  \A d \in Doors :
    \/ ensure'[d] = ensure[d] \/ ensure'[d] = "idle"
    \/ ensure[d] = "idle" /\ ensure'[d] \in {"upStop", "check"}
    \/ ensure[d] \notin {"idle", "upStop", "check"}
    \/ ensure[d] = "upStop" /\ bridge' # "running"
    \/ ensure[d] = "check" /\ bridge # "running"

Bridges == Processes \cup {"gone", "stopped"}

LEMMA DoorStep ==
  ASSUME ServiceTypeOK, NEW d \in Doors,
         \/ Ensure(d) \/ UpgradeStops(d) \/ UpgradeWaits(d) \/ UpgradeCopies(d) \/ UpgradeStarts(d)
         \/ ChecksBridge(d) \/ Refreshes(d) \/ Removes(d) \/ DeletesService(d) \/ Creates(d) \/ Starts(d)
  PROVE  /\ ensure' \in [Doors -> InstallSteps] /\ ensured' \in [Doors -> {"none", "ok", "error"}]
         /\ StepKeeps
<1> USE DEF InstallAt
<1>1. CASE Ensure(d)
  <2>1. ensure[d] = "idle" /\ \E step \in {"upStop", "check"} : To(d, step)
    BY <1>1 DEF Ensure
  <2> QED
    BY <2>1, InstallMoves DEF StepKeeps, InstallSteps
<1>2. CASE UpgradeStops(d)
  <2>1. ensure[d] = "upStop" /\ To(d, "upWait") /\ bridge' # "running"
    BY <1>2 DEF UpgradeStops, ScStop
  <2> QED
    BY <2>1, InstallMoves DEF StepKeeps, InstallSteps
<1>3. CASE ChecksBridge(d)
  <2>1. ensure[d] = "check" /\ (Done(d, "ok") \/ (bridge # "running" /\ To(d, "refresh")))
    <3>1. CASE bridge = "running"
      <4>1. ensure[d] = "check" /\ Done(d, "ok")
        BY <1>3, <3>1 DEF ChecksBridge, LeavesRunningAlone, Done
      <4> QED
        BY <4>1, Zenon
    <3>2. CASE bridge # "running"
      BY <1>3, <3>2, Zenon DEF ChecksBridge, LeavesRunningAlone
    <3> QED
      BY <3>1, <3>2
  <2> QED
    BY <2>1, InstallMoves DEF StepKeeps, InstallSteps
<1>4. CASE \/ UpgradeWaits(d) \/ UpgradeCopies(d) \/ UpgradeStarts(d) \/ Refreshes(d)
           \/ Removes(d) \/ DeletesService(d) \/ Creates(d) \/ Starts(d)
  <2>1. /\ ensure[d] \notin {"idle", "upStop", "check"}
        /\ \/ \E step \in InstallSteps : To(d, step)
           \/ \E out \in {"ok", "error"} : Done(d, out)
    BY <1>4 DEF UpgradeWaits, UpgradeCopies, UpgradeStarts, Refreshes, Removes, DeletesService,
       Creates, Starts, InstallSteps
  <2> QED
    BY <2>1, InstallMoves DEF StepKeeps
<1> QED
  BY <1>1, <1>2, <1>3, <1>4

\* The whole next-state relation, for the types and for the requests.
LEMMA ServiceStepTypes ==
  ASSUME ServiceTypeOK, ServiceNext
  PROVE  ServiceTypeOK' /\ StepKeeps
<1> USE InstallAssumption DEF Rest, faceSvcVars, bridgeVars, InstallSteps
<1>0. steady' \in [Doors -> BOOLEAN]
  BY DEF ServiceNext, KeepsSteady
<1>1. ASSUME NEW d \in Doors, Ensure(d) PROVE ServiceTypeOK' /\ StepKeeps
  <2>1. ensures' \in 0..MaxEnsures
    BY <1>1 DEF Ensure, ServiceTypeOK
  <2> QED
    BY <1>0, <1>1, <2>1, DoorStep DEF Ensure, ServiceTypeOK
<1>2. ASSUME NEW d \in Doors,
             \/ UpgradeStops(d) \/ UpgradeWaits(d) \/ UpgradeCopies(d) \/ UpgradeStarts(d)
             \/ ChecksBridge(d) \/ Refreshes(d) \/ Removes(d) \/ DeletesService(d) \/ Creates(d) \/ Starts(d)
      PROVE  ServiceTypeOK' /\ StepKeeps
  <2>1. bridge' \in Bridges /\ restarts' \in BOOLEAN /\ crashed' \in BOOLEAN
    BY <1>2, Zenon
    DEF UpgradeStops, UpgradeWaits, UpgradeCopies, UpgradeStarts, ChecksBridge, Refreshes, Removes,
       DeletesService, Creates, Starts, ServiceTypeOK, Bridges, Processes, ScStop, ScStart
  <2>2. exeVersion' \in 0..2 /\ svcFaults' \in 0..MaxSvcFaults
    BY <1>2
    DEF UpgradeStops, UpgradeWaits, UpgradeCopies, UpgradeStarts, ChecksBridge, Refreshes, Removes,
        DeletesService, Creates, Starts, ServiceTypeOK, SvcFault, Found
  <2>3. UNCHANGED <<faceSvcVars, ensures>>
    BY <1>2
    DEF UpgradeStops, UpgradeWaits, UpgradeCopies, UpgradeStarts, ChecksBridge, Refreshes, Removes,
        DeletesService, Creates, Starts
  <2> QED
    BY <1>0, <1>2, <2>1, <2>2, <2>3, DoorStep DEF ServiceTypeOK, Bridges
<1>3. ASSUME NEW d \in Doors, EnsureFace(d) PROVE ServiceTypeOK' /\ StepKeeps
  <2>1. face' \in {"gone", "stopped", "pending", "running"} /\ ensures' \in 0..MaxEnsures
    BY <1>3 DEF EnsureFace, FaceReinstalls, FaceRestarts, ServiceTypeOK
  <2>2. faceCooldown' \in BOOLEAN
    BY <1>3 DEF EnsureFace, FaceReinstalls, FaceRestarts, ServiceTypeOK
  <2> QED
    BY <1>0, <1>3, <2>1, <2>2 DEF EnsureFace, ServiceTypeOK, StepKeeps
<1>4. CASE DiesWithService
  <2>1. "pipe" \in Doors /\ Done("pipe", "error")
    BY <1>4 DEF DiesWithService, Doors
  <2> QED
    BY <1>0, <1>4, <2>1, InstallMoves DEF DiesWithService, ServiceTypeOK, StepKeeps
<1>5. CASE Manager
  <2>1. bridge' \in Bridges /\ crashed' \in BOOLEAN
    BY <1>5, Zenon DEF Manager, ComesUp, GoesDown, UserStops, Crashes, Restarts, ServiceTypeOK,
       Bridges, Processes
  <2>2. svcFaults' \in 0..MaxSvcFaults
    BY <1>5 DEF Manager, ComesUp, GoesDown, UserStops, Crashes, Restarts, ServiceTypeOK, SvcFault
  <2> QED
    BY <1>0, <1>5, <2>1, <2>2 DEF Manager, ServiceTypeOK, StepKeeps, Bridges
<1>6. CASE InstallFace \/ FaceMoves
  <2>1. /\ face' \in {"gone", "stopped", "pending", "running"} /\ ensures' \in 0..MaxEnsures
        /\ svcFaults' \in 0..MaxSvcFaults
    BY <1>6 DEF InstallFace, FaceMoves, ServiceTypeOK, SvcFault
  <2>2. faceExe' \in BOOLEAN /\ faceCooldown' \in BOOLEAN /\ UNCHANGED bridgeVars
    BY <1>6 DEF InstallFace, FaceMoves, ServiceTypeOK
  <2> QED
    BY <1>0, <2>1, <2>2 DEF ServiceTypeOK, StepKeeps
<1> QED
  BY <1>1, <1>2, <1>3, <1>4, <1>5, <1>6 DEF ServiceNext, ServiceStep

\* A bridge that has been running since a request is not taken out of service by it
\* (install_bridge_service looks before it refreshes; the upgrade is the only other way).
THEOREM BridgeIsKept == ServiceSpec => [](ServiceTypeOK /\ RunningBridgeIsKept)
<1>1. ServiceInit => ServiceInv
  <2>1. ServiceInit => ServiceTypeOK
    <3>1. 0 \in 0..MaxEnsures /\ 0 \in 0..MaxSvcFaults /\ 1 \in 0..2
      BY InstallAssumption
    <3> QED
      BY <3>1, Zenon DEF ServiceInit, ServiceTypeOK, Processes
  <2>2. ServiceInit => RunningBridgeIsKept
    BY DEF ServiceInit, RunningBridgeIsKept
  <2> QED
    BY <2>1, <2>2 DEF ServiceInv
<1>2. ServiceInv /\ [ServiceNext]_serviceVars => ServiceInv'
  <2>1. CASE ServiceInv /\ UNCHANGED serviceVars
    BY <2>1
    DEF ServiceInv, ServiceTypeOK, RunningBridgeIsKept, serviceVars, bridgeVars, faceSvcVars
  <2>2. ASSUME ServiceInv, ServiceNext PROVE ServiceInv'
    <3>1. ServiceTypeOK' /\ StepKeeps
      BY <2>2, ServiceStepTypes DEF ServiceInv
    <3>2. ASSUME NEW d \in Doors, steady'[d] PROVE ensure'[d] \in {"upStop", "check"}
      <4>1. /\ bridge = "running" /\ bridge' = "running" /\ ensure'[d] # "idle"
            /\ steady[d] \/ ensure[d] = "idle"
        BY <2>2, <3>2 DEF ServiceNext, KeepsSteady
      <4> QED
        BY <2>2, <3>1, <4>1 DEF ServiceInv, RunningBridgeIsKept, StepKeeps
    <3> QED
      BY <3>1, <3>2 DEF ServiceInv, RunningBridgeIsKept
  <2> QED
    BY <2>1, <2>2
<1> QED
  BY <1>1, <1>2, PTL DEF ServiceSpec, ServiceInv

-----------------------------------------------------------------------------
(* The setup shell of an update.                                           *)

\* A .part that is about to be renamed is whole, and what it was renamed to stays so.
PartIsWhole == \A h \in Handlers : handler[h].at = "written" => partFile = "whole"

UpdatesInv == InstallTypeOK /\ PartIsWhole /\ ShellIsWhole

\* A handler that moves keeps its file.
LEMMA HandlerMoves ==
  ASSUME InstallTypeOK, NEW h \in Handlers,
         NEW to \in {"idle", "look", "fetch", "write", "written", "launch", "failed"},
         HandlerGoes(h, to)
  PROVE  /\ handler' \in [Handlers -> HandlerStates] /\ handler'[h].at = to
         /\ \A g \in Handlers : g # h => handler'[g] = handler[g]
BY DEF InstallTypeOK, HandlerGoes, HandlerStates

\* The steps of a handler with the shell, and where they lead.
LEMMA HandlerStep ==
  ASSUME NEW h \in Handlers,
         LookForShell(h) \/ FetchShell(h) \/ PartWritten(h) \/ RenamePart(h) \/ Launch(h)
  PROVE  /\ UNCHANGED <<feed, flow, updateFile>>
         /\ \E to \in {"idle", "look", "fetch", "write", "written", "launch", "failed"} :
              HandlerGoes(h, to) /\ (to = "written" => partFile' = "whole")
BY Zenon DEF LookForShell, FetchShell, PartWritten, RenamePart, Launch

LEMMA InstallTypesStep ==
  ASSUME InstallTypeOK, UpdatesNext PROVE InstallTypeOK'
<1> USE UpdatesAssumption DEF bootstrapVars
<1>0. /\ handler \in [Handlers -> HandlerStates] /\ \A g \in Handlers : handler[g] \in HandlerStates
      /\ "none" \in FileStates /\ "torn" \in FileStates /\ "whole" \in FileStates
  BY DEF InstallTypeOK, FileStates
<1>1. /\ updateAsks' \in 0..MaxAsks /\ updateFaults' \in 0..MaxUpdateFaults
  BY DEF UpdatesNext, SetFeed, FindLatest, CheckDrivers, UpdateCrash, Download, WriteEnds, FlowEnds,
     BeginInstall, LookForShell, FetchShell, PartWritten, RenamePart, Launch, Ask, UpdateFault,
     InstallTypeOK
<1>2. CASE \/ \E on \in BOOLEAN : SetFeed(on)
           \/ FindLatest \/ CheckDrivers
           \/ \E f \in Flows : Download(f) \/ WriteEnds(f) \/ FlowEnds(f)
  <2>1. UNCHANGED <<handler, shellFile, partFile, launched>>
    BY <1>2 DEF SetFeed, FindLatest, CheckDrivers, Download, WriteEnds, FlowEnds
  <2>2. /\ flow' \in [Flows -> {"idle", "writing", "asked", "error"}]
        /\ updateFile' \in [UpdateFiles -> FileStates]
    BY <1>0, <1>2 DEF SetFeed, FindLatest, CheckDrivers, Download, WriteEnds, FlowEnds, FlowGoes,
       InstallTypeOK
  <2>3. feed' \in BOOLEAN
    BY <1>2 DEF SetFeed, FindLatest, CheckDrivers, Download, WriteEnds, FlowEnds, InstallTypeOK
  <2> QED
    BY <1>0, <1>1, <2>1, <2>2, <2>3 DEF InstallTypeOK
<1>3. CASE UpdateCrash
  <2>1. handler' \in [Handlers -> HandlerStates]
    BY <1>3 DEF UpdateCrash, IdleHandler, HandlerStates, UpdateFiles
  <2>2. flow' \in [Flows -> {"idle", "writing", "asked", "error"}]
    BY <1>3 DEF UpdateCrash
  <2> QED
    BY <1>0, <1>1, <1>3, <2>1, <2>2 DEF UpdateCrash, InstallTypeOK
<1>4. ASSUME NEW f \in Flows, NEW h \in Handlers, BeginInstall(f, h) PROVE InstallTypeOK'
  <2>1. FileOf[f] \in UpdateFiles
    BY DEF FileOf, UpdateFiles
  <2>2. handler' \in [Handlers -> HandlerStates]
    BY <1>0, <1>4, <2>1 DEF BeginInstall, HandlerStates
  <2> QED
    BY <1>0, <1>1, <1>4, <2>2 DEF BeginInstall, InstallTypeOK
<1>5. ASSUME NEW h \in Handlers,
             LookForShell(h) \/ FetchShell(h) \/ PartWritten(h) \/ RenamePart(h) \/ Launch(h)
      PROVE  InstallTypeOK'
  <2>1. handler' \in [Handlers -> HandlerStates] /\ UNCHANGED <<feed, flow, updateFile>>
    BY <1>5, HandlerStep, HandlerMoves
  <2>2. shellFile' \in FileStates /\ partFile' \in FileStates /\ launched' \in FileStates
    BY <1>0, <1>5, Zenon DEF LookForShell, FetchShell, PartWritten, RenamePart, Launch, InstallTypeOK
  <2> QED
    BY <1>0, <1>1, <2>1, <2>2 DEF InstallTypeOK
<1> QED
  BY <1>2, <1>3, <1>4, <1>5 DEF UpdatesNext

LEMMA UpdatesBegin == UpdatesInit => InstallTypeOK
<1>1. 0 \in 0..MaxAsks /\ 0 \in 0..MaxUpdateFaults
  BY UpdatesAssumption
<1>2. IdleHandler \in HandlerStates
  BY DEF IdleHandler, HandlerStates, UpdateFiles
<1> QED
  BY <1>1, <1>2, Zenon DEF UpdatesInit, InstallTypeOK, FileStates

LEMMA UpdatesStep ==
  ASSUME \A g, h \in Handlers : g = h, UpdatesInv, UpdatesNext PROVE UpdatesInv'
<1> USE DEF bootstrapVars
<1>0. /\ InstallTypeOK /\ PartIsWhole /\ ShellIsWhole /\ InstallTypeOK'
      /\ handler \in [Handlers -> HandlerStates] /\ \A g \in Handlers : handler[g] \in HandlerStates
  BY InstallTypesStep DEF UpdatesInv, InstallTypeOK
<1> SUFFICES PartIsWhole' /\ ShellIsWhole'
  BY <1>0 DEF UpdatesInv
<1>2. CASE \/ \E on \in BOOLEAN : SetFeed(on)
           \/ FindLatest \/ CheckDrivers
           \/ \E f \in Flows : Download(f) \/ WriteEnds(f) \/ FlowEnds(f)
  <2>1. UNCHANGED <<handler, shellFile, partFile, launched>>
    BY <1>2 DEF SetFeed, FindLatest, CheckDrivers, Download, WriteEnds, FlowEnds
  <2> QED
    BY <1>0, <2>1 DEF PartIsWhole, ShellIsWhole
<1>3. CASE UpdateCrash
  BY <1>0, <1>3 DEF UpdateCrash, IdleHandler, PartIsWhole, ShellIsWhole
<1>4. ASSUME NEW f \in Flows, NEW h \in Handlers, BeginInstall(f, h)
      PROVE  PartIsWhole' /\ ShellIsWhole'
  <2>1. \A g \in Handlers : handler'[g].at = "written" => handler[g].at = "written"
    BY <1>0, <1>4 DEF BeginInstall, HandlerStates
  <2> QED
    BY <1>0, <1>4, <2>1 DEF BeginInstall, PartIsWhole, ShellIsWhole
<1>5. ASSUME NEW h \in Handlers,
             LookForShell(h) \/ FetchShell(h) \/ PartWritten(h) \/ RenamePart(h) \/ Launch(h)
      PROVE  PartIsWhole' /\ ShellIsWhole'
  <2>1. PartIsWhole'
    BY <1>0, <1>5, HandlerStep, HandlerMoves DEF PartIsWhole
  <2>2. ShellIsWhole'
    BY <1>0, <1>5 DEF LookForShell, FetchShell, PartWritten, RenamePart, Launch, PartIsWhole,
       ShellIsWhole
  <2> QED
    BY <2>1, <2>2
<1> QED
  BY <1>2, <1>3, <1>4, <1>5 DEF UpdatesNext

\* With one run of install_update at a time, the shell that is launched was put in place
\* whole, through failed downloads, failed writes and crashes (ensure_shell: the .part goes
\* first, and is renamed when it is written out).
THEOREM LaunchesWholeShell ==
  ASSUME \A g, h \in Handlers : g = h PROVE UpdatesSpec => [](InstallTypeOK /\ ShellIsWhole)
<1>1. UpdatesInit => UpdatesInv
  BY UpdatesBegin DEF UpdatesInit, UpdatesInv, PartIsWhole, ShellIsWhole, IdleHandler
<1>2. UpdatesInv /\ [UpdatesNext]_updateVars => UpdatesInv'
  <2>1. CASE UpdatesInv /\ UNCHANGED updateVars
    BY <2>1 DEF UpdatesInv, InstallTypeOK, PartIsWhole, ShellIsWhole, updateVars
  <2> QED
    BY <2>1, UpdatesStep
<1> QED
  BY <1>1, <1>2, PTL DEF UpdatesSpec, UpdatesInv

\* The links a page offers: of the two forms of page, the second link of the line at most.
LEMMA DriversOffered ==
  ASSUME NEW page \in Pages, NEW d \in OfficialDrivers(page) PROVE d.version = <<3>>
<1>1. PICK l \in 1..Len(page) : /\ FirstCdn(page[l]) < Len(page[l])
                                /\ d = page[l][FirstCdn(page[l]) + 1]
  BY DEF OfficialDrivers
<1>2. \A line, k : Len(line) = 1 /\ line[1] = Link(TRUE, k) => FirstCdn(line) = 1
  BY DEF FirstCdn, Link
<1>3. \A line, k, n : /\ Len(line) = 2 /\ line[1] = Link(TRUE, k) /\ line[2] = Link(FALSE, n)
                      => FirstCdn(line) = 1
  <2> SUFFICES ASSUME NEW line, NEW k, NEW n, Len(line) = 2, line[1] = Link(TRUE, k),
                      line[2] = Link(FALSE, n)
               PROVE  FirstCdn(line) = 1
    OBVIOUS
  <2>1. \A i \in 1..Len(line) : (line[i].cdn /\ \A j \in 1..i - 1 : ~line[j].cdn) <=> i = 1
    BY DEF Link
  <2> QED
    BY <2>1 DEF FirstCdn
<1>4. CASE page = << <<Link(TRUE, <<2, 1>>), Link(FALSE, <<3>>)>> >>
  <2>1. Len(page) = 1 /\ page[1] = <<Link(TRUE, <<2, 1>>), Link(FALSE, <<3>>)>>
    BY <1>4
  <2>2. l = 1
    BY <2>1
  <2>3. /\ Len(page[1]) = 2 /\ page[1][1] = Link(TRUE, <<2, 1>>)
        /\ page[1][2] = Link(FALSE, <<3>>)
    BY <2>1
  <2>4. FirstCdn(page[1]) = 1
    BY <1>3, <2>3, Zenon
  <2>5. d = page[1][1 + 1]
    BY <1>1, <2>2, <2>4, Zenon
  <2>6. d = Link(FALSE, <<3>>)
    <3>1. 1 + 1 = 2
      OBVIOUS
    <3> QED
      BY <2>3, <2>5, <3>1, Zenon
  <2> QED
    BY <2>6 DEF Link
<1>5. CASE page = << <<Link(TRUE, <<2, 1>>)>>, <<Link(TRUE, <<2>>)>> >>
  <2>1. Len(page) = 2 /\ page[1] = <<Link(TRUE, <<2, 1>>)>> /\ page[2] = <<Link(TRUE, <<2>>)>>
    BY <1>5
  <2>2. l = 1 \/ l = 2
    BY <2>1
  <2>3. PICK k : page[l] = <<Link(TRUE, k)>>
    BY <2>1, <2>2, Zenon
  <2>4. Len(<<Link(TRUE, k)>>) = 1 /\ <<Link(TRUE, k)>>[1] = Link(TRUE, k)
    OBVIOUS
  <2>5. Len(page[l]) = 1 /\ FirstCdn(page[l]) = 1
    BY <1>2, <2>3, <2>4, Zenon
  <2>6. 1 < 1
    BY <1>1, <2>5, Zenon
  <2> QED
    BY <2>6
<1> QED
  BY <1>4, <1>5 DEF Pages

\* The types of the updates, whatever runs of install_update meet; and of the driver page,
\* read up to the link after the vendor's first one, only that link's version is offered
\* (fetch_official_drivers, version_is_newer).
THEOREM UpdatesTypeCorrect == UpdatesSpec => [](UpdatesTypeOK /\ offers \subseteq {<<3>>})
<1> DEFINE Inv == InstallTypeOK /\ offers \subseteq {<<3>>}
<1>1. UpdatesInit => Inv
  BY UpdatesBegin DEF UpdatesInit
<1>2. Inv /\ [UpdatesNext]_updateVars => Inv'
  <2> SUFFICES ASSUME Inv, [UpdatesNext]_updateVars PROVE Inv'
    OBVIOUS
  <2>1. CASE UNCHANGED updateVars
    BY <2>1 DEF updateVars, InstallTypeOK
  <2>2. CASE CheckDrivers
    <3>1. offers' \subseteq {<<3>>}
      BY <2>2, DriversOffered DEF CheckDrivers
    <3>2. InstallTypeOK'
      BY <2>2, InstallTypesStep DEF UpdatesNext
    <3> QED
      BY <3>1, <3>2
  <2>3. CASE UpdatesNext /\ ~CheckDrivers
    <3>1. offers' = offers
      BY <2>3 DEF UpdatesNext, SetFeed, FindLatest, UpdateCrash, Download, WriteEnds, FlowEnds,
         BeginInstall, LookForShell, FetchShell, PartWritten, RenamePart, Launch
    <3> QED
      BY <2>3, <3>1, InstallTypesStep
  <2> QED
    BY <2>1, <2>2, <2>3
<1>3. Inv => UpdatesTypeOK /\ offers \subseteq {<<3>>}
  BY DEF UpdatesTypeOK
<1> QED
  BY <1>1, <1>2, <1>3, PTL DEF UpdatesSpec

-----------------------------------------------------------------------------
(* The key.                                                                *)

\* Without a migration, a rotation or a refused access list there is one key at most, and
\* it is the file's; nobody makes it who has not the lock.
KeyIsFiles ==
  /\ rotator # "idle" => rotations > 0
  /\ \A u \in KeyUsers : KeyAt(u, "migrate") \/ KeyAt(u, "migrating") => legacyKey # NoKeyFile
  /\ Undisturbed =>
       /\ \A u \in KeyUsers : held[u] # NoKeyFile => held[u] = keyFile /\ keyFile \in FileKeys
       /\ \A key \in auditLog : key = keyFile /\ keyFile \in FileKeys

KeyInv == AuthKeyTypeOK /\ KeyIsFiles

\* The files' names for "no key" are no keys.
LEMMA Names ==
  /\ NoKeyFile \notin FileKeys /\ Torn \notin FileKeys
  /\ \A k \in FileKeys : k # NoKeyFile /\ k # Torn
BY AuthKeyAssumption DEF NoKeyFile, Torn, FileKeys

\* A process that moves keeps whether it makes a key.
LEMMA KeyMoves ==
  ASSUME AuthKeyTypeOK, NEW u \in KeyUsers,
         NEW at \in {"idle", "migrate", "migrating", "open", "locked", "acl"}, KeyGoes(u, at)
  PROVE  /\ keyUser' \in [KeyUsers -> KeyUserStates] /\ keyUser'[u].at = at
         /\ \A v \in KeyUsers : v # u => keyUser'[v] = keyUser[v]
BY DEF AuthKeyTypeOK, KeyGoes, KeyUserStates

\* WantsKey: the one who asks gives up the key it had.
LEMMA WantsStep ==
  ASSUME KeyInv, NEW u \in KeyUsers, NEW create \in BOOLEAN, WantsKey(u, create)
  PROVE  KeyInv'
<1> USE DEF KeyInv
<1>1. /\ keyUser' \in [KeyUsers -> KeyUserStates]
      /\ \A v \in KeyUsers : v # u => keyUser'[v] = keyUser[v]
      /\ keyUser'[u].at = "open" \/ (keyUser'[u].at = "migrate" /\ legacyKey # NoKeyFile)
  BY DEF WantsKey, AuthKeyTypeOK, KeyUserStates
<1>2. /\ held' \in [KeyUsers -> FileKeys \cup {NoKeyFile}] /\ held'[u] = NoKeyFile
      /\ \A v \in KeyUsers : v # u => held'[v] = held[v]
  BY DEF WantsKey, Takes, AuthKeyTypeOK
<1>3. UNCHANGED <<keyFile, oldKey, legacyKey, keyLock, rotator, auditLog, rotations, keysMade, keyFaults>>
  BY DEF WantsKey, keyFileVars, Elsewhere
<1>4. AuthKeyTypeOK'
  BY <1>1, <1>2, <1>3 DEF AuthKeyTypeOK
<1>5. KeyIsFiles'
  BY <1>1, <1>2, <1>3 DEF KeyIsFiles, KeyAt, Undisturbed
<1> QED
  BY <1>4, <1>5

\* The migration, which only an old key begins.
LEMMA MigrateStep ==
  ASSUME KeyInv, NEW u \in KeyUsers, MigrateOpens(u) \/ MigrateWrites(u)
  PROVE  KeyInv'
<1> USE DEF KeyInv
<1>1. /\ KeyAt(u, "migrate") \/ KeyAt(u, "migrating")
      /\ KeyGoes(u, "migrating") \/ KeyGoes(u, "open")
      /\ UNCHANGED <<oldKey, legacyKey, keyLock, held, rotator, auditLog, rotations, keysMade, keyFaults>>
  BY DEF MigrateOpens, MigrateWrites, Elsewhere
<1>2. legacyKey # NoKeyFile
  BY <1>1 DEF KeyIsFiles
<1>3. keyFile' \in FileKeys \cup {NoKeyFile, Torn}
  BY AuthKeyAssumption DEF MigrateOpens, MigrateWrites, AuthKeyTypeOK, FileKeys, Legacy
<1>4. /\ keyUser' \in [KeyUsers -> KeyUserStates]
      /\ \A v \in KeyUsers : v # u => keyUser'[v] = keyUser[v]
  BY <1>1, KeyMoves
<1>5. AuthKeyTypeOK'
  BY <1>1, <1>3, <1>4 DEF AuthKeyTypeOK
<1>6. KeyIsFiles'
  BY <1>1, <1>2 DEF KeyIsFiles, Undisturbed
<1> QED
  BY <1>5, <1>6

\* Reading, waiting for the lock, having it and finding a key there.
LEMMA ReadStep ==
  ASSUME KeyInv, NEW u \in KeyUsers,
         ReadsKey(u) \/ LocksKey(u) \/ LockTimesOut(u) \/ FindsKey(u)
  PROVE  KeyInv'
<1> USE DEF KeyInv
<1>1. /\ \E at \in {"idle", "locked"} : KeyGoes(u, at)
      /\ UNCHANGED <<oldKey, legacyKey, rotator, auditLog, rotations, keysMade, keyFaults>>
      /\ keyFile' = keyFile \/ (keyFile = NoKeyFile /\ keyFile' = Torn)
      /\ \/ UNCHANGED held
         \/ Takes(u, NoKeyFile) \/ (keyFile \in FileKeys /\ keyFile' = keyFile /\ Takes(u, keyFile))
      /\ keyLock' \in KeyUsers \cup {"nobody"}
  BY DEF ReadsKey, LocksKey, LockTimesOut, FindsKey, Elsewhere, keyFileVars, AuthKeyTypeOK
<1>2. /\ keyUser' \in [KeyUsers -> KeyUserStates] /\ keyUser'[u].at \in {"idle", "locked"}
      /\ \A v \in KeyUsers : v # u => keyUser'[v] = keyUser[v]
  BY <1>1, KeyMoves
<1>3. /\ held' \in [KeyUsers -> FileKeys \cup {NoKeyFile}]
      /\ \A v \in KeyUsers : \/ held'[v] = held[v] \/ held'[v] = NoKeyFile
                             \/ keyFile \in FileKeys /\ keyFile' = keyFile /\ held'[v] = keyFile
  BY <1>1 DEF Takes, AuthKeyTypeOK
<1>4. AuthKeyTypeOK'
  BY <1>1, <1>2, <1>3 DEF AuthKeyTypeOK
<1>5. KeyIsFiles'
  BY <1>1, <1>2, <1>3, Names DEF KeyIsFiles, KeyAt, Undisturbed
<1> QED
  BY <1>4, <1>5

\* MakesKey: only where there is none, so that none is held or signed with.
LEMMA MakeStep ==
  ASSUME KeyInv, NEW u \in KeyUsers, MakesKey(u) PROVE KeyInv'
<1> USE DEF KeyInv
<1>1. /\ keyFile \notin FileKeys /\ keyFile' = keysMade' /\ Takes(u, keysMade') /\ keyLock' = "nobody"
      /\ KeyGoes(u, "acl") /\ keysMade < MaxKeys /\ keysMade' = keysMade + 1
      /\ UNCHANGED <<oldKey, legacyKey, rotator, auditLog, rotations, keyFaults>>
  BY DEF MakesKey, MakesWhenTorn, NewKey, Elsewhere
<1>2. keysMade' \in 0..MaxKeys /\ keysMade' \in FileKeys
  BY <1>1, AuthKeyAssumption DEF AuthKeyTypeOK, FileKeys
<1>3. /\ keyUser' \in [KeyUsers -> KeyUserStates] /\ keyUser'[u].at = "acl"
      /\ \A v \in KeyUsers : v # u => keyUser'[v] = keyUser[v]
  BY <1>1, KeyMoves
<1>4. /\ held' \in [KeyUsers -> FileKeys \cup {NoKeyFile}] /\ held'[u] = keyFile'
      /\ \A v \in KeyUsers : v # u => held'[v] = held[v]
  BY <1>1, <1>2 DEF Takes, AuthKeyTypeOK
<1>5. AuthKeyTypeOK'
  BY <1>1, <1>2, <1>3, <1>4 DEF AuthKeyTypeOK
<1>6. KeyIsFiles'
  BY <1>1, <1>2, <1>3, <1>4 DEF KeyIsFiles, KeyAt, Undisturbed
<1> QED
  BY <1>5, <1>6

\* The rest: a key whose access list is refused goes, the rotation, the old copy's end, the log.
LEMMA KeyRestStep ==
  ASSUME KeyInv,
         \/ \E u \in KeyUsers : RestrictsAcl(u)
         \/ RotateSaves \/ RotateTruncates \/ RotateWrites \/ OldKeyExpires \/ LogConsent("app")
  PROVE  KeyInv'
<1> USE DEF KeyInv
<1>0. /\ rotations \in Nat /\ keyFaults \in Nat /\ "app" \in KeyUsers
  BY AuthKeyAssumption DEF AuthKeyTypeOK
<1>1. ASSUME NEW u \in KeyUsers, RestrictsAcl(u) PROVE KeyInv'
  <2>1. /\ keyUser' \in [KeyUsers -> KeyUserStates] /\ keyUser'[u].at = "idle"
        /\ \A v \in KeyUsers : v # u => keyUser'[v] = keyUser[v]
    BY <1>1, KeyMoves DEF RestrictsAcl
  <2>2. UNCHANGED <<oldKey, legacyKey, keyLock, rotator, auditLog, rotations, keysMade>>
    BY <1>1 DEF RestrictsAcl, Elsewhere
  <2>3. CASE UNCHANGED <<keyFile, held, keyFaults>>
    BY <2>1, <2>2, <2>3 DEF AuthKeyTypeOK, KeyIsFiles, KeyAt, Undisturbed
  <2>4. CASE /\ rotations + keyFaults < MaxDisturbed /\ keyFaults' = keyFaults + 1
             /\ keyFile' = NoKeyFile /\ Takes(u, NoKeyFile)
    <3>1. keyFaults' \in 0..MaxDisturbed /\ keyFaults' # 0
      BY <1>0, <2>4, AuthKeyAssumption
    <3>2. held' \in [KeyUsers -> FileKeys \cup {NoKeyFile}]
      BY <2>4 DEF Takes, AuthKeyTypeOK
    <3> QED
      BY <2>1, <2>2, <2>4, <3>1, <3>2 DEF AuthKeyTypeOK, KeyIsFiles, KeyAt, Undisturbed
  <2> QED
    BY <1>1, <2>3, <2>4 DEF RestrictsAcl
<1>2. CASE RotateSaves
  <2>1. rotations' \in 0..MaxDisturbed /\ rotations' > 0
    BY <1>0, <1>2, AuthKeyAssumption DEF RotateSaves
  <2> QED
    BY <1>2, <2>1 DEF RotateSaves, AuthKeyTypeOK, KeyIsFiles, KeyAt, Undisturbed
<1>3. CASE RotateTruncates \/ RotateWrites
  <2>1. rotations > 0 /\ rotator' \in {"idle", "truncated"}
    BY <1>3 DEF RotateTruncates, RotateWrites, KeyIsFiles
  <2>2. /\ UNCHANGED <<oldKey, legacyKey, keyLock, keyUser, held, auditLog, rotations, keyFaults>>
        /\ keysMade' \in 0..MaxKeys /\ keyFile' \in FileKeys \cup {NoKeyFile, Torn}
    BY <1>3, AuthKeyAssumption DEF RotateTruncates, RotateWrites, NewKey, AuthKeyTypeOK, FileKeys
  <2> QED
    BY <1>0, <2>1, <2>2 DEF AuthKeyTypeOK, KeyIsFiles, KeyAt, Undisturbed
<1>4. CASE OldKeyExpires
  BY <1>4 DEF OldKeyExpires, Elsewhere, AuthKeyTypeOK, KeyIsFiles, KeyAt, Undisturbed
<1>5. CASE LogConsent("app")
  <2>1. /\ auditLog' \subseteq auditLog \cup {held["app"]} /\ held["app"] # NoKeyFile
        /\ UNCHANGED <<keyFile, oldKey, legacyKey, keyLock, keyUser, held, rotator, keysMade,
                       rotations, keyFaults>>
    BY <1>5 DEF LogConsent, RotateAudit, keyFileVars
  <2> QED
    BY <1>0, <2>1 DEF AuthKeyTypeOK, KeyIsFiles, KeyAt, Undisturbed
<1> QED
  BY <1>1, <1>2, <1>3, <1>4, <1>5

\* Processes that start together agree on one key, which is accepted, and the log they sign
\* verifies, as long as nothing migrates or rotates beside them: the lock of
\* get_or_create_key is enough for any number of processes.
THEOREM KeysAgree == AuthKeySpec => [](AuthKeyTypeOK /\ OneKey)
<1>1. AuthKeyInit => KeyInv
  <2>1. AuthKeyInit => AuthKeyTypeOK
    <3>1. 0 \in 0..MaxKeys /\ 0 \in 0..MaxDisturbed
      BY AuthKeyAssumption
    <3>2. [at |-> "idle", create |-> FALSE] \in KeyUserStates
      BY DEF KeyUserStates
    <3> QED
      BY <3>1, <3>2 DEF AuthKeyInit, AuthKeyTypeOK
  <2> QED
    BY <2>1 DEF AuthKeyInit, KeyInv, KeyIsFiles, KeyAt
<1>2. KeyInv /\ [AuthKeyNext]_keyVars => KeyInv'
  <2>1. CASE KeyInv /\ UNCHANGED keyVars
    BY <2>1 DEF KeyInv, AuthKeyTypeOK, KeyIsFiles, KeyAt, Undisturbed, keyVars, keyFileVars
  <2>2. CASE KeyInv /\ AuthKeyNext
    BY <2>2, WantsStep, MigrateStep, ReadStep, MakeStep, KeyRestStep DEF AuthKeyNext
  <2> QED
    BY <2>1, <2>2
<1>3. KeyInv => AuthKeyTypeOK /\ OneKey
  BY DEF KeyInv, KeyIsFiles, OneKey, AcceptedKeys, AuditVerifies
<1> QED
  BY <1>1, <1>2, <1>3, PTL DEF AuthKeySpec

-----------------------------------------------------------------------------
(* The logs.                                                               *)

\* The places of a log, from the live file on: newer before older, none left out.
Places == 0..OldFiles
Ordered(s) == \A i, j \in Places : i < j /\ s[i] # Missing => s[j] < s[i]
Unbroken(s, newest) ==
  \A i \in Places, f \in Nat :
    s[i] # Missing /\ s[i] <= f /\ f <= newest => \E j \in Places : s[j] = f

\* The file of the last place is the oldest: without it the others are still unbroken.
LEMMA OldestGoes ==
  ASSUME NEW s \in [Places -> Nat], NEW newest \in Nat, Ordered(s), Unbroken(s, newest)
  PROVE  LET t == [s EXCEPT ![OldFiles] = Missing] IN
         t \in [Places -> Nat] /\ Ordered(t) /\ Unbroken(t, newest)
<1> DEFINE t == [s EXCEPT ![OldFiles] = Missing]
<1>1. /\ OldFiles \in Places /\ t \in [Places -> Nat] /\ t[OldFiles] = 0
      /\ \A i \in Places : i # OldFiles => t[i] = s[i] /\ i < OldFiles
  BY UserDataAssumption DEF Places, Missing
<1> HIDE DEF t
<1>2. Ordered(t)
  <2> SUFFICES ASSUME NEW i \in Places, NEW j \in Places, i < j, t[i] # Missing
               PROVE  t[j] < t[i]
    BY DEF Ordered
  <2>1. i # OldFiles /\ t[i] = s[i] /\ s[j] < s[i] /\ s[i] \in Nat /\ s[j] \in Nat
    BY <1>1 DEF Ordered, Missing
  <2> QED
    BY <1>1, <2>1
<1>3. Unbroken(t, newest)
  <2> SUFFICES ASSUME NEW i \in Places, NEW f \in Nat, t[i] # Missing, t[i] <= f, f <= newest
               PROVE  \E j \in Places : t[j] = f
    BY DEF Unbroken
  <2>1. i # OldFiles /\ t[i] = s[i] /\ i < OldFiles /\ s[i] \in Nat
    BY <1>1 DEF Missing
  <2>2. PICK j \in Places : s[j] = f
    BY <2>1 DEF Unbroken
  <2>3. j # OldFiles
    BY <1>1, <2>1, <2>2 DEF Ordered
  <2> QED
    BY <1>1, <2>2, <2>3
<1> QED
  BY <1>1, <1>2, <1>3 DEF t

\* A file moved to an empty place behind its own changes neither order nor stock.
LEMMA FileShifts ==
  ASSUME NEW s \in [Places -> Nat], NEW newest \in Nat, Ordered(s), Unbroken(s, newest),
         NEW p \in Places, p + 1 \in Places, s[p + 1] = Missing
  PROVE  LET t == [s EXCEPT ![p + 1] = s[p], ![p] = Missing] IN
         t \in [Places -> Nat] /\ Ordered(t) /\ Unbroken(t, newest)
<1> DEFINE t == [s EXCEPT ![p + 1] = s[p], ![p] = Missing]
<1>1. /\ p \in Int /\ p # p + 1 /\ t \in [Places -> Nat] /\ t[p] = 0 /\ t[p + 1] = s[p]
      /\ \A i \in Places : i \in Int /\ s[i] \in Nat /\ (i # p /\ i # p + 1 => t[i] = s[i])
  BY UserDataAssumption DEF Places, Missing
<1> HIDE DEF t
<1>2. Ordered(t)
  <2> SUFFICES ASSUME NEW i \in Places, NEW j \in Places, i < j, t[i] # Missing
               PROVE  t[j] < t[i]
    BY DEF Ordered
  <2>1. i # p /\ i \in Int /\ j \in Int
    BY <1>1 DEF Missing
  <2>2. CASE i = p + 1
    <3>1. p < j /\ j # p /\ j # p + 1
      BY <1>1, <2>1, <2>2
    <3> QED
      BY <1>1, <2>2, <3>1 DEF Ordered
  <2>3. CASE i # p + 1 /\ j = p + 1
    <3>1. i < p
      BY <1>1, <2>1, <2>3
    <3> QED
      BY <1>1, <2>1, <2>3, <3>1 DEF Ordered
  <2>4. CASE i # p + 1 /\ j # p + 1
    <3>1. t[i] = s[i] /\ s[i] # 0 /\ s[j] < s[i] /\ (j = p \/ t[j] = s[j]) /\ s[i] \in Nat /\ s[j] \in Nat
      BY <1>1, <2>1, <2>4 DEF Ordered, Missing
    <3> QED
      BY <1>1, <3>1
  <2> QED
    BY <2>2, <2>3, <2>4
<1>3. Unbroken(t, newest)
  <2> SUFFICES ASSUME NEW i \in Places, NEW f \in Nat, t[i] # Missing, t[i] <= f, f <= newest
               PROVE  \E j \in Places : t[j] = f
    BY DEF Unbroken
  <2>1. \E k \in Places : s[k] = t[i]
    BY <1>1 DEF Missing
  <2>2. PICK j \in Places : s[j] = f
    BY <2>1 DEF Unbroken
  <2>3. f # 0
    BY <1>1 DEF Missing
  <2>4. j # p + 1
    BY <2>2, <2>3 DEF Missing
  <2>5. CASE j = p
    BY <1>1, <2>2, <2>5
  <2>6. CASE j # p
    BY <1>1, <2>2, <2>4, <2>6
  <2> QED
    BY <2>5, <2>6
<1> QED
  BY <1>1, <1>2, <1>3 DEF t

\* A new live file is newer than all.
LEMMA FileBegins ==
  ASSUME NEW s \in [Places -> Nat], NEW newest \in Nat, Ordered(s), Unbroken(s, newest),
         s[0] = Missing, \A i \in Places : s[i] <= newest
  PROVE  LET t == [s EXCEPT ![0] = newest + 1] IN
         /\ t \in [Places -> Nat] /\ Ordered(t) /\ Unbroken(t, newest + 1)
         /\ \A i \in Places : t[i] <= newest + 1
<1> DEFINE t == [s EXCEPT ![0] = newest + 1]
<1>1. /\ 0 \in Places /\ t \in [Places -> Nat] /\ t[0] = newest + 1
      /\ \A i \in Places : i \in Nat /\ s[i] \in Nat /\ (i # 0 => t[i] = s[i])
  BY UserDataAssumption DEF Places
<1> HIDE DEF t
<1>2. Ordered(t) /\ \A i \in Places : t[i] <= newest + 1
  <2>1. \A i \in Places : t[i] <= newest + 1 /\ (i # 0 => t[i] < newest + 1)
    BY <1>1
  <2> QED
    BY <1>1, <2>1 DEF Ordered
<1>3. Unbroken(t, newest + 1)
  <2> SUFFICES ASSUME NEW i \in Places, NEW f \in Nat, t[i] # Missing, t[i] <= f, f <= newest + 1
               PROVE  \E j \in Places : t[j] = f
    BY DEF Unbroken
  <2>1. CASE f = newest + 1
    BY <1>1, <2>1
  <2>2. CASE f # newest + 1
    <3>1. f <= newest /\ i # 0 /\ t[i] = s[i]
      BY <1>1, <2>2
    <3>2. PICK j \in Places : s[j] = f
      BY <3>1 DEF Unbroken
    <3>3. f # 0
      BY <1>1, <3>1 DEF Missing
    <3> QED
      BY <1>1, <3>2, <3>3 DEF Missing
  <2> QED
    BY <2>1, <2>2
<1> QED
  BY <1>1, <1>2, <1>3 DEF t

LogTypes ==
  /\ area \in Areas /\ slots \in [Places -> Nat] /\ begun \in Nat
  /\ logLock \in LogThreads \cup {"free"}
  /\ appender \in [LogThreads -> [at : {"idle", "size", "shift", "write"}, place : Places]]

\* Who shifts has the lock, and the place behind the next one is empty.
LogInv ==
  /\ LogTypes
  /\ \A t \in LogThreads : appender[t].at = "size" => appender[t].place = OldFiles
  /\ area = "rotating" =>
       /\ Ordered(slots) /\ Unbroken(slots, begun) /\ \A i \in Places : slots[i] <= begun
       /\ \A t \in LogThreads : appender[t].at = "shift" =>
            /\ logLock = t
            /\ appender[t].place < OldFiles => slots[appender[t].place + 1] = Missing

\* What a thread does to its own record.
LEMMA LogMoves ==
  ASSUME LogTypes, NEW t \in LogThreads
  PROVE  /\ \A at \in {"idle", "size", "shift", "write"} : LogGoes(t, at) =>
              /\ appender' \in [LogThreads -> [at : {"idle", "size", "shift", "write"}, place : Places]]
              /\ appender'[t].at = at /\ appender'[t].place = appender[t].place
              /\ \A u \in LogThreads : u # t => appender'[u] = appender[u]
         /\ \A i \in Places : appender' = [appender EXCEPT ![t].place = i] =>
              /\ appender' \in [LogThreads -> [at : {"idle", "size", "shift", "write"}, place : Places]]
              /\ appender'[t].at = appender[t].at /\ appender'[t].place = i
              /\ \A u \in LogThreads : u # t => appender'[u] = appender[u]
BY DEF LogTypes, LogGoes

LEMMA AppendsStep ==
  ASSUME LogInv, NEW t \in LogThreads, Appends(t) PROVE LogInv'
<1>1. /\ appender' = [appender EXCEPT ![t] = [at |-> "size", place |-> OldFiles]]
      /\ UNCHANGED <<area, slots, logLock, begun>>
  BY DEF Appends, LogIdle
<1>2. OldFiles \in Places
  BY UserDataAssumption DEF Places
<1>3. /\ appender' \in [LogThreads -> [at : {"idle", "size", "shift", "write"}, place : Places]]
      /\ appender'[t].at = "size" /\ appender'[t].place = OldFiles
      /\ \A u \in LogThreads : u # t => appender'[u] = appender[u]
  BY <1>1, <1>2 DEF LogInv, LogTypes
<1> QED
  BY <1>1, <1>3 DEF LogInv, LogTypes

\* rotation_lock: the shifting begins at the last place, by one thread at a time.
LEMMA SizesStep ==
  ASSUME LogInv, NEW t \in LogThreads, Sizes(t) PROVE LogInv'
<1>1. UNCHANGED <<area, slots, begun>> /\ appender[t].at = "size" /\ appender[t].place = OldFiles
  BY DEF Sizes, LogIdle, LogInv
<1>2. CASE tooBig
  <2>1. LogGoes(t, "shift") /\ logLock' = IF area = "rotating" THEN t ELSE logLock
    BY <1>2 DEF Sizes
  <2>2. area = "rotating" => logLock = "free"
    BY DEF Sizes, MayRotate
  <2>3. /\ appender' \in [LogThreads -> [at : {"idle", "size", "shift", "write"}, place : Places]]
        /\ appender'[t].at = "shift" /\ appender'[t].place = OldFiles
        /\ \A u \in LogThreads : u # t => appender'[u] = appender[u]
    BY <1>1, <2>1, LogMoves DEF LogInv
  <2>4. area = "rotating" => \A u \in LogThreads : u # t => appender'[u].at # "shift"
    BY <2>2, <2>3, UserDataAssumption DEF LogInv
  <2>5. OldFiles \in Nat /\ ~(OldFiles < OldFiles)
    BY UserDataAssumption
  <2>6. logLock' \in LogThreads \cup {"free"}
    BY <2>1 DEF LogInv, LogTypes
  <2> QED
    BY <1>1, <2>1, <2>3, <2>4, <2>5, <2>6 DEF LogInv, LogTypes
<1>3. CASE ~tooBig
  <2>1. LogGoes(t, "write") /\ UNCHANGED logLock
    BY <1>3 DEF Sizes
  <2> QED
    BY <1>1, <2>1, LogMoves DEF LogInv, LogTypes
<1> QED
  BY <1>2, <1>3

\* The oldest goes, then every file moves into the place that was emptied before it.
LEMMA ShiftsStep ==
  ASSUME LogInv, NEW t \in LogThreads, Shifts(t) PROVE LogInv'
<1> DEFINE p == appender[t].place
<1>1. /\ p \in Places /\ appender[t].at = "shift" /\ UNCHANGED <<area, begun>>
      /\ OldFiles \in Places /\ OldFiles # 0 /\ slots \in [Places -> Nat] /\ begun \in Nat
      /\ p # OldFiles => p + 1 \in Places /\ p < OldFiles
      /\ p # 0 => p - 1 \in Places
      /\ p \in Int /\ (p - 1) + 1 = p
  BY UserDataAssumption DEF Shifts, LogIdle, LogInv, LogTypes, Places
<1>2. /\ appender' \in [LogThreads -> [at : {"idle", "size", "shift", "write"}, place : Places]]
      /\ \A u \in LogThreads : u # t => appender'[u] = appender[u]
      /\ p = 0 => appender'[t].at = "write"
      /\ p # 0 => appender'[t].at = "shift" /\ appender'[t].place = p - 1
  <2>1. CASE p = 0
    BY <1>1, <2>1, LogMoves DEF Shifts, LogGoes, LogInv
  <2>2. CASE p # 0
    <3>1. appender' = [appender EXCEPT ![t].place = p - 1] /\ LogTypes
      BY <2>2 DEF Shifts, LogInv
    <3>2. /\ appender' \in [LogThreads -> [at : {"idle", "size", "shift", "write"}, place : Places]]
          /\ appender'[t].at = appender[t].at /\ appender'[t].place = p - 1
          /\ \A u \in LogThreads : u # t => appender'[u] = appender[u]
      BY <1>1, <2>2, <3>1, LogMoves
    <3> QED
      BY <1>1, <2>2, <3>2
  <2> QED
    BY <2>1, <2>2
<1>3. logLock' \in LogThreads \cup {"free"} /\ (p # 0 => logLock' = logLock)
  BY DEF Shifts, LogInv, LogTypes
<1>4. /\ slots' \in [Places -> Nat]
      /\ \A i \in Places : slots'[i] = slots[i] \/ slots'[i] = Missing \/ slots'[i] = slots[p]
      /\ area = "rotating" => Ordered(slots') /\ Unbroken(slots', begun) /\ slots'[p] = Missing
  <2>1. CASE p = OldFiles
    <3>1. slots' = [slots EXCEPT ![OldFiles] = Missing]
      BY <2>1 DEF Shifts
    <3>2. slots' \in [Places -> Nat] /\ slots'[p] = Missing /\ \A i \in Places : i # p => slots'[i] = slots[i]
      BY <1>1, <2>1, <3>1 DEF Missing
    <3> QED
      BY <1>1, <3>1, <3>2, OldestGoes DEF LogInv
  <2>2. CASE p # OldFiles /\ slots[p] = Missing
    BY <1>1, <2>2 DEF Shifts, LogInv
  <2>3. CASE p # OldFiles /\ slots[p] # Missing
    <3>1. slots' = [slots EXCEPT ![p + 1] = slots[p], ![p] = Missing]
      BY <2>3 DEF Shifts
    <3>2. /\ slots' \in [Places -> Nat] /\ slots'[p] = Missing /\ slots'[p + 1] = slots[p]
          /\ \A i \in Places : i # p /\ i # p + 1 => slots'[i] = slots[i]
      BY <1>1, <2>3, <3>1 DEF Missing
    <3>3. area = "rotating" => slots[p + 1] = Missing
      BY <1>1, <2>3 DEF LogInv
    <3> QED
      BY <1>1, <2>3, <3>1, <3>2, <3>3, FileShifts DEF LogInv
  <2> QED
    BY <2>1, <2>2, <2>3
<1>5. ASSUME area = "rotating" PROVE \A i \in Places : slots'[i] <= begun
  <2>1. \A i \in Places : slots[i] <= begun /\ Missing <= begun
    BY <1>1, <1>5 DEF LogInv, Missing
  <2> QED
    BY <1>1, <1>4, <2>1
<1>6. ASSUME area = "rotating", NEW u \in LogThreads, appender'[u].at = "shift"
      PROVE  logLock' = u /\ (appender'[u].place < OldFiles => slots'[appender'[u].place + 1] = Missing)
  <2>1. u = t
    BY <1>1, <1>2, <1>6 DEF LogInv
  <2>2. p # 0
    BY <1>2, <1>6, <2>1
  <2> QED
    BY <1>1, <1>2, <1>3, <1>4, <1>6, <2>1, <2>2 DEF LogInv
<1>7. \A u \in LogThreads : appender'[u].at = "size" => appender'[u].place = OldFiles
  BY <1>2 DEF LogInv
<1> QED
  BY <1>1, <1>2, <1>3, <1>4, <1>5, <1>6, <1>7 DEF LogInv, LogTypes

\* A line is added; the shifting of another thread does not come to the live file.
LEMMA WritesStep ==
  ASSUME LogInv, NEW t \in LogThreads, WritesLine(t) PROVE LogInv'
<1>1. /\ UNCHANGED <<area, logLock>> /\ LogGoes(t, "idle") /\ appender[t].at = "write"
      /\ slots \in [Places -> Nat] /\ begun \in Nat /\ 0 \in Places
  BY UserDataAssumption DEF WritesLine, LogIdle, LogInv, LogTypes, Places
<1>2. /\ appender' \in [LogThreads -> [at : {"idle", "size", "shift", "write"}, place : Places]]
      /\ appender'[t].at = "idle" /\ \A u \in LogThreads : u # t => appender'[u] = appender[u]
  BY <1>1, LogMoves DEF LogInv
<1>3. CASE UNCHANGED <<slots, begun>>
  BY <1>1, <1>2, <1>3 DEF LogInv, LogTypes
<1>4. CASE slots[0] = Missing /\ begun' = begun + 1 /\ slots' = [slots EXCEPT ![0] = begun + 1]
  <2>1. slots' \in [Places -> Nat] /\ \A i \in Places : i # 0 => slots'[i] = slots[i]
    BY <1>1, <1>4
  <2>2. area = "rotating" => /\ Ordered(slots') /\ Unbroken(slots', begun')
                             /\ \A i \in Places : slots'[i] <= begun'
    <3> SUFFICES ASSUME area = "rotating"
                 PROVE  /\ Ordered(slots') /\ Unbroken(slots', begun')
                        /\ \A i \in Places : slots'[i] <= begun'
      OBVIOUS
    <3>1. Ordered(slots) /\ Unbroken(slots, begun) /\ \A i \in Places : slots[i] <= begun
      BY DEF LogInv
    <3>2. LET t2 == [slots EXCEPT ![0] = begun + 1] IN
          /\ Ordered(t2) /\ Unbroken(t2, begun + 1) /\ \A i \in Places : t2[i] <= begun + 1
      BY <1>1, <1>4, <3>1, FileBegins
    <3> QED
      BY <1>4, <3>2
  <2>3. \A u \in LogThreads : appender[u].place + 1 # 0 /\
          (appender[u].place < OldFiles => appender[u].place + 1 \in Places)
    BY UserDataAssumption DEF LogInv, LogTypes, Places
  <2> QED
    BY <1>1, <1>2, <1>4, <2>1, <2>2, <2>3 DEF LogInv, LogTypes
<1> QED
  BY <1>3, <1>4 DEF WritesLine

\* The log keeps its newest files, in order, for any number of threads and of places
\* (rotation_lock is held over the whole shifting, not only over the look at the size).
THEOREM NewestAreKept == UserDataSpec => []NewestFilesAreKept
<1>1. UserDataInit => LogInv
  <2>1. UserDataInit => LogTypes
    BY UserDataAssumption DEF UserDataInit, UserDataStart, LogTypes, Places, Missing
  <2>2. UserDataInit => Ordered(slots) /\ Unbroken(slots, begun) /\ \A i \in Places : slots[i] <= begun
    <3>1. UserDataInit => begun = 0 /\ \A i \in Places : slots[i] = Missing
      BY DEF UserDataInit, UserDataStart, Places
    <3> QED
      BY <3>1 DEF Ordered, Unbroken, Missing
  <2>3. UserDataInit => \A t \in LogThreads : appender[t].at = "idle"
    BY DEF UserDataInit, UserDataStart
  <2> QED
    BY <2>1, <2>2, <2>3 DEF LogInv
<1>2. LogInv /\ [UserDataNext]_userVars => LogInv'
  <2> SUFFICES ASSUME LogInv, [UserDataNext]_userVars PROVE LogInv'
    OBVIOUS
  <2>1. CASE UNCHANGED <<area, slots, logLock, appender, begun>>
    BY <2>1 DEF LogInv, LogTypes
  <2>2. CASE UNCHANGED userVars
    BY <2>1, <2>2 DEF userVars, logVars
  <2>3. CASE \/ SwitchErrors \/ StartsDeletion \/ DeletesClass \/ Exports \/ StartsCrashReports
             \/ ReportsCrash \/ LeakSample \/ AlertsAgain \/ \E d \in Data : WritesData(d)
    <3>1. UNCHANGED <<area, slots, logLock, appender, begun>>
      BY <2>3 DEF SwitchErrors, StartsDeletion, DeletesClass, Exports, StartsCrashReports,
         ReportsCrash, LeakSample, AlertsAgain, WritesData, Still, LogIdle, logVars
    <3> QED
      BY <2>1, <3>1
  <2> QED
    BY <2>2, <2>3, AppendsStep, SizesStep, ShiftsStep, WritesStep DEF UserDataNext
<1>3. LogInv => NewestFilesAreKept
  <2> SUFFICES ASSUME LogInv, area = "rotating" PROVE NewestFilesAreKept
    BY DEF NewestFilesAreKept
  <2> DEFINE kept == {slots[i] : i \in 0..OldFiles} \ {Missing}
  <2>1. ASSUME NEW f \in kept, NEW g \in f..begun PROVE g \in kept
    <3>1. PICK i \in Places : slots[i] = f /\ f # Missing
      BY <2>1 DEF Places
    <3>2. f \in Nat /\ g \in Nat /\ f <= g /\ g <= begun /\ g # Missing
      BY <2>1, <3>1 DEF LogInv, LogTypes, Missing
    <3>3. \E j \in Places : slots[j] = g
      BY <3>1, <3>2 DEF LogInv, Unbroken
    <3> QED
      BY <3>2, <3>3 DEF Places
  <2>2. \A i, j \in 0..OldFiles : i < j /\ slots[i] # Missing => slots[j] < slots[i]
    BY DEF LogInv, Ordered, Places
  <2> QED
    BY <2>1, <2>2 DEF NewestFilesAreKept
<1> QED
  BY <1>1, <1>2, <1>3, PTL DEF UserDataSpec

\* The types of the data, beside those of the log.
AppenderRecords == [at : {"idle", "size", "shift", "write"}, place : Places]
LogFileTypes ==
  /\ slots \in [Places -> 0..MaxLogFiles] /\ tooBig \in BOOLEAN /\ begun \in 0..MaxLogFiles
  /\ logLock \in LogThreads \cup {"free"} /\ errorsOn \in BOOLEAN
  /\ appender \in [LogThreads -> AppenderRecords]
DeletionTypes ==
  /\ data \subseteq Data /\ deleting \in 0..3 /\ report \subseteq Data /\ deletionFailed \in BOOLEAN
  /\ exported \in {"none", "partial", "whole"} /\ dataMoves \in 0..MaxDataMoves
LeakRecords == [samples : 0..3, leaking : BOOLEAN, silent : BOOLEAN]
UserTypes ==
  /\ area \in Areas /\ LogFileTypes /\ DeletionTypes
  /\ crashSink \in {"unset", "off", "file", "http"} /\ leak \in LeakRecords

LEMMA LogFilesStep ==
  ASSUME LogFileTypes,
         \/ SwitchErrors
         \/ \E t \in LogThreads : Appends(t) \/ Sizes(t) \/ Shifts(t) \/ WritesLine(t)
  PROVE  LogFileTypes'
<1>0. /\ OldFiles \in Places /\ 0 \in Places /\ Missing \in 0..MaxLogFiles
      /\ \A i \in Places : (i # 0 => i - 1 \in Places) /\ (i # OldFiles => i + 1 \in Places)
  BY UserDataAssumption DEF Places, Missing
<1>1. CASE SwitchErrors
  <2>1. UNCHANGED <<slots, tooBig, logLock, appender, begun>> /\ errorsOn' = ~errorsOn
    BY <1>1 DEF SwitchErrors
  <2>2. errorsOn' \in BOOLEAN
    BY <2>1, Zenon
  <2> QED
    BY <2>1, <2>2 DEF LogFileTypes
<1>2. ASSUME NEW t \in LogThreads, Appends(t) \/ Sizes(t) \/ Shifts(t) \/ WritesLine(t)
      PROVE  LogFileTypes'
  <2>1. appender[t] \in AppenderRecords /\ appender[t].place \in Places /\ appender \in [LogThreads -> AppenderRecords]
    BY DEF LogFileTypes, AppenderRecords
  <2>2. ASSUME NEW at \in {"idle", "size", "shift", "write"}
        PROVE  [appender EXCEPT ![t].at = at] \in [LogThreads -> AppenderRecords]
    BY <2>1, <2>2 DEF AppenderRecords
  <2>3. ASSUME NEW i \in Places
        PROVE  [appender EXCEPT ![t].place = i] \in [LogThreads -> AppenderRecords]
    BY <2>1, <2>3 DEF AppenderRecords
  <2>4. CASE Appends(t)
    <3>1. [at |-> "size", place |-> OldFiles] \in AppenderRecords
      BY <1>0 DEF AppenderRecords
    <3> QED
      BY <2>1, <2>4, <3>1 DEF Appends, LogFileTypes
  <2>5. CASE Sizes(t)
    <3>1. UNCHANGED <<slots, tooBig, begun, errorsOn>> /\ logLock' \in {t, logLock}
          /\ (LogGoes(t, "shift") \/ LogGoes(t, "write"))
      BY <2>5, Zenon DEF Sizes
    <3>2. appender' \in [LogThreads -> AppenderRecords]
      BY <2>2, <3>1 DEF LogGoes
    <3> QED
      BY <3>1, <3>2 DEF LogFileTypes
  <2>6. CASE Shifts(t)
    <3>1. PICK i \in Places : i = appender[t].place
      BY <2>1
    <3>2. /\ slots' = IF i = OldFiles THEN [slots EXCEPT ![i] = Missing]
                      ELSE IF slots[i] = Missing THEN slots
                      ELSE [slots EXCEPT ![i + 1] = slots[i], ![i] = Missing]
          /\ appender' = IF i = 0 THEN [appender EXCEPT ![t].at = "write"]
                         ELSE [appender EXCEPT ![t].place = i - 1]
          /\ tooBig' \in {tooBig, FALSE}
          /\ logLock' \in {"free", logLock} /\ UNCHANGED <<begun, errorsOn>>
      BY <2>6, <3>1 DEF Shifts
    <3>3. slots' \in [Places -> 0..MaxLogFiles]
      BY <1>0, <3>2 DEF LogFileTypes
    <3>4. appender' \in [LogThreads -> AppenderRecords]
      BY <1>0, <2>2, <2>3, <3>2
    <3>5. tooBig' \in BOOLEAN
      BY <3>2, Zenon DEF LogFileTypes
    <3> QED
      BY <3>2, <3>3, <3>4, <3>5, Zenon DEF LogFileTypes
  <2>7. CASE WritesLine(t)
    <3>1. /\ UNCHANGED <<logLock, errorsOn>> /\ LogGoes(t, "idle") /\ tooBig' \in {tooBig, TRUE}
          /\ \/ UNCHANGED <<slots, begun>>
             \/ begun < MaxLogFiles /\ begun' = begun + 1 /\ slots' = [slots EXCEPT ![0] = begun + 1]
      BY <2>7, Zenon DEF WritesLine
    <3>2. slots' \in [Places -> 0..MaxLogFiles] /\ begun' \in 0..MaxLogFiles
      BY <1>0, <3>1, UserDataAssumption DEF LogFileTypes
    <3>3. appender' \in [LogThreads -> AppenderRecords]
      BY <2>2, <3>1 DEF LogGoes
    <3>4. tooBig' \in BOOLEAN
      BY <3>1, Zenon DEF LogFileTypes
    <3> QED
      BY <3>1, <3>2, <3>3, <3>4, Zenon DEF LogFileTypes
  <2> QED
    BY <1>2, <2>4, <2>5, <2>6, <2>7
<1> QED
  BY <1>1, <1>2

LEMMA DeletionStep ==
  ASSUME DeletionTypes, \/ StartsDeletion \/ DeletesClass \/ Exports \/ ReportsCrash
                        \/ \E d \in Data : WritesData(d)
  PROVE  DeletionTypes'
<1>1. ASSUME NEW d \in Data, WritesData(d) PROVE DeletionTypes'
  BY <1>1, UserDataAssumption DEF WritesData, DataMove, DeletionTypes
<1>2. CASE StartsDeletion
  <2>1. dataMoves' \in 0..MaxDataMoves /\ 1 \in 0..3
    BY <1>2, UserDataAssumption DEF StartsDeletion, DataMove, DeletionTypes
  <2> QED
    BY <1>2, <2>1, Zenon DEF StartsDeletion, DeletionTypes
<1>3. CASE DeletesClass
  <2>1. deleting \in 1..3 /\ deleting' = (deleting + 1) % 4 /\ UNCHANGED <<exported, dataMoves>>
    BY <1>3 DEF DeletesClass, DeletionTypes
  <2>2. deleting' \in 0..3
    BY <2>1
  <2>3. DeletionOrder[deleting] \in Data
    BY <2>1 DEF DeletionOrder, Data
  <2>4. PICK removed \in BOOLEAN : Deletes(DeletionOrder[deleting], removed)
    BY <1>3 DEF DeletesClass
  <2>5. data' \subseteq Data /\ report' \subseteq Data
    BY <2>3, <2>4 DEF Deletes, DeletionTypes
  <2>6. deletionFailed' \in BOOLEAN
    BY <2>4, Zenon DEF Deletes
  <2> QED
    BY <2>1, <2>2, <2>5, <2>6 DEF DeletionTypes
<1>4. CASE Exports
  BY <1>4, UserDataAssumption DEF Exports, DataMove, DeletionTypes
<1>5. CASE ReportsCrash
  BY <1>5 DEF ReportsCrash, DeletionTypes, Data
<1> QED
  BY <1>1, <1>2, <1>3, <1>4, <1>5

LEMMA LeakStep ==
  ASSUME leak \in LeakRecords, LeakSample \/ AlertsAgain PROVE leak' \in LeakRecords
<1>1. leak.samples \in 0..3 /\ leak.leaking \in BOOLEAN /\ leak.silent \in BOOLEAN
  BY DEF LeakRecords
<1>2. CASE LeakSample
  <2>1. PICK samples \in {1} \cup {leak.samples, IF leak.samples < 3 THEN leak.samples + 1 ELSE 3},
             leaking \in BOOLEAN :
        leak' = [samples |-> samples, leaking |-> leaking /\ samples = 3,
                 silent |-> leak.silent \/ (leaking /\ samples = 3)]
    BY <1>2 DEF LeakSample
  <2>2. samples \in 0..3
    BY <1>1
  <2>3. (leaking /\ samples = 3) \in BOOLEAN /\ (leak.silent \/ (leaking /\ samples = 3)) \in BOOLEAN
    BY Zenon
  <2> QED
    BY <2>1, <2>2, <2>3, Zenon DEF LeakRecords
<1>3. CASE AlertsAgain
  BY <1>3 DEF AlertsAgain, LeakRecords
<1> QED
  BY <1>2, <1>3

\* The types of the logs and of the user's data.
THEOREM UserDataTypeCorrect == UserDataSpec => []UserDataTypeOK
<1>1. UserDataInit => UserTypes
  <2> SUFFICES ASSUME UserDataInit PROVE UserTypes
    OBVIOUS
  <2>1. /\ Missing \in 0..MaxLogFiles /\ 0 \in 0..MaxLogFiles /\ 0 \in Places /\ 0 \in 0..3
        /\ 0 \in 0..MaxDataMoves
    BY UserDataAssumption DEF Places, Missing
  <2>2. LogFileTypes
    BY <2>1 DEF UserDataInit, UserDataStart, LogFileTypes, AppenderRecords, Places
  <2>3. DeletionTypes
    BY <2>1, Zenon DEF UserDataInit, UserDataStart, DeletionTypes
  <2>4. leak \in LeakRecords
    BY <2>1 DEF UserDataInit, UserDataStart, LeakRecords
  <2> QED
    BY <2>2, <2>3, <2>4 DEF UserDataInit, UserDataStart, UserTypes
<1>2. UserTypes /\ [UserDataNext]_userVars => UserTypes'
  <2> SUFFICES ASSUME UserTypes, [UserDataNext]_userVars PROVE UserTypes'
    OBVIOUS
  <2>0. (UNCHANGED logVars => LogFileTypes') /\ (UNCHANGED <<deleteVars, dataMoves>> => DeletionTypes')
    BY DEF UserTypes, LogFileTypes, DeletionTypes, logVars, deleteVars
  <2>1. CASE \/ SwitchErrors
             \/ \E t \in LogThreads : Appends(t) \/ Sizes(t) \/ Shifts(t) \/ WritesLine(t)
    <3>1. UNCHANGED <<area, deleteVars, crashSink, leak, dataMoves>>
      BY <2>1 DEF SwitchErrors, Appends, Sizes, Shifts, WritesLine, LogIdle
    <3> QED
      BY <2>0, <2>1, <3>1, LogFilesStep DEF UserTypes
  <2>2. CASE \/ StartsDeletion \/ DeletesClass \/ Exports \/ ReportsCrash
             \/ \E d \in Data : WritesData(d)
    <3>1. UNCHANGED <<logVars, crashSink, leak>>
      BY <2>2 DEF StartsDeletion, DeletesClass, Exports, ReportsCrash, WritesData, Still
    <3>2. area' = area
      BY <3>1 DEF logVars
    <3> QED
      BY <2>0, <2>2, <3>1, <3>2, DeletionStep DEF UserTypes
  <2>3. CASE StartsCrashReports
    <3>1. UNCHANGED <<logVars, deleteVars, leak, dataMoves>> /\ crashSink' \in {"off", "file", "http"}
      BY <2>3 DEF StartsCrashReports
    <3>2. area' = area
      BY <3>1 DEF logVars
    <3> QED
      BY <2>0, <3>1, <3>2 DEF UserTypes
  <2>4. CASE LeakSample \/ AlertsAgain
    <3>1. UNCHANGED <<logVars, deleteVars, crashSink, dataMoves>>
      BY <2>4 DEF LeakSample, AlertsAgain
    <3>2. area' = area
      BY <3>1 DEF logVars
    <3> QED
      BY <2>0, <2>4, <3>1, <3>2, LeakStep DEF UserTypes
  <2>5. CASE UNCHANGED userVars
    BY <2>0, <2>5 DEF UserTypes, userVars, logVars
  <2> QED
    BY <2>1, <2>2, <2>3, <2>4, <2>5 DEF UserDataNext
<1>3. UserTypes => UserDataTypeOK
  BY DEF UserTypes, LogFileTypes, DeletionTypes, LeakRecords, AppenderRecords, Places, UserDataTypeOK
<1> QED
  BY <1>1, <1>2, <1>3, PTL DEF UserDataSpec

-----------------------------------------------------------------------------
(* The programs of the tweaks.                                             *)

ProgramSteps == [do : {"must", "may", "flag", "keep", "flagIfWritten", "keepIfWritten"}, slot : 0..3]
WriteOrKeep(step) == step.do # "flag" => step.slot \in Slots
Programs == {p \in Seq(ProgramSteps) : \A k \in 1..Len(p) : WriteOrKeep(p[k])}
Flags(p) == \E k \in 1..Len(p) : p[k].do = "flag"

\* A program followed by another is one, and marks the tweak if either does.
LEMMA Joined ==
  ASSUME NEW p \in Programs, NEW q \in Programs
  PROVE  /\ p \o q \in Programs /\ Len(p \o q) = Len(p) + Len(q)
         /\ Flags(p) \/ Flags(q) => Flags(p \o q)
<1>1. /\ p \in Seq(ProgramSteps) /\ q \in Seq(ProgramSteps)
      /\ Len(p) \in Nat /\ Len(q) \in Nat
  BY DEF Programs
<1>2. /\ p \o q \in Seq(ProgramSteps) /\ Len(p \o q) = Len(p) + Len(q)
      /\ \A i \in 1..(Len(p) + Len(q)) : (p \o q)[i] = IF i <= Len(p) THEN p[i] ELSE q[i - Len(p)]
  BY <1>1, ConcatProperties
<1>3. \A i \in 1..Len(p) : i \in 1..(Len(p) + Len(q)) /\ (p \o q)[i] = p[i]
  BY <1>1, <1>2
<1>4. \A i \in 1..Len(q) : Len(p) + i \in 1..(Len(p) + Len(q)) /\ (p \o q)[Len(p) + i] = q[i]
  BY <1>1, <1>2
<1>5. ASSUME NEW i \in 1..(Len(p) + Len(q)) PROVE WriteOrKeep((p \o q)[i])
  <2>1. CASE i <= Len(p)
    BY <1>1, <1>2, <2>1 DEF Programs
  <2>2. CASE ~(i <= Len(p))
    <3>1. i - Len(p) \in 1..Len(q) /\ (p \o q)[i] = q[i - Len(p)]
      BY <1>1, <1>2, <2>2
    <3> QED
      BY <3>1 DEF Programs
  <2> QED
    BY <2>1, <2>2
<1>6. p \o q \in Programs
  BY <1>2, <1>5 DEF Programs
<1>7. Flags(p) \/ Flags(q) => Flags(p \o q)
  BY <1>2, <1>3, <1>4 DEF Flags
<1> QED
  BY <1>2, <1>6, <1>7

\* Short programs.
LEMMA Short ==
  /\ <<>> \in Programs /\ Len(<<>>) = 0
  /\ \A a \in ProgramSteps : WriteOrKeep(a) =>
       /\ <<a>> \in Programs /\ Len(<<a>>) = 1 /\ (a.do = "flag" => Flags(<<a>>))
  /\ \A a, b \in ProgramSteps : WriteOrKeep(a) /\ WriteOrKeep(b) => <<a, b>> \in Programs /\ Len(<<a, b>>) = 2
  /\ \A a, b, c \in ProgramSteps : WriteOrKeep(a) /\ WriteOrKeep(b) /\ WriteOrKeep(c) =>
       <<a, b, c>> \in Programs /\ Len(<<a, b, c>>) = 3
<1>1. <<>> \in Programs /\ Len(<<>>) = 0
  BY DEF Programs
<1>2. ASSUME NEW a \in ProgramSteps, WriteOrKeep(a)
      PROVE  /\ <<a>> \in Programs /\ Len(<<a>>) = 1 /\ (a.do = "flag" => Flags(<<a>>))
  BY <1>2 DEF Programs, Flags
<1>3. ASSUME NEW a \in ProgramSteps, NEW b \in ProgramSteps, WriteOrKeep(a), WriteOrKeep(b)
      PROVE  <<a, b>> \in Programs /\ Len(<<a, b>>) = 2
  BY <1>3 DEF Programs
<1>4. ASSUME NEW a \in ProgramSteps, NEW b \in ProgramSteps, NEW c \in ProgramSteps,
             WriteOrKeep(a), WriteOrKeep(b), WriteOrKeep(c)
      PROVE  <<a, b, c>> \in Programs /\ Len(<<a, b, c>>) = 3
  BY <1>4 DEF Programs
<1> QED
  BY <1>1, <1>2, <1>3, <1>4

LEMMA Stepping ==
  /\ \A i \in Slots : /\ Must(i) \in ProgramSteps /\ WriteOrKeep(Must(i))
                      /\ May(i) \in ProgramSteps /\ WriteOrKeep(May(i))
                      /\ Keep(i) \in ProgramSteps /\ WriteOrKeep(Keep(i))
  /\ Flag \in ProgramSteps /\ WriteOrKeep(Flag) /\ Flag.do = "flag"
  /\ 1 \in Slots /\ 2 \in Slots /\ 3 \in Slots
BY DEF Must, May, Keep, Flag, Step, ProgramSteps, WriteOrKeep, Slots

\* What marks a tweak: the flag, and the value kept when it is applied.
LEMMA MarkedIs ==
  ASSUME NEW on \in BOOLEAN, NEW kept \in {<<>>, <<Keep(1)>>}
  PROVE  Marked(on, kept) \in Programs /\ Len(Marked(on, kept)) \in 1..2 /\ Flags(Marked(on, kept))
<1>1. /\ <<Flag>> \in Programs /\ Len(<<Flag>>) = 1 /\ Flags(<<Flag>>)
      /\ kept \in Programs /\ Len(kept) \in 0..1
  BY Short, Stepping
<1>2. CASE on
  <2>1. Marked(on, kept) = <<Flag>> \o kept
    BY <1>2 DEF Marked
  <2>2. /\ <<Flag>> \o kept \in Programs /\ Len(<<Flag>> \o kept) = 1 + Len(kept)
        /\ Flags(<<Flag>> \o kept)
    BY <1>1, Joined
  <2>3. 1 + Len(kept) \in 1..2
    <3>1. \A n \in 0..1 : 1 + n \in 1..2
      OBVIOUS
    <3> QED
      BY <1>1, <3>1, Zenon
  <2> QED
    BY <2>1, <2>2, <2>3
<1>3. CASE ~on
  BY <1>1, <1>3 DEF Marked
<1> QED
  BY <1>2, <1>3

\* A tweak writes, at most three settings, and marks itself.
LEMMA Writes ==
  ASSUME NEW p \in Programs, Len(p) \in 0..3, NEW on \in BOOLEAN, NEW kept \in {<<>>, <<Keep(1)>>}
  PROVE  /\ p \o Marked(on, kept) \in Programs /\ Len(p \o Marked(on, kept)) \in 0..5
         /\ Flags(p \o Marked(on, kept))
<1> DEFINE q == Marked(on, kept)
<1>1. q \in Programs /\ Len(q) \in 1..2 /\ Flags(q)
  BY MarkedIs
<1> HIDE DEF q
<1>2. p \o q \in Programs /\ Len(p \o q) = Len(p) + Len(q) /\ Flags(p \o q)
  BY <1>1, Joined
<1>3. Len(p) + Len(q) \in 0..5
  <2>1. \A m \in 0..3, n \in 1..2 : m + n \in 0..5
    OBVIOUS
  <2> QED
    BY <1>1, <2>1, Zenon
<1> QED
  BY <1>2, <1>3 DEF q

\* set_tweak's programs: each marks the tweak, that of the unused services where a service
\* could be disabled.
MarksEach(p) ==
  \A j \in 1..Len(p) : p[j].do = "may" =>
    \E k \in 1..Len(p) : p[k].do = "flagIfWritten" /\ p[k].slot = p[j].slot

GoodProgram(p) == p \in Programs /\ Len(p) \in 0..6 /\ Flags(p)

\* The writes of the tweaks, before the mark.
Beginnings ==
  {<<Must(1)>>, <<Must(1), Must(2)>>, <<Must(2), Must(1)>>, <<Must(1), Must(2), Must(3)>>,
   <<May(1), May(2)>>, <<Must(1), May(2)>>, <<May(1), May(2), May(3)>>}

LEMMA BeginningsAre == \A p \in Beginnings : p \in Programs /\ Len(p) \in 0..3
<1>1. /\ Must(1) \in ProgramSteps /\ Must(2) \in ProgramSteps /\ Must(3) \in ProgramSteps
      /\ May(1) \in ProgramSteps /\ May(2) \in ProgramSteps /\ May(3) \in ProgramSteps
      /\ WriteOrKeep(Must(1)) /\ WriteOrKeep(Must(2)) /\ WriteOrKeep(Must(3))
      /\ WriteOrKeep(May(1)) /\ WriteOrKeep(May(2)) /\ WriteOrKeep(May(3))
  BY Stepping
<1>2. <<Must(1)>> \in Programs /\ Len(<<Must(1)>>) = 1
  BY <1>1, Short
<1>3. /\ <<Must(1), Must(2)>> \in Programs /\ Len(<<Must(1), Must(2)>>) = 2
      /\ <<Must(2), Must(1)>> \in Programs /\ Len(<<Must(2), Must(1)>>) = 2
      /\ <<May(1), May(2)>> \in Programs /\ Len(<<May(1), May(2)>>) = 2
      /\ <<Must(1), May(2)>> \in Programs /\ Len(<<Must(1), May(2)>>) = 2
  BY <1>1, Short
<1>4. /\ <<Must(1), Must(2), Must(3)>> \in Programs /\ Len(<<Must(1), Must(2), Must(3)>>) = 3
      /\ <<May(1), May(2), May(3)>> \in Programs /\ Len(<<May(1), May(2), May(3)>>) = 3
  BY <1>1, Short
<1>5. 1 \in 0..3 /\ 2 \in 0..3 /\ 3 \in 0..3
  OBVIOUS
<1> QED
  BY <1>2, <1>3, <1>4, <1>5, Zenon DEF Beginnings

\* All tweaks but the unused services.
LEMMA Marking ==
  ASSUME NEW p \in Beginnings, NEW on \in BOOLEAN, NEW kept \in {<<>>, <<Keep(1)>>}
  PROVE  GoodProgram(p \o Marked(on, kept)) /\ Len(p \o Marked(on, kept)) \in 0..5
<1>1. p \in Programs /\ Len(p) \in 0..3
  BY BeginningsAre
<1>2. \A n \in 0..5 : n \in 0..6
  OBVIOUS
<1> QED
  BY <1>1, <1>2, Writes DEF GoodProgram

LEMMA DwordIs ==
  ASSUME NEW on \in BOOLEAN, NEW more \in {<<Must(2)>>, <<Must(2), Must(3)>>}
  PROVE  GoodProgram(DwordTweak(on) \o more)
<1> DEFINE marked == Marked(on, <<Keep(1)>>)
           p == DwordTweak(on)
<1>1. marked \in Programs /\ Len(marked) \in 1..2 /\ Flags(marked)
  BY MarkedIs
<1>2. <<Must(1)>> \in Programs /\ Len(<<Must(1)>>) = 1
  BY Short, Stepping
<1>3. p = <<Must(1)>> \o marked
  BY DEF DwordTweak
<1> HIDE DEF marked, p
<1>4. p \in Programs /\ Len(p) = 1 + Len(marked) /\ Flags(p)
  BY <1>1, <1>2, <1>3, Joined
<1>5. /\ Must(2) \in ProgramSteps /\ Must(3) \in ProgramSteps
      /\ WriteOrKeep(Must(2)) /\ WriteOrKeep(Must(3))
  BY Stepping
<1>6. more \in Programs /\ (Len(more) = 1 \/ Len(more) = 2)
  BY <1>5, Short
<1>7. p \o more \in Programs /\ Len(p \o more) = Len(p) + Len(more) /\ Flags(p \o more)
  BY <1>4, <1>6, Joined
<1>8. \A m \in 1..2, n \in {1, 2} : (1 + m) + n \in 0..6
  OBVIOUS
<1>9. Len(p) + Len(more) \in 0..6
  BY <1>1, <1>4, <1>6, <1>8
<1> QED
  BY <1>7, <1>9 DEF GoodProgram, p

\* A service that could be disabled is flagged at once, and enabled again the flag is cleared.
LEMMA ServicesAre ==
  ASSUME NEW on \in BOOLEAN
  PROVE  /\ UnusedServices(on) \in Programs /\ Len(UnusedServices(on)) \in 0..6
         /\ on => MarksEach(UnusedServices(on))
         /\ ~on => Flags(UnusedServices(on))
<1>1. CASE on
  <2> DEFINE p == <<May(1), Step("flagIfWritten", 1), Step("keepIfWritten", 1),
                    May(2), Step("flagIfWritten", 2), Step("keepIfWritten", 2)>>
  <2>1. UnusedServices(on) = p
    BY <1>1 DEF UnusedServices
  <2>2. Len(p) = 6
    OBVIOUS
  <2>3. /\ p[1] = Step("may", 1) /\ p[2] = Step("flagIfWritten", 1) /\ p[3] = Step("keepIfWritten", 1)
        /\ p[4] = Step("may", 2) /\ p[5] = Step("flagIfWritten", 2) /\ p[6] = Step("keepIfWritten", 2)
    BY DEF May
  <2>4. /\ \A do \in {"may", "flagIfWritten", "keepIfWritten"}, i \in {1, 2} :
             Step(do, i) \in ProgramSteps /\ WriteOrKeep(Step(do, i))
    BY DEF Step, ProgramSteps, WriteOrKeep, Slots
  <2>5. p \in Seq(ProgramSteps)
    BY <2>4 DEF May
  <2> HIDE DEF p
  <2>6. \A k \in 1..6 : k = 1 \/ k = 2 \/ k = 3 \/ k = 4 \/ k = 5 \/ k = 6
    OBVIOUS
  <2>7. \A k \in 1..6 : WriteOrKeep(p[k])
    BY <2>3, <2>4, <2>6
  <2>8. p \in Programs
    BY <2>2, <2>5, <2>7 DEF Programs
  <2>9. MarksEach(p)
    <3>1. SUFFICES ASSUME NEW j \in 1..6, p[j].do = "may"
                   PROVE  \E k \in 1..6 : p[k].do = "flagIfWritten" /\ p[k].slot = p[j].slot
      BY <2>2 DEF MarksEach
    <3>2. j = 1 \/ j = 4
      BY <2>3, <2>6, <3>1 DEF Step
    <3>3. p[2].do = "flagIfWritten" /\ p[2].slot = p[1].slot /\ p[5].do = "flagIfWritten" /\ p[5].slot = p[4].slot
      BY <2>3 DEF Step
    <3>4. 2 \in 1..6 /\ 5 \in 1..6
      OBVIOUS
    <3> QED
      BY <3>2, <3>3, <3>4
  <2>10. Len(p) \in 0..6
    BY <2>2
  <2> QED
    BY <1>1, <2>1, <2>8, <2>9, <2>10
<1>2. CASE ~on
  <2> DEFINE p == <<May(1), May(2), Flag>>
  <2>1. UnusedServices(on) = p
    BY <1>2 DEF UnusedServices
  <2>2. p \in Programs /\ Len(p) = 3
    BY Short, Stepping
  <2>3. p[3].do = "flag"
    BY Stepping
  <2>4. Flags(p)
    BY <2>2, <2>3 DEF Flags
  <2> HIDE DEF p
  <2> QED
    BY <1>2, <2>1, <2>2, <2>4
<1> QED
  BY <1>1, <1>2

LEMMA Tweaking ==
  ASSUME NEW id \in Tweaks, NEW on \in BOOLEAN
  PROVE  /\ Program(id, on) \in Programs /\ Len(Program(id, on)) \in 0..6
         /\ Flags(Program(id, on)) \/ (id = "services" /\ on /\ MarksEach(Program(id, on)))
<1>1. CASE id = "services"
  BY <1>1, ServicesAre DEF Program
<1>2. CASE id # "services"
  <2>1. \A p \in Beginnings, kept \in {<<>>, <<Keep(1)>>} : GoodProgram(p \o Marked(on, kept))
    BY Marking
  <2>2. /\ GoodProgram(TelemetryLevel(on)) /\ GoodProgram(Diagtrack(on)) /\ GoodProgram(CeipTasks(on))
        /\ GoodProgram(CompatAppraiser(on)) /\ GoodProgram(DwordTweak(on))
    BY <2>1, Zenon DEF Beginnings, TelemetryLevel, Diagtrack, CeipTasks, CompatAppraiser, DwordTweak
  <2>3. /\ GoodProgram(ConsumerFeatures(on)) /\ GoodProgram(DeliveryOptUpload(on))
        /\ GoodProgram(AppxGroup(on)) /\ GoodProgram(EdgePreinstall(on)) /\ GoodProgram(CortanaRelics(on))
    BY <2>1, Zenon DEF Beginnings, ConsumerFeatures, DeliveryOptUpload, AppxGroup, EdgePreinstall, CortanaRelics
  <2>4. GoodProgram(ActivityHistory(on)) /\ GoodProgram(WebSearchStart(on))
    BY DwordIs, Zenon DEF ActivityHistory, WebSearchStart
  <2>5. GoodProgram(Onedrive(on)) /\ GoodProgram(Copilot(on)) /\ GoodProgram(Widgets(on))
    <3>1. CASE on
      BY <2>1, <3>1 DEF Beginnings, Onedrive, Copilot, Widgets
    <3>2. CASE ~on
      BY <2>1, <3>2 DEF Beginnings, Onedrive, Copilot, Widgets
    <3> QED
      BY <3>1, <3>2
  <2>6. GoodProgram(Program(id, on))
    BY <1>2, <2>2, <2>3, <2>4, <2>5 DEF Program, Tweaks
  <2> QED
    BY <2>6 DEF GoodProgram
<1> QED
  BY <1>1, <1>2

(* A command under way: the steps it is past have their effect.            *)

InForce(i) == setting[i] = "on" \/ (tweak = "edge" /\ i = 3)
Effective(step) ==
  /\ command.on /\ step.do = "must" => InForce(step.slot)
  /\ command.on /\ step.do = "may" => step.slot \in command.failed \/ InForce(step.slot)
  /\ step.do = "flag" => appliedFlag = command.on
  /\ step.do = "flagIfWritten" => step.slot \in command.failed \/ appliedFlag = command.on
Underway ==
  command.at # 0 => /\ answer = "none" /\ command.at <= Len(Steps) + 1
                    /\ \A j \in 1..(command.at - 1) : Effective(Steps[j])
TweakInv == SysOptTypeOK /\ Underway /\ OkIsDone

TweakCommands == [on : BOOLEAN, at : 0..7, read : [Slots -> Settings], failed : SUBSET Slots]

LEMMA StepsAre ==
  ASSUME SysOptTypeOK
  PROVE  /\ Steps \in Seq(ProgramSteps) /\ Len(Steps) \in 0..6
         /\ \A k \in 1..Len(Steps) : WriteOrKeep(Steps[k]) /\ Steps[k] \in ProgramSteps
         /\ Flags(Steps) \/ (tweak = "services" /\ command.on /\ MarksEach(Steps))
         /\ command \in TweakCommands
<1>1. tweak \in Tweaks /\ command.on \in BOOLEAN /\ command \in TweakCommands
  BY DEF SysOptTypeOK, TweakCommands
<1>2. /\ Steps \in Programs /\ Len(Steps) \in 0..6
      /\ Flags(Steps) \/ (tweak = "services" /\ command.on /\ MarksEach(Steps))
  BY <1>1, Tweaking DEF Steps
<1>3. \A k \in 1..Len(Steps) : Steps[k] \in ProgramSteps
  <2>1. Steps \in Seq(ProgramSteps)
    BY <1>2 DEF Programs
  <2> QED
    BY <2>1
<1> QED
  BY <1>1, <1>2, <1>3 DEF Programs

\* A step of the command is done: what the steps before it did holds still.
LEMMA Advanced ==
  ASSUME SysOptTypeOK, Underway, RunningFix, NEW step, step = Now,
         command' \in TweakCommands, command'.at = command.at + 1, command'.on = command.on,
         command.failed \subseteq command'.failed, UNCHANGED <<tweak, answer>>,
         \A i \in Slots : command.on /\ InForce(i) => InForce(i)',
         appliedFlag = command.on => appliedFlag' = command.on,
         Effective(step)'
  PROVE  Underway' /\ (OkIsDone => OkIsDone')
<1>1. /\ Len(Steps) \in 0..6 /\ command.at \in 1..Len(Steps) /\ command.at # 0
      /\ \A k \in 1..Len(Steps) : WriteOrKeep(Steps[k]) /\ Steps[k] \in ProgramSteps
  BY StepsAre DEF RunningFix
<1>2. Steps' = Steps
  BY DEF Steps
<1>3. command.at + 1 <= Len(Steps) + 1
  BY <1>1
<1>4. ASSUME NEW j \in 1..command.at PROVE Effective(Steps[j])'
  <2>1. CASE j = command.at
    BY <1>2, <2>1 DEF Now, Effective, InForce
  <2>2. CASE j # command.at
    <3>1. j \in 1..(command.at - 1) /\ j \in 1..Len(Steps)
      BY <1>1, <2>2
    <3>2. Effective(Steps[j]) /\ WriteOrKeep(Steps[j])
      BY <1>1, <3>1 DEF Underway
    <3>3. Steps[j].do # "flag" => Steps[j].slot \in Slots
      BY <3>2 DEF WriteOrKeep
    <3>4. command.on /\ Steps[j].do = "must" => InForce(Steps[j].slot)'
      BY <1>2, <3>2, <3>3 DEF Effective, InForce
    <3>5. command.on /\ Steps[j].do = "may" => Steps[j].slot \in command'.failed \/ InForce(Steps[j].slot)'
      BY <1>2, <3>2, <3>3 DEF Effective, InForce
    <3>6. Steps[j].do = "flag" => appliedFlag' = command.on
      BY <3>2 DEF Effective
    <3>7. Steps[j].do = "flagIfWritten" => Steps[j].slot \in command'.failed \/ appliedFlag' = command.on
      BY <3>2 DEF Effective
    <3> QED
      BY <1>2, <3>4, <3>5, <3>6, <3>7 DEF Effective
  <2> QED
    BY <2>1, <2>2
<1>5. command'.at - 1 = command.at
  BY <1>1
<1>6. Underway'
  BY <1>1, <1>2, <1>3, <1>4, <1>5 DEF Underway
<1>7. OkIsDone => OkIsDone'
  BY <1>1 DEF OkIsDone, Underway
<1> QED
  BY <1>6, <1>7

\* What moves the command on keeps its kind and the settings it read.
LEMMA AdvanceIs ==
  ASSUME SysOptTypeOK, RunningFix, NEW more \in SUBSET Slots,
         command' = [command EXCEPT !.at = @ + 1, !.failed = @ \cup more]
  PROVE  /\ command' \in TweakCommands /\ command'.at = command.at + 1 /\ command'.on = command.on
         /\ command'.failed = command.failed \cup more
<1>1. command \in TweakCommands /\ command.at + 1 \in 0..7
  <2>1. \A n \in 0..6 : \A k \in 1..n : k + 1 \in 0..7
    OBVIOUS
  <2> QED
    BY <2>1, StepsAre DEF RunningFix
<1> DEFINE at == command.at + 1
           failed == command.failed \cup more
<1>2. at \in 0..7 /\ failed \in SUBSET Slots
  BY <1>1 DEF TweakCommands
<1>3. command' = [command EXCEPT !.at = at, !.failed = failed]
  OBVIOUS
<1> HIDE DEF at, failed
<1>4. command' \in TweakCommands /\ command'.at = at /\ command'.on = command.on /\ command'.failed = failed
  BY <1>1, <1>2, <1>3 DEF TweakCommands
<1> QED
  BY <1>4 DEF at, failed

LEMMA AdvanceOnly ==
  ASSUME SysOptTypeOK, RunningFix, Advance
  PROVE  /\ command' \in TweakCommands /\ command'.at = command.at + 1 /\ command'.on = command.on
         /\ command'.failed = command.failed /\ UNCHANGED answer
<1>1. command \in TweakCommands /\ command.at + 1 \in 0..7
  <2>1. \A n \in 0..6 : \A k \in 1..n : k + 1 \in 0..7
    OBVIOUS
  <2> QED
    BY <2>1, StepsAre DEF RunningFix
<1> DEFINE at == command.at + 1
<1>2. command' = [command EXCEPT !.at = at] /\ UNCHANGED answer
  BY DEF Advance
<1>3. at \in 0..7
  BY <1>1
<1> HIDE DEF at
<1>4. command' \in TweakCommands /\ command'.at = at /\ command'.on = command.on /\ command'.failed = command.failed
  BY <1>1, <1>2, <1>3 DEF TweakCommands
<1> QED
  BY <1>2, <1>4 DEF at

\* No command under way: nothing more is to be kept than what was reported.
LEMMA NothingAsked ==
  NoCommand \in TweakCommands /\ NoCommand.at = 0
BY DEF NoCommand, TweakCommands, Settings

LEMMA Stopped ==
  ASSUME command' = NoCommand
  PROVE  Underway'
<1>1. command'.at = 0
  BY NothingAsked
<1> QED
  BY <1>1 DEF Underway

\* SetTweak, RestoreAll: a command begins.
LEMMA BeginsStep ==
  ASSUME TweakInv, NEW on \in BOOLEAN, Begins(on)
  PROVE  TweakInv'
<1>1. /\ command.at = 0 /\ answer' = "none" /\ tweakCommands' = tweakCommands + 1 /\ tweakCommands < MaxTweakCommands
      /\ UNCHANGED <<tweak, setting, appliedFlag, previous, tweakFaults>>
  BY DEF Begins
<1>2. setting \in [Slots -> Settings] /\ tweakCommands \in 0..MaxTweakCommands
  BY DEF TweakInv, SysOptTypeOK
<1>3. command' = [NoCommand EXCEPT !.on = on, !.at = 1, !.read = setting]
  BY DEF Begins
<1>4. command' \in TweakCommands /\ command'.at = 1
  <2>1. command' = [on |-> on, at |-> 1, read |-> setting, failed |-> {}]
    BY <1>3 DEF NoCommand
  <2>2. {} \in SUBSET Slots /\ 1 \in 0..7
    OBVIOUS
  <2> QED
    BY <1>2, <2>1, <2>2 DEF TweakCommands
<1>5. SysOptTypeOK'
  BY <1>1, <1>2, <1>4, SysOptAssumption DEF TweakInv, SysOptTypeOK, TweakCommands
<1>6. Underway'
  <2>1. Len(Steps') \in 0..6
    <3>1. tweak' \in Tweaks /\ command'.on \in BOOLEAN
      BY <1>4, <1>5 DEF SysOptTypeOK, TweakCommands
    <3> QED
      BY <3>1, Tweaking DEF Steps
  <2> QED
    BY <1>1, <1>4, <2>1 DEF Underway
<1>7. OkIsDone'
  BY <1>1 DEF OkIsDone
<1> QED
  BY <1>5, <1>6, <1>7 DEF TweakInv

\* WriteSlot: the target is what the command is to put in force.
LEMMA WriteStep ==
  ASSUME TweakInv, WriteSlot
  PROVE  TweakInv'
<1> USE DEF TweakInv
<1>0. PICK step : step = Now
  OBVIOUS
<1>1. /\ RunningFix /\ step.do \in {"must", "may"} /\ Advance
      /\ setting' = [setting EXCEPT ![step.slot] = Target(step.slot)]
      /\ UNCHANGED <<tweak, appliedFlag, previous, tweakCommands, tweakFaults>>
  BY <1>0 DEF WriteSlot
<1>2. WriteOrKeep(step)
  BY <1>0, <1>1, StepsAre DEF RunningFix, Now
<1>3. step.slot \in Slots
  BY <1>1, <1>2 DEF WriteOrKeep
<1>4. /\ command' \in TweakCommands /\ command'.at = command.at + 1 /\ command'.on = command.on
      /\ command'.failed = command.failed /\ UNCHANGED answer
  BY <1>1, AdvanceOnly
<1>5. Target(step.slot) \in Settings
  <2>1. previous[1] \in Settings \cup {"none"}
    BY DEF SysOptTypeOK, Slots
  <2> QED
    BY <2>1 DEF Target, RestoredTelemetry, Settings
<1>6. /\ setting' \in [Slots -> Settings] /\ setting'[step.slot] = Target(step.slot)
      /\ \A i \in Slots : i # step.slot => setting'[i] = setting[i]
  BY <1>1, <1>3, <1>5 DEF SysOptTypeOK
<1>7. command.on => InForce(step.slot)'
  <2> SUFFICES ASSUME command.on, ~(tweak = "edge" /\ step.slot = 3) PROVE setting'[step.slot] = "on"
    BY <1>1 DEF InForce
  <2>1. command.on = TRUE
    BY StepsAre DEF TweakCommands
  <2>2. Target(step.slot) = "on"
    BY <2>1 DEF Target
  <2> QED
    BY <1>6, <2>2
<1>8. \A i \in Slots : command.on /\ InForce(i) => InForce(i)'
  <2> SUFFICES ASSUME NEW i \in Slots, command.on, InForce(i) PROVE InForce(i)'
    OBVIOUS
  <2>1. CASE i = step.slot
    BY <1>7, <2>1
  <2>2. CASE i # step.slot
    BY <1>1, <1>6, <2>2 DEF InForce
  <2> QED
    BY <2>1, <2>2
<1>9. Effective(step)'
  BY <1>1, <1>4, <1>7 DEF Effective
<1>10. SysOptTypeOK'
  BY <1>1, <1>4, <1>6 DEF SysOptTypeOK, TweakCommands
<1> QED
  BY <1>0, <1>1, <1>4, <1>8, <1>9, <1>10, Advanced

\* SlotFails: the command ends, or counts the member that failed.
LEMMA FailStep ==
  ASSUME TweakInv, SlotFails
  PROVE  TweakInv'
<1> USE DEF TweakInv
<1>0. PICK step : step = Now
  OBVIOUS
<1>1. /\ RunningFix /\ step.do \in {"must", "may"} /\ TweakFault
      /\ UNCHANGED <<tweak, setting, appliedFlag, previous, tweakCommands>>
  BY <1>0 DEF SlotFails
<1>2. tweakFaults' \in 0..MaxTweakFaults
  BY <1>1, SysOptAssumption DEF TweakFault, SysOptTypeOK
<1>3. WriteOrKeep(step)
  BY <1>0, <1>1, StepsAre DEF RunningFix, Now
<1>4. step.slot \in Slots
  BY <1>1, <1>3 DEF WriteOrKeep
<1>5. CASE step.do = "must"
  <2>1. command' = NoCommand /\ answer' = "error"
    BY <1>0, <1>5 DEF SlotFails, Refused
  <2>2. SysOptTypeOK'
    BY <1>1, <1>2, <2>1, NothingAsked DEF SysOptTypeOK, TweakCommands
  <2>3. OkIsDone'
    BY <2>1 DEF OkIsDone
  <2> QED
    BY <2>1, <2>2, <2>3, Stopped
<1>6. CASE step.do # "must"
  <2>1. command' = [command EXCEPT !.at = @ + 1, !.failed = @ \cup {step.slot}] /\ UNCHANGED answer
    BY <1>0, <1>6 DEF SlotFails
  <2>2. {step.slot} \in SUBSET Slots
    BY <1>4
  <2>3. /\ command' \in TweakCommands /\ command'.at = command.at + 1 /\ command'.on = command.on
        /\ command'.failed = command.failed \cup {step.slot}
    BY <1>1, <2>1, <2>2, AdvanceIs
  <2>4. SysOptTypeOK'
    BY <1>1, <1>2, <2>1, <2>3 DEF SysOptTypeOK, TweakCommands
  <2>5. Effective(step)'
    BY <1>1, <1>6, <2>3 DEF Effective
  <2>6. \A i \in Slots : command.on /\ InForce(i) => InForce(i)'
    BY <1>1 DEF InForce
  <2> QED
    BY <1>1, <2>1, <2>3, <2>4, <2>5, <2>6, <1>0, Advanced
<1> QED
  BY <1>5, <1>6

\* SkipMark, MarkFlag, KeepPrevious: the settings stay, a flag tells what the command is.
LEMMA MarkStep ==
  ASSUME TweakInv, SkipMark \/ MarkFlag \/ KeepPrevious
  PROVE  TweakInv'
<1> USE DEF TweakInv
<1>0. PICK step : step = Now
  OBVIOUS
<1>1. /\ RunningFix /\ Advance /\ UNCHANGED <<tweak, setting, tweakCommands, tweakFaults>>
      /\ step.do \in {"flag", "flagIfWritten", "keep", "keepIfWritten"}
  BY <1>0 DEF SkipMark, Skipped, MarkFlag, KeepPrevious
<1>2. WriteOrKeep(step)
  BY <1>0, <1>1, StepsAre DEF RunningFix, Now
<1>3. /\ command' \in TweakCommands /\ command'.at = command.at + 1 /\ command'.on = command.on
      /\ command'.failed = command.failed /\ UNCHANGED answer
  BY <1>1, AdvanceOnly
<1>4. command.on \in BOOLEAN
  BY StepsAre DEF TweakCommands
<1>5. appliedFlag' = appliedFlag \/ appliedFlag' = command.on
  BY DEF SkipMark, MarkFlag, KeepPrevious
<1>6. step.do \in {"flag", "flagIfWritten"} => appliedFlag' = command.on \/ step.slot \in command.failed
  BY <1>0 DEF SkipMark, Skipped, MarkFlag, KeepPrevious
<1>7. step.do = "flag" => appliedFlag' = command.on
  BY <1>0 DEF SkipMark, Skipped, MarkFlag, KeepPrevious
<1>8. previous' \in [Slots -> Settings \cup {"none"}]
  <2>1. CASE SkipMark \/ MarkFlag
    BY <2>1 DEF SkipMark, MarkFlag, SysOptTypeOK
  <2>2. CASE KeepPrevious
    <3>1. previous' = [previous EXCEPT ![step.slot] = Kept(step.slot)] /\ step.slot \in Slots
      BY <1>0, <1>2, <2>2 DEF KeepPrevious, WriteOrKeep
    <3>2. Kept(step.slot) \in Settings
      BY <3>1, StepsAre DEF Kept, TweakCommands, SysOptTypeOK
    <3> QED
      BY <3>1, <3>2 DEF SysOptTypeOK
  <2> QED
    BY <2>1, <2>2
<1>9. SysOptTypeOK'
  BY <1>1, <1>3, <1>4, <1>5, <1>8 DEF SysOptTypeOK, TweakCommands
<1>10. Effective(step)'
  BY <1>1, <1>3, <1>6, <1>7 DEF Effective
<1>11. \A i \in Slots : command.on /\ InForce(i) => InForce(i)'
  BY <1>1 DEF InForce
<1>12. appliedFlag = command.on => appliedFlag' = command.on
  BY <1>5
<1> QED
  BY <1>1, <1>3, <1>9, <1>10, <1>11, <1>12, <1>0, Advanced

\* MarkFails, TweakCutShort: the command ends, with an error or without an answer.
LEMMA EndsStep ==
  ASSUME TweakInv, MarkFails \/ TweakCutShort
  PROVE  TweakInv'
<1> USE DEF TweakInv
<1>1. /\ command' = NoCommand /\ TweakFault
      /\ UNCHANGED <<tweak, setting, appliedFlag, previous, tweakCommands>>
      /\ answer' = "error" \/ (answer' = answer /\ command.at # 0)
  BY DEF MarkFails, MarkRefused, Refused, TweakCutShort
<1>2. tweakFaults' \in 0..MaxTweakFaults
  BY <1>1, SysOptAssumption DEF TweakFault, SysOptTypeOK
<1>3. SysOptTypeOK'
  BY <1>1, <1>2, NothingAsked DEF SysOptTypeOK, TweakCommands
<1>4. answer' \in {"error", "none"}
  BY <1>1 DEF Underway
<1>5. OkIsDone'
  BY <1>4 DEF OkIsDone
<1> QED
  BY <1>1, <1>3, <1>5, Stopped

\* CommandDone: every step had its effect, and of counted members not all failed.
LEMMA DoneStep ==
  ASSUME TweakInv, CommandDone
  PROVE  TweakInv'
<1> USE DEF TweakInv
<1>1. /\ command.at = Len(Steps) + 1 /\ command' = NoCommand
      /\ answer' = (IF AllFailed THEN "error" ELSE IF command.on THEN "applied" ELSE "undone")
      /\ UNCHANGED <<tweak, setting, appliedFlag, previous, tweakCommands, tweakFaults>>
  BY DEF CommandDone
<1>2. /\ Len(Steps) \in 0..6 /\ (Flags(Steps) \/ (tweak = "services" /\ command.on /\ MarksEach(Steps)))
      /\ command.on \in BOOLEAN
  BY StepsAre DEF TweakCommands
<1>3. \A j \in 1..Len(Steps) : Effective(Steps[j])
  <2>1. command.at # 0 /\ command.at - 1 = Len(Steps)
    BY <1>1, <1>2
  <2> QED
    BY <2>1 DEF Underway
<1>4. SysOptTypeOK'
  BY <1>1, <1>2, NothingAsked DEF SysOptTypeOK, TweakCommands
<1>5. ~AllFailed /\ tweak \in {"ceip", "services"} =>
        \E j \in 1..Len(Steps) : Steps[j].do = "may" /\ Steps[j].slot \notin command.failed
  BY DEF AllFailed, Members
<1>6. ~AllFailed => appliedFlag = command.on
  <2>1. CASE Flags(Steps)
    BY <1>3, <2>1 DEF Flags, Effective
  <2>2. CASE tweak = "services" /\ command.on /\ MarksEach(Steps)
    <3> SUFFICES ASSUME ~AllFailed PROVE appliedFlag = command.on
      OBVIOUS
    <3>1. PICK j \in 1..Len(Steps) : Steps[j].do = "may" /\ Steps[j].slot \notin command.failed
      BY <1>5, <2>2
    <3>2. PICK k \in 1..Len(Steps) : Steps[k].do = "flagIfWritten" /\ Steps[k].slot = Steps[j].slot
      BY <2>2, <3>1 DEF MarksEach
    <3> QED
      BY <1>3, <3>1, <3>2 DEF Effective
  <2> QED
    BY <1>2, <2>1, <2>2
<1>7. ASSUME answer' = "applied" PROVE OkIsDone'
  <2>1. ~AllFailed /\ command.on
    BY <1>1, <1>7
  <2>2. Steps = Program(tweak, TRUE)
    BY <1>2, <2>1 DEF Steps
  <2>3. \A do : Written(do) = {Steps[k].slot : k \in {j \in 1..Len(Steps) : Steps[j].do = do}}
    BY <2>2 DEF Written
  <2>4. \A i \in Written("must") : (tweak = "edge" /\ i = 3) \/ setting[i] = "on"
    BY <1>3, <2>1, <2>3 DEF Effective, InForce
  <2>5. tweak \in {"ceip", "services"} => \E i \in Written("may") : setting[i] = "on"
    <3> SUFFICES ASSUME tweak \in {"ceip", "services"} PROVE \E i \in Written("may") : setting[i] = "on"
      OBVIOUS
    <3>1. PICK j \in 1..Len(Steps) : Steps[j].do = "may" /\ Steps[j].slot \notin command.failed
      BY <1>5, <2>1
    <3>2. setting[Steps[j].slot] = "on"
      BY <1>3, <2>1, <3>1 DEF Effective, InForce
    <3>3. Steps[j].slot \in Written("may")
      BY <2>3, <3>1
    <3> QED
      BY <3>2, <3>3
  <2>6. appliedFlag
    BY <1>6, <2>1
  <2>7. \A do : Written(do)' = Written(do)
    BY <1>1 DEF Written
  <2> QED
    BY <1>1, <1>7, <2>4, <2>5, <2>6, <2>7 DEF OkIsDone
<1>8. ASSUME answer' # "applied" PROVE OkIsDone'
  BY <1>1, <1>2, <1>6, <1>8 DEF OkIsDone
<1> QED
  BY <1>1, <1>4, <1>7, <1>8, Stopped

LEMMA TweakInductive == SysOptSpec => []TweakInv
<1>1. SysOptInit => TweakInv
  <2> SUFFICES ASSUME SysOptInit PROVE TweakInv
    OBVIOUS
  <2>1. command.at = 0 /\ command \in TweakCommands /\ answer = "none"
    BY NothingAsked DEF SysOptInit
  <2>2. SysOptTypeOK
    <3>1. setting \in [Slots -> Settings] /\ previous \in [Slots -> Settings \cup {"none"}]
      BY DEF SysOptInit, Settings
    <3>2. tweak \in Tweaks /\ appliedFlag \in BOOLEAN
      BY DEF SysOptInit
    <3>3. tweakCommands \in 0..MaxTweakCommands /\ tweakFaults \in 0..MaxTweakFaults
      BY SysOptAssumption DEF SysOptInit
    <3> QED
      BY <2>1, <3>1, <3>2, <3>3 DEF SysOptTypeOK, TweakCommands
  <2> QED
    BY <2>1, <2>2 DEF TweakInv, Underway, OkIsDone
<1>2. TweakInv /\ [SysOptNext]_tweakVars => TweakInv'
  <2> SUFFICES ASSUME TweakInv, [SysOptNext]_tweakVars PROVE TweakInv'
    OBVIOUS
  <2>1. CASE UNCHANGED tweakVars
    BY <2>1 DEF tweakVars, TweakInv, SysOptTypeOK, Underway, OkIsDone, Steps, Effective, InForce, Written
  <2>2. ASSUME NEW on \in BOOLEAN, SetTweak(on) PROVE TweakInv'
    BY <2>2, BeginsStep DEF SetTweak
  <2>3. CASE RestoreAll
    BY <2>3, BeginsStep DEF RestoreAll
  <2>4. CASE WriteSlot \/ SlotFails \/ SkipMark \/ MarkFlag \/ KeepPrevious
    BY <2>4, WriteStep, FailStep, MarkStep
  <2>5. CASE MarkFails \/ TweakCutShort \/ CommandDone
    BY <2>5, EndsStep, DoneStep
  <2> QED
    BY <2>1, <2>2, <2>3, <2>4, <2>5 DEF SysOptNext
<1> QED
  BY <1>1, <1>2, PTL DEF SysOptSpec

\* A command stays within its program, its settings and flags of their kinds.
THEOREM SysOptTypeCorrect == SysOptSpec => []SysOptTypeOK
<1>1. TweakInv => SysOptTypeOK
  BY DEF TweakInv
<1> QED
  BY <1>1, TweakInductive, PTL

\* Whatever fails, ends or is repeated: an optimization reported as applied is flagged and in
\* force, one reported as undone is not flagged (set_tweak of hw/sys_opt.rs).
THEOREM OkDone == SysOptSpec => []OkIsDone
<1>1. TweakInv => OkIsDone
  BY DEF TweakInv
<1> QED
  BY <1>1, TweakInductive, PTL
================================================================================
