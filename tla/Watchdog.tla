------------------------------- MODULE Watchdog -------------------------------
(***************************************************************************)
(* The app watchdog of the bridge service (micontrol_bridge.rs, watchdog)  *)
(* and what the app leaves for it (hw/crash_recovery.rs): the heartbeat    *)
(* file, the quit sentinel, the autostart mirror, and the session flag.    *)
(* Time is counted in ticks of 15 s: a running app beats at least once a   *)
(* tick, a heartbeat is stale after three, and a poll comes every two.     *)
(***************************************************************************)
EXTENDS Integers

CONSTANTS MaxEvents,   \* bound on what users, crashes and Windows do
          EventKinds   \* which of these happen

ASSUME WatchdogAssumption == MaxEvents \in Nat

StaleAge == 3
PollGap == 2
DeadPolls == 4
MaxZombieResets == 3

VARIABLES
  app,         \* the process: off, starting (before setup), set (up to its first
               \* heartbeat), up, stuck (no heartbeat thread any more)
  starved,     \* the async runtime schedules nothing
  window,      \* the main window exists
  probeFails,  \* ASYNC_PROBE_FAILS, counted to 2
  age, uiOk,   \* the heartbeat file: its age in ticks, its third line
  sentinel,    \* watchdog_user_quit exists
  armed,       \* watchdog_enabled exists
  autostart,   \* the user's preference
  flag,        \* AbnormalRestartDetected
  abnormal,    \* what the last start concluded from it
  session,     \* an interactive session is there to launch into
  poll,        \* the watchdog: sleep, look, kill, launch
  hidden,      \* the instance to be launched starts minimized
  wait,        \* ticks until the next poll
  dead, zombie,
  events,
  upPolls,     \* history: polls in a row, up to two, that began with the app up
  slept        \* history: the machine has been suspended

appVars == <<app, starved, window, probeFails>>
fileVars == <<age, uiOk, sentinel, armed, autostart, flag, abnormal>>
pollVars == <<poll, hidden, wait, dead, zombie>>
histories == <<upPolls, slept>>
watchdogVars == <<appVars, fileVars, session, pollVars, events, histories>>

WatchdogTypeOK ==
  /\ app \in {"off", "starting", "set", "up", "stuck"}
  /\ {starved, window, sentinel, armed, autostart, flag, abnormal, session,
      hidden, slept} \subseteq BOOLEAN
  /\ probeFails \in 0..2 /\ age \in 0..StaleAge /\ uiOk \in 0..1
  /\ poll \in {"sleep", "look", "kill", "launch"} /\ wait \in 0..PollGap
  /\ dead \in 0..DeadPolls - 1 /\ zombie \in 0..MaxZombieResets + 1
  /\ events \in 0..MaxEvents
  /\ upPolls \in 0..2

\* First start after the installation: no file, no flag, autostart on.
WatchdogInit ==
  /\ app = "off" /\ starved = FALSE /\ window = TRUE /\ probeFails = 0
  /\ age = StaleAge /\ uiOk = 0 /\ sentinel = FALSE /\ armed = FALSE
  /\ autostart = TRUE /\ flag = FALSE /\ abnormal = FALSE /\ session = TRUE
  /\ poll = "sleep" /\ hidden = FALSE /\ wait = PollGap /\ dead = 0 /\ zombie = 0
  /\ events = 0
  /\ upPolls = 0 /\ slept = FALSE

-----------------------------------------------------------------------------
(* The app.                                                                *)

\* setup(): conclude from the flag, set it for this session, clear the
\* sentinel, mirror the autostart preference.
SetUp ==
  /\ app = "starting"
  /\ app' = "set"
  /\ abnormal' = flag /\ flag' = TRUE
  /\ sentinel' = FALSE /\ armed' = autostart
  /\ UNCHANGED <<starved, window, probeFails, age, uiOk, autostart, session,
                 pollVars, events, histories>>

\* What the UI probe finds, and what it makes of the number of its failures.
ProbeFails == IF starved THEN (IF probeFails < 2 THEN probeFails + 1 ELSE 2) ELSE 0
UiIsAlive == window /\ (starved => ProbeFails >= 2)

\* The probe runs only while the window is there.
WriteHeartbeat ==
  /\ age' = 0
  /\ probeFails' = IF window THEN ProbeFails ELSE probeFails
  /\ uiOk' = IF UiIsAlive THEN 1 ELSE 0

\* Setup is done: the first heartbeat, and the thread that repeats it.
Ready ==
  /\ app = "set"
  /\ app' = "up"
  /\ WriteHeartbeat
  /\ UNCHANGED <<starved, window, sentinel, armed, autostart, flag, abnormal,
                 session, pollVars, events, histories>>

\* 15 s pass: a running app refreshes its heartbeat, any other one ages.
WatchdogTick ==
  /\ poll = "sleep" /\ wait > 0
  /\ wait' = wait - 1
  /\ IF app = "up" THEN WriteHeartbeat
     ELSE /\ age' = IF age < StaleAge THEN age + 1 ELSE age
          /\ UNCHANGED <<uiOk, probeFails>>
  /\ UNCHANGED <<app, starved, window, sentinel, armed, autostart, flag, abnormal,
                 session, poll, hidden, dead, zombie, events, histories>>

-----------------------------------------------------------------------------
(* What happens to it.                                                     *)

Event(kind) ==
  /\ kind \in EventKinds /\ events < MaxEvents /\ events' = events + 1

\* A process starts with a runtime and a window of its own.
Started == app' = "starting" /\ starved' = FALSE /\ window' = TRUE /\ probeFails' = 0

\* The user, the Run key or the Restart Manager starts the app; a second
\* instance would leave at once.
UserStart ==
  /\ Event("start") /\ app = "off"
  /\ Started
  /\ UNCHANGED <<fileVars, session, pollVars, upPolls, slept>>

\* mark_clean_exit, mark_user_quit, exit.
UserQuit ==
  /\ Event("quit") /\ app \in {"up", "stuck"}
  /\ app' = "off" /\ flag' = FALSE /\ sentinel' = TRUE
  /\ UNCHANGED <<starved, window, probeFails, age, uiOk, armed, autostart, abnormal,
                 session, pollVars, upPolls, slept>>

Crash ==
  /\ Event("crash") /\ app # "off"
  /\ app' = "off"
  /\ UNCHANGED <<starved, window, probeFails, fileVars, session, pollVars, upPolls, slept>>

\* The process goes on without its heartbeat thread.
Stick ==
  /\ Event("stick") /\ app = "up"
  /\ app' = "stuck"
  /\ UNCHANGED <<starved, window, probeFails, fileVars, session, pollVars, histories>>

\* Every worker of the runtime is blocked.
Starve ==
  /\ Event("starve") /\ app = "up" /\ ~starved
  /\ starved' = TRUE
  /\ UNCHANGED <<app, window, probeFails, fileVars, session, pollVars, histories>>

LoseWindow ==
  /\ Event("window") /\ app = "up" /\ window
  /\ window' = FALSE
  /\ UNCHANGED <<app, starved, probeFails, fileVars, session, pollVars, histories>>

\* The user logs off or on.
SessionChange ==
  /\ Event("session")
  /\ session' = ~session
  /\ UNCHANGED <<appVars, fileVars, pollVars, histories>>

\* The machine sleeps, once: the heartbeat is old when it wakes, and the poll may
\* be due before the heartbeat thread runs.
Suspend ==
  /\ Event("suspend") /\ ~slept /\ poll = "sleep"
  /\ slept' = TRUE /\ age' = StaleAge
  /\ wait' \in {0, wait}
  /\ UNCHANGED <<appVars, uiOk, sentinel, armed, autostart, flag, abnormal, session, poll,
                 hidden, dead, zombie, upPolls>>

\* set_autostart: the preference and its mirror.
SetAutostart ==
  /\ Event("autostart") /\ app = "up"
  /\ autostart' = ~autostart /\ armed' = autostart'
  /\ UNCHANGED <<appVars, age, uiOk, sentinel, flag, abnormal, session, pollVars,
                 histories>>

-----------------------------------------------------------------------------
(* The watchdog.                                                           *)

Sleep == poll' = "sleep" /\ wait' = PollGap

\* The markers are read first, the processes and the heartbeat later.
PollMarkers ==
  /\ poll = "sleep" /\ wait = 0
  /\ upPolls' = IF app # "up" THEN 0 ELSE IF upPolls < 2 THEN upPolls + 1 ELSE 2
  /\ IF sentinel \/ ~armed
     THEN Sleep /\ dead' = 0 /\ zombie' = 0
     ELSE poll' = "look" /\ UNCHANGED <<wait, dead, zombie>>
  /\ UNCHANGED <<appVars, fileVars, session, hidden, events, slept>>

\* Mutant: the count of dead polls starts again with every poll.
PollDeadForgets ==
  /\ poll = "look" /\ app = "off"
  /\ zombie' = 0 /\ dead' = 0
  /\ Sleep /\ UNCHANGED hidden
  /\ UNCHANGED <<appVars, fileVars, session, events, upPolls, slept>>

\* No process: after four polls in a row, launch it minimized.
PollDead ==
  /\ poll = "look" /\ app = "off"
  /\ zombie' = 0
  /\ IF dead + 1 >= DeadPolls
     THEN poll' = "launch" /\ hidden' = TRUE /\ dead' = 0 /\ UNCHANGED wait
     ELSE Sleep /\ dead' = dead + 1 /\ UNCHANGED hidden
  /\ UNCHANGED <<appVars, fileVars, session, events, upPolls, slept>>

\* Mutant: the first stale heartbeat is enough.
PollZombieAtOnce ==
  /\ poll = "look" /\ app # "off" /\ age >= StaleAge
  /\ dead' = 0
  /\ zombie' = IF zombie > MaxZombieResets THEN zombie ELSE zombie + 1
  /\ IF zombie + 1 <= MaxZombieResets
     THEN poll' = "kill" /\ UNCHANGED wait
     ELSE Sleep
  /\ UNCHANGED <<appVars, fileVars, session, hidden, events, histories>>

\* A process with a stale heartbeat: kill it if it was stale before, give it up
\* after three polls.
PollZombie ==
  /\ poll = "look" /\ app # "off" /\ age >= StaleAge
  /\ dead' = 0
  /\ zombie' = IF zombie > MaxZombieResets THEN zombie ELSE zombie + 1
  /\ IF zombie + 1 >= 2 /\ zombie + 1 <= MaxZombieResets
     THEN poll' = "kill" /\ UNCHANGED wait
     ELSE Sleep
  /\ UNCHANGED <<appVars, fileVars, session, hidden, events, histories>>

\* A process with a fresh heartbeat, whatever its third line says.
PollWell ==
  /\ poll = "look" /\ app # "off" /\ age < StaleAge
  /\ Sleep /\ dead' = 0 /\ zombie' = 0
  /\ UNCHANGED <<appVars, fileVars, session, hidden, events, upPolls, slept>>

\* kill_app kills what is there; with nothing killed there is no launch.
KillApp ==
  /\ poll = "kill"
  /\ \/ /\ app # "off"
        /\ app' = "off"
        /\ poll' = "launch" /\ hidden' = FALSE /\ UNCHANGED wait
     \/ Sleep /\ UNCHANGED <<app, hidden>>
  /\ UNCHANGED <<starved, window, probeFails, fileVars, session, dead, zombie, events,
                 upPolls, slept>>

\* launch_app needs a session; a second instance leaves at once.
LaunchApp ==
  /\ poll = "launch"
  /\ IF session /\ app = "off"
     THEN Started
     ELSE UNCHANGED appVars
  /\ Sleep
  /\ UNCHANGED <<fileVars, session, hidden, dead, zombie, events, upPolls, slept>>

\* A panic in a poll skips the rest of it.
PollPanics ==
  /\ Event("panic") /\ poll # "sleep"
  /\ Sleep /\ dead' = 0 /\ zombie' = 0
  /\ UNCHANGED <<appVars, fileVars, session, hidden, upPolls, slept>>

Polling == PollMarkers \/ PollDead \/ PollZombie \/ PollWell \/ KillApp \/ LaunchApp

WatchdogNext ==
  \/ SetUp \/ Ready \/ WatchdogTick \/ Polling
  \/ UserStart \/ UserQuit \/ Crash \/ Stick \/ Starve \/ LoseWindow
  \/ SessionChange \/ Suspend \/ SetAutostart \/ PollPanics

WatchdogSpec == WatchdogInit /\ [][WatchdogNext]_watchdogVars

\* The watchdog's thread and the app's setup run, and time passes.
WatchdogFairness ==
  /\ WF_watchdogVars(Polling) /\ WF_watchdogVars(WatchdogTick)
  /\ WF_watchdogVars(SetUp \/ Ready)

FairWatchdogSpec == WatchdogSpec /\ WatchdogFairness

-----------------------------------------------------------------------------
(* Properties.                                                             *)

\* An app that two polls in a row found up is not killed by the second, though its
\* heartbeat may be old when the machine wakes (watchdog_poll, two confirmations).
OnlyStaleIsKilled == poll = "kill" /\ app = "up" => upPolls < 2

\* While the user wants the app, is logged on and has not quit it, it does not
\* stay dead (micontrol_bridge.rs, "any other death is auto-relaunched").
DeadAppReturns == []<>(app # "off" \/ ~armed \/ sentinel \/ ~session)
=============================================================================
