---------------------------- MODULE HealthSupervisor ----------------------------
(***************************************************************************)
(* The app's health supervisor (health_supervisor.rs) and its older        *)
(* sibling for the IoT service (hw/iot_watchdog.rs): every 30 s, one tick, *)
(* each looks at the services and repairs what is down, within a cooldown. *)
(***************************************************************************)
EXTENDS Naturals

CONSTANTS MaxOutages,  \* bound on services that die
          MaxMisses    \* bound on repairs that fail, time out or repair nothing

ASSUME HealthAssumption == MaxOutages \in Nat /\ MaxMisses \in Nat

Services == {"bridge", "iot", "face"}
RecoveryCooldown == 2       \* RECOVERY_COOLDOWN_MS, in ticks
IotCooldown == 10           \* RECOVERY_COOLDOWN of the IoT watchdog
Never == IotCooldown        \* no recovery yet

VARIABLES
  up,          \* the services that run
  health,      \* per service: the state of its ComponentHealth
  ambient,     \* the state of the ambient sensor
  check,       \* per service: its part of the cycle, todo, recover or done
  sinceRepair, \* per service: ticks since last_recovery_ms
  dogSince,    \* ticks since the IoT watchdog's last recovery
  dogRepairs,  \* the recovery it has spawned is running
  outages, misses

healthVars == <<up, health, ambient, check, sinceRepair, dogSince, dogRepairs, outages, misses>>

HealthTypeOK ==
  /\ up \subseteq Services
  /\ health \in [Services -> {"unknown", "healthy", "degraded", "recovering", "failed"}]
  /\ ambient \in {"unknown", "healthy", "degraded"}
  /\ check \in [Services \cup {"ambient"} -> {"todo", "recover", "done"}]
  /\ sinceRepair \in [Services -> 0..RecoveryCooldown]
  /\ dogSince \in 0..Never /\ dogRepairs \in BOOLEAN
  /\ outages \in 0..MaxOutages /\ misses \in 0..MaxMisses

\* start() and start_iot_watchdog(); the first cycle begins at once.
HealthInit ==
  /\ up = Services
  /\ health = [s \in Services |-> "unknown"] /\ ambient = "unknown"
  /\ check = [s \in Services \cup {"ambient"} |-> "todo"]
  /\ sinceRepair = [s \in Services |-> RecoveryCooldown]
  /\ dogSince = Never /\ dogRepairs = FALSE /\ outages = 0 /\ misses = 0

ServiceDown(s) ==
  /\ s \in up /\ outages < MaxOutages
  /\ up' = up \ {s} /\ outages' = outages + 1
  /\ UNCHANGED <<health, ambient, check, sinceRepair, dogSince, dogRepairs, misses>>

\* run_cycle joins the four checks; the next one starts 30 s after this one did.
CycleDone == \A s \in DOMAIN check : check[s] = "done"
NextTick ==
  /\ CycleDone
  /\ check' = [s \in DOMAIN check |-> "todo"]
  /\ sinceRepair' = [s \in Services |-> IF sinceRepair[s] < RecoveryCooldown
                                        THEN sinceRepair[s] + 1 ELSE RecoveryCooldown]
  \* check_once of the IoT watchdog, on the same beat
  /\ IF "iot" \notin up /\ dogSince >= IotCooldown
     THEN dogSince' = 0 /\ dogRepairs' = TRUE
     ELSE dogSince' = (IF dogSince < Never THEN dogSince + 1 ELSE Never) /\ UNCHANGED dogRepairs
  /\ UNCHANGED <<up, health, ambient, outages, misses>>

\* mark_failure lets a service be repaired when the last attempt is old enough.
MayRecover(s) == sinceRepair[s] >= RecoveryCooldown

\* Mutant: the time of the last attempt moves with every failure, not with every attempt.
CheckServicePostpones(s) ==
  /\ check[s] = "todo"
  /\ \/ /\ s \in up
        /\ health' = [health EXCEPT ![s] = "healthy"] /\ check' = [check EXCEPT ![s] = "done"]
        /\ UNCHANGED <<sinceRepair, misses>>
     \/ /\ s \notin up /\ sinceRepair' = [sinceRepair EXCEPT ![s] = 0]
        /\ health' = [health EXCEPT ![s] = IF MayRecover(s) THEN "recovering" ELSE "degraded"]
        /\ check' = [check EXCEPT ![s] = IF MayRecover(s) THEN "recover" ELSE "done"]
        /\ UNCHANGED misses
  /\ UNCHANGED <<up, ambient, dogSince, dogRepairs, outages>>

\* check_bridge, check_iot, check_face: a running service may be missed (the pipe
\* is busy, the probe takes more than 5 s).
CheckService(s) ==
  /\ check[s] = "todo"
  /\ \/ /\ s \in up
        /\ health' = [health EXCEPT ![s] = "healthy"] /\ check' = [check EXCEPT ![s] = "done"]
        /\ UNCHANGED <<sinceRepair, misses>>
     \/ /\ \/ s \notin up /\ UNCHANGED misses
           \/ s \in up /\ misses < MaxMisses /\ misses' = misses + 1
        /\ IF MayRecover(s)
           THEN /\ health' = [health EXCEPT ![s] = "recovering"]
                /\ sinceRepair' = [sinceRepair EXCEPT ![s] = 0]
                /\ check' = [check EXCEPT ![s] = "recover"]
           ELSE /\ health' = [health EXCEPT ![s] = "degraded"]
                /\ check' = [check EXCEPT ![s] = "done"] /\ UNCHANGED sinceRepair
  /\ UNCHANGED <<up, ambient, dogSince, dogRepairs, outages>>

\* The repair of the IoT service runs in the bridge service when that is up, in an
\* elevated task otherwise; each repair may also fail, run out of its 15 s, or be
\* answered "ok" without effect (the recreation cooldown of the EC service).
RecoverService(s) ==
  /\ check[s] = "recover"
  /\ check' = [check EXCEPT ![s] = "done"]
  /\ \/ up' = up \cup {s} /\ health' = [health EXCEPT ![s] = "healthy"] /\ UNCHANGED misses
     \/ /\ misses < MaxMisses /\ misses' = misses + 1
        /\ \E outcome \in {"failed", "healthy"} : health' = [health EXCEPT ![s] = outcome]
        /\ UNCHANGED up
  /\ UNCHANGED <<ambient, sinceRepair, dogSince, dogRepairs, outages>>

\* check_ambient_sensor: no repair, only a reset of the cached sensor.
CheckAmbient ==
  /\ check["ambient"] = "todo"
  /\ check' = [check EXCEPT !["ambient"] = "done"]
  /\ ambient' \in {"healthy", "degraded"}
  /\ UNCHANGED <<up, health, sinceRepair, dogSince, dogRepairs, outages, misses>>

\* The IoT watchdog's own ensure_ecram_service, beside the supervisor's.
DogRepair ==
  /\ dogRepairs /\ dogRepairs' = FALSE
  /\ \/ up' = up \cup {"iot"} /\ UNCHANGED misses
     \/ misses < MaxMisses /\ misses' = misses + 1 /\ UNCHANGED up
  /\ UNCHANGED <<health, ambient, check, sinceRepair, dogSince, outages>>

Supervise == NextTick \/ CheckAmbient \/ DogRepair
             \/ \E s \in Services : CheckService(s) \/ RecoverService(s)

HealthNext == Supervise \/ \E s \in Services : ServiceDown(s)

HealthSpec == HealthInit /\ [][HealthNext]_healthVars

\* The runtime runs the two loops.
FairHealthSpec == HealthSpec /\ WF_healthVars(Supervise)

-----------------------------------------------------------------------------
(* Properties.                                                             *)

\* A service that is down comes back, whatever was missed or failed before
\* (mark_failure's cooldown must let attempts through for ever; run_cycle).
ServicesComeBack == \A s \in Services : []<>(s \in up)
=============================================================================
