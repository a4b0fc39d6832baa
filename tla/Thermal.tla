-------------------------------- MODULE Thermal --------------------------------
(***************************************************************************)
(* The temperatures (hw/fan.rs): an unelevated app is refused them and     *)
(* asks the elevated side, behind a cache, a breaker and the healing of    *)
(* the bridge service; the failure cache of the local query; the fan mode. *)
(***************************************************************************)
EXTENDS Naturals

CONSTANTS
  Pollers,         \* tabs that call get_fan_info at their own pace
  MaxThermalFaults \* bound on outages of the bridge, of the task and of the local query

ASSUME ThermalAssumption == MaxThermalFaults \in Nat

MaxConsecutiveFailures == 3
FanModes == {"auto", "fixed", "off"}

VARIABLES
  bridgeUp, taskWorks, localReads, \* which of the three ways to a reading works
  localDenied,     \* LAST_FAILURE: the local query is not tried for a minute
  poller,          \* where a call of get_fan_info is
  thermalFailures, \* CONSECUTIVE_FAILURES
  thermalBackoff,  \* BACKOFF_UNTIL: none, running, or over and not yet noticed
  healNeeded,      \* HEAL_BRIDGE_NEEDED
  thermalCache,    \* THERMAL_CACHE: none, a reading, or one older than 15 s
  fanStored, ecFan,\* the fan mode in the registry and in the EC
  thermalFaults

waysVars == <<bridgeUp, taskWorks, localReads>>
circuitVars == <<thermalFailures, thermalBackoff, healNeeded, thermalCache>>
thermalVars == <<waysVars, localDenied, poller, circuitVars, fanStored, ecFan, thermalFaults>>

ThermalTypeOK ==
  /\ {bridgeUp, taskWorks, localReads, localDenied, healNeeded} \subseteq BOOLEAN
  /\ poller \in [Pollers -> {"idle", "elevated", "heal", "call", "told", "nothing"}]
  /\ thermalFailures \in 0..(MaxConsecutiveFailures + 1)
  /\ thermalBackoff \in {"none", "running", "over"} /\ thermalCache \in {"none", "fresh", "old"}
  /\ {fanStored, ecFan} \subseteq FanModes /\ thermalFaults \in 0..MaxThermalFaults

ThermalInit ==
  /\ bridgeUp \in BOOLEAN /\ taskWorks = TRUE /\ localReads \in BOOLEAN /\ localDenied = FALSE
  /\ poller = [p \in Pollers |-> "idle"] /\ thermalFailures = 0
  /\ thermalBackoff = "none" /\ healNeeded = FALSE /\ thermalCache = "none"
  /\ fanStored = "auto" /\ ecFan = "auto" /\ thermalFaults = 0

ThermalFault == thermalFaults < MaxThermalFaults /\ thermalFaults' = thermalFaults + 1
Fans == <<fanStored, ecFan>>

\* What fails, and what is repaired from elsewhere.
WaysChange ==
  /\ ThermalFault
  /\ bridgeUp' \in BOOLEAN /\ taskWorks' \in BOOLEAN /\ localReads' = localReads
  /\ UNCHANGED <<localDenied, poller, circuitVars, Fans>>
TaskRepaired ==
  /\ ~taskWorks /\ taskWorks' = TRUE
  /\ UNCHANGED <<bridgeUp, localReads, localDenied, poller, circuitVars, Fans, thermalFaults>>

\* get_esif_readings: a failure is remembered for a minute.
AskLocal(p) ==
  /\ poller[p] \in {"idle", "told", "nothing"}
  /\ IF ~localDenied /\ localReads
     THEN poller' = [poller EXCEPT ![p] = "told"] /\ UNCHANGED localDenied
     ELSE poller' = [poller EXCEPT ![p] = "elevated"] /\ localDenied' = TRUE
  /\ UNCHANGED <<waysVars, circuitVars, Fans, thermalFaults>>
DenialExpires ==
  /\ localDenied /\ localDenied' = FALSE
  /\ UNCHANGED <<waysVars, poller, circuitVars, Fans, thermalFaults>>

\* Mutant: only a success closes it.
BreakerNeverTried == thermalBackoff = "none"
\* A breaker whose time is over lets the next call through.
BreakerClosed == thermalBackoff # "running"

\* get_elevated_thermal_readings up to its first await: the cache, the breaker, which
\* closes when its time is over, the flag that is taken before the bridge is healed.
AskElevated(p) ==
  /\ poller[p] = "elevated"
  /\ \/ thermalCache = "fresh" /\ poller' = [poller EXCEPT ![p] = "told"] /\ UNCHANGED circuitVars
     \/ /\ thermalCache # "fresh" /\ thermalCache' = "none"
        /\ \/ /\ ~BreakerClosed /\ poller' = [poller EXCEPT ![p] = "nothing"]
              /\ UNCHANGED <<thermalBackoff, thermalFailures, healNeeded>>
           \/ /\ BreakerClosed /\ thermalBackoff' = "none"
              /\ thermalFailures' = IF thermalBackoff = "over" THEN 0 ELSE thermalFailures
              /\ healNeeded' = FALSE
              /\ poller' = [poller EXCEPT ![p] = IF healNeeded THEN "heal" ELSE "call"]
  /\ UNCHANGED <<waysVars, localDenied, Fans, thermalFaults>>

\* ensure_bridge_service: by the task when the pipe is gone; a failure keeps the flag.
Healed == bridgeUp \/ taskWorks
HealBridge(p) ==
  /\ poller[p] = "heal" /\ poller' = [poller EXCEPT ![p] = "call"]
  /\ bridgeUp' = Healed /\ healNeeded' = (healNeeded \/ ~Healed)
  /\ UNCHANGED <<taskWorks, localReads, localDenied, thermalFailures, thermalBackoff,
                 thermalCache, Fans, thermalFaults>>

\* run_elevated_no_prompt answers by the pipe or by the task.
CallSucceeds(p) ==
  /\ poller[p] = "call" /\ (bridgeUp \/ taskWorks) /\ poller' = [poller EXCEPT ![p] = "told"]
  /\ thermalFailures' = 0 /\ thermalCache' = "fresh"
  /\ UNCHANGED <<waysVars, localDenied, thermalBackoff, healNeeded, Fans, thermalFaults>>
\* The third failure in a row opens the breaker and, without the pipe, asks for healing.
CallFails(p) ==
  /\ poller[p] = "call" /\ poller' = [poller EXCEPT ![p] = "nothing"]
  /\ IF bridgeUp \/ taskWorks THEN ThermalFault ELSE UNCHANGED thermalFaults
  /\ thermalFailures' = IF thermalFailures > MaxConsecutiveFailures THEN thermalFailures
                        ELSE thermalFailures + 1
  /\ IF thermalFailures' >= MaxConsecutiveFailures
     THEN thermalBackoff' = "running" /\ healNeeded' = (healNeeded \/ ~bridgeUp)
     ELSE UNCHANGED <<thermalBackoff, healNeeded>>
  /\ UNCHANGED <<waysVars, localDenied, thermalCache, Fans>>

BackoffRunsOut ==
  /\ thermalBackoff = "running" /\ thermalBackoff' = "over"
  /\ UNCHANGED <<waysVars, localDenied, poller, thermalFailures, healNeeded, thermalCache, Fans,
                 thermalFaults>>
CacheAges ==
  /\ thermalCache = "fresh" /\ thermalCache' = "old"
  /\ UNCHANGED <<waysVars, localDenied, poller, thermalFailures, thermalBackoff, healNeeded,
                 Fans, thermalFaults>>

\* reset_elevated_thermal_circuit on a resume; a call on its way is not told.
ResetCircuit ==
  /\ ThermalFault
  /\ thermalFailures' = 0 /\ healNeeded' = FALSE
  /\ thermalBackoff' = "none" /\ thermalCache' = "none"
  /\ UNCHANGED <<waysVars, localDenied, poller, Fans>>

\* persist_fan_registry: it is this value that get_fan_mode reads back.
PersistFan(mode) == fanStored' = mode
\* set_fan_mode: the registry or an error; an EC that refuses is only logged.
SetFanMode(mode) ==
  /\ ThermalFault /\ PersistFan(mode) /\ ecFan' \in {ecFan, mode}
  /\ UNCHANGED <<waysVars, localDenied, poller, circuitVars>>

PollerStep(p) == AskLocal(p) \/ AskElevated(p) \/ HealBridge(p) \/ CallSucceeds(p) \/ CallFails(p)
ThermalNext ==
  \/ WaysChange \/ TaskRepaired \/ DenialExpires \/ BackoffRunsOut \/ CacheAges \/ ResetCircuit
  \/ \E p \in Pollers : PollerStep(p)
  \/ \E mode \in FanModes : SetFanMode(mode)

ThermalSpec == ThermalInit /\ [][ThermalNext]_thermalVars

\* Tabs keep polling and awaited calls return; clocks advance.
FairThermalSpec ==
  /\ ThermalSpec /\ \A p \in Pollers : WF_thermalVars(PollerStep(p))
  /\ WF_thermalVars(BackoffRunsOut) /\ WF_thermalVars(TaskRepaired)

-----------------------------------------------------------------------------
(* Properties.                                                             *)

\* Once nothing fails any more every poller is told the temperatures (the breaker closes
\* after its 60 s, the bridge is healed).
TemperaturesReturn == \A p \in Pollers : []<>(poller[p] = "told")
================================================================================
