-------------------------------- MODULE PerfModes --------------------------------
(***************************************************************************)
(* Performance modes (hw/performance.rs): a mode is written to four        *)
(* places, one after the other and without a lock, by whoever asks: the UI *)
(* through the bridge service, the scenario rules (hw/scenario_rules.rs)   *)
(* in the app.                                                             *)
(***************************************************************************)
EXTENDS Naturals

CONSTANTS MaxSets,     \* bound on mode changes
          AppElevated  \* the app itself may write HKLM

ASSUME PerfAssumption == MaxSets \in Nat /\ AppElevated \in BOOLEAN

Modes == {"silence", "balance", "turbo"}
NoMode == "none"
Sets == 1..MaxSets

\* The overlay scheme a mode selects.
OverlayOf(mode) == CASE mode = "silence" -> "efficiency"
                     [] mode = "turbo" -> "performance" [] OTHER -> "balanced"

VARIABLES
  setter,      \* per mode change: where it is, its mode, whether it runs elevated
  registry, overlay, ecMode, firmware, \* the four places
  disturbed    \* history: sets overlapped or failed, or something else wrote a place

perfVars == <<setter, registry, overlay, ecMode, firmware, disturbed>>

SetterStates == {"none", "registry", "overlay", "ec", "hq", "vhf", "done"}

PerfTypeOK ==
  /\ setter \in [Sets -> [at : SetterStates, mode : Modes, elevated : BOOLEAN]]
  /\ registry \in Modes \cup {NoMode} /\ overlay \in {"efficiency", "balanced", "performance"}
  /\ ecMode \in Modes /\ firmware \in Modes /\ disturbed \in BOOLEAN

PerfInit ==
  /\ setter = [s \in Sets |-> [at |-> "none", mode |-> "balance", elevated |-> FALSE]]
  /\ registry = NoMode /\ overlay = "balanced" /\ ecMode = "balance" /\ firmware = "balance"
  /\ disturbed = FALSE

\* get_performance_mode: the registry's mode, else the one the overlay stands for.
ShownMode == IF registry # NoMode THEN registry
             ELSE CASE overlay = "efficiency" -> "silence"
                    [] overlay = "performance" -> "turbo" [] OTHER -> "balance"

Running == {s \in Sets : setter[s].at \notin {"none", "done"}}

\* A change is asked for: from the UI it runs in the bridge service; a rule's
\* (apply_event) on the app's fixed pool, and nobody waits for it.
AskMode(mode, elevated) ==
  \E s \in Sets :
    /\ setter[s].at = "none" /\ \A t \in 1..(s - 1) : setter[t].at # "none"
    /\ setter' = [setter EXCEPT ![s] = [at |-> "registry", mode |-> mode, elevated |-> elevated]]
    /\ disturbed' = (disturbed \/ Running # {})
    /\ UNCHANGED <<registry, overlay, ecMode, firmware>>

At(s, from, to) == setter[s].at = from /\ setter' = [setter EXCEPT ![s].at = to]

\* persist_to_registry: when the write fails, or is not allowed, nothing else happens.
Persist(s) ==
  /\ \/ /\ setter[s].elevated \/ AppElevated
        /\ At(s, "registry", "overlay") /\ registry' = setter[s].mode
     \/ At(s, "registry", "done") /\ UNCHANGED registry
  /\ UNCHANGED <<overlay, ecMode, firmware, disturbed>>

\* set_windows_power_overlay, then the EC's power mode, whose failure is only logged,
\* then HQ WMI and, when that fails, the VHF device.
Overlay(s) ==
  /\ At(s, "overlay", "ec") /\ overlay' = OverlayOf(setter[s].mode)
  /\ UNCHANGED <<registry, ecMode, firmware, disturbed>>
\* Mutant: the EC's power limit is not set.
SetEcSkipped(s) ==
  At(s, "ec", "hq") /\ UNCHANGED <<registry, overlay, ecMode, firmware, disturbed>>
SetEc(s) ==
  /\ At(s, "ec", "hq")
  /\ \/ ecMode' = setter[s].mode /\ UNCHANGED disturbed
     \/ UNCHANGED ecMode /\ disturbed' = TRUE
  /\ UNCHANGED <<registry, overlay, firmware>>
SendHq(s) ==
  /\ \/ At(s, "hq", "done") /\ firmware' = setter[s].mode
     \/ At(s, "hq", "vhf") /\ UNCHANGED firmware
  /\ UNCHANGED <<registry, overlay, ecMode, disturbed>>
SendVhf(s) ==
  /\ At(s, "vhf", "done")
  /\ \/ firmware' = setter[s].mode /\ UNCHANGED disturbed
     \/ UNCHANGED firmware /\ disturbed' = TRUE
  /\ UNCHANGED <<registry, overlay, ecMode>>

SetStep(s) ==
  Persist(s) \/ Overlay(s) \/ SetEc(s) \/ SendHq(s) \/ SendVhf(s)

\* get_perf_debug tries SetPerformanceMode("1") in the firmware.
PerfDebug ==
  /\ firmware' = "balance" /\ disturbed' = TRUE
  /\ UNCHANGED <<setter, registry, overlay, ecMode>>

PerfNext ==
  \/ \E mode \in Modes, elevated \in BOOLEAN : AskMode(mode, elevated)
  \/ \E s \in Sets : SetStep(s)
  \/ PerfDebug

PerfSpec == PerfInit /\ [][PerfNext]_perfVars

-----------------------------------------------------------------------------
(* Properties.                                                             *)

\* When no change is under way and none overlapped or failed, the mode the UI shows is
\* the one the overlay, the EC and the firmware hold, also before the first change and
\* after one whose registry write failed (get_performance_mode; the two channels of S61
\* wrote different subsystems).
PlacesAgree ==
  Running = {} /\ ~disturbed =>
    /\ overlay = OverlayOf(ShownMode) /\ ecMode = ShownMode /\ firmware = ShownMode
================================================================================
