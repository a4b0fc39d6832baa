------------------------------- MODULE PowerEvents -------------------------------
(***************************************************************************)
(* The power listener (hw/iot_events.rs): every 5 s its loop, and scan_now *)
(* beside it, turn a reading of the battery into events, for which the     *)
(* scenario rules (hw/scenario_rules.rs) ask for a performance mode.       *)
(***************************************************************************)
EXTENDS Naturals

CONSTANT MaxPower     \* bound on changes of the power supply

ASSUME PowerAssumption == MaxPower \in Nat

Readers == {"loop", "scan"}
Rules == [on |-> "turbo", off |-> "silence"]  \* on_ac_mode and on_battery_mode
SlowTicks == 6               \* CONSECUTIVE_TICKS_NEEDED

VARIABLES
  supply,      \* the power supply: ac, charging, low battery, a slow adapter
  powerMoves,
  reader,      \* per reader: the section it is at, and what it has read
  lastAc, lastLow, slow, \* ListenerState and SLOW_TICKS
  acEvent,     \* history: the last of ac_on and ac_off that was fired
  asked        \* history: the mode the rules asked for last

powerVars == <<supply, powerMoves, reader, lastAc, lastLow, slow, acEvent, asked>>

Supplies == {s \in [ac : BOOLEAN, low : BOOLEAN, charging : BOOLEAN, slowAdapter : BOOLEAN] :
               s.charging \/ s.slowAdapter => s.ac}

PowerTypeOK ==
  /\ supply \in Supplies /\ powerMoves \in 0..MaxPower
  /\ reader \in [Readers -> [at : {"idle", "ac", "level", "slow"}, info : Supplies]]
  /\ lastAc \in {"unknown", "on", "off"} /\ lastLow \in {"unknown", "low", "ok"}
  /\ slow \in 0..SlowTicks /\ acEvent \in {"none", "on", "off"}
  /\ asked \in {"none", "turbo", "silence"}

PowerInit ==
  /\ supply = [ac |-> TRUE, low |-> FALSE, charging |-> FALSE, slowAdapter |-> FALSE]
  /\ powerMoves = 0
  /\ reader = [r \in Readers |-> [at |-> "idle", info |-> supply]]
  /\ lastAc = "unknown" /\ lastLow = "unknown" /\ slow = 0 /\ acEvent = "none"
  /\ asked = "none"

PowerChanges ==
  /\ powerMoves < MaxPower /\ powerMoves' = powerMoves + 1
  /\ supply' \in Supplies /\ supply' # supply
  /\ UNCHANGED <<reader, lastAc, lastLow, slow, acEvent, asked>>

\* tick: one reading of the battery, then its sections, each under its own lock.
Tick(r) ==
  /\ reader[r].at = "idle"
  /\ reader' = [reader EXCEPT ![r] = [at |-> "ac", info |-> supply]]
  /\ UNCHANGED <<supply, powerMoves, lastAc, lastLow, slow, acEvent, asked>>

OnOff(b) == IF b THEN "on" ELSE "off"
Section(r, from, to) == reader[r].at = from /\ reader' = [reader EXCEPT ![r].at = to]

\* Mutant: a section that keeps what was read before when it fires.
AcSectionStale(r) ==
  LET now == OnOff(reader[r].info.ac) IN
  /\ Section(r, "ac", "level")
  /\ lastAc' = IF lastAc = "unknown" THEN now ELSE lastAc
  /\ IF lastAc \notin {"unknown", now}
     THEN acEvent' = now /\ asked' = Rules[now]
     ELSE UNCHANGED <<acEvent, asked>>
  /\ UNCHANGED <<supply, powerMoves, lastLow, slow>>
AcSection(r) ==
  LET now == OnOff(reader[r].info.ac) IN
  /\ Section(r, "ac", "level") /\ lastAc' = now
  /\ IF lastAc \notin {"unknown", now}
     THEN acEvent' = now /\ asked' = Rules[now]
     ELSE UNCHANGED <<acEvent, asked>>
  /\ UNCHANGED <<supply, powerMoves, lastLow, slow>>

LevelSection(r) ==
  LET now == IF reader[r].info.low THEN "low" ELSE "ok" IN
  /\ Section(r, "level", "slow") /\ lastLow' = now
  /\ asked' = IF lastLow = "ok" /\ now = "low" /\ ~reader[r].info.charging
              THEN Rules.off ELSE asked
  /\ UNCHANGED <<supply, powerMoves, lastAc, slow, acEvent>>

\* The slow charger is told of at the sixth reading in a row.
SlowSection(r) ==
  LET info == reader[r].info IN
  /\ Section(r, "slow", "idle")
  /\ slow' = IF info.ac /\ info.charging /\ info.slowAdapter
             THEN IF slow < SlowTicks THEN slow + 1 ELSE slow ELSE 0
  /\ UNCHANGED <<supply, powerMoves, lastAc, lastLow, acEvent, asked>>

PowerNext ==
  \/ PowerChanges
  \/ \E r \in Readers : Tick(r) \/ AcSection(r) \/ LevelSection(r) \/ SlowSection(r)

PowerSpec == PowerInit /\ [][PowerNext]_powerVars

-----------------------------------------------------------------------------
(* Properties.                                                             *)

\* The last of the AC events is the state the listener has last seen, also when a scan
\* runs beside its loop, so ac_on and ac_off alternate and the rules do not act twice on
\* one change (the write lock held over the comparison and the hook in tick).
EventTellsAc == acEvent # "none" => acEvent = lastAc
==================================================================================
