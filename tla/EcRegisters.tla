------------------------------- MODULE EcRegisters ------------------------------
(***************************************************************************)
(* The settings that live in the embedded controller's memory: the charge  *)
(* limit, battery care and the Fn lock, written by the helper through the  *)
(* EC service, the driver or the IoT pipe and copied to the registry       *)
(* (hw/charging.rs, hw/fn_key.rs), and the guarded raw accesses of         *)
(* hw/ecram.rs and commands/hardware.rs.                                   *)
(***************************************************************************)
EXTENDS Integers

CONSTANTS
  EcLevels,   \* values of a setting; 0 is what the controller starts with
  RawOn,      \* MICONTROL_ENABLE_RAW_ECRAM_WRITE is set in the app's environment
  AppAdmin,   \* the app runs elevated
  MaxEcCalls  \* bound on commands

ASSUME EcRegistersAssumption ==
  /\ 0 \in EcLevels /\ EcLevels \subseteq Nat /\ MaxEcCalls \in Nat
  /\ {RawOn, AppAdmin} \subseteq BOOLEAN

KeptSetting == {"limit", "care", "fnlock"}          \* settings, each a byte of the ERAM
Cells == KeptSetting \cup {"plain", "outside"}      \* another byte of it, a byte out of it
Unsaved == -1
NoReading == -2

VARIABLES
  cell,      \* the controller's memory
  savedCare,     \* what the registry keeps of the settings
  broker,    \* the EC service's pipe is there
  driver,    \* the driver is there; only an elevated process can open it
  listed,    \* SAFE_WRITE_OFFSETS, once read: the config file's or the built-in list
  careSetting,   \* the one command at work, and where it is
  setAnswer, \* what the last command said
  shown,     \* what the last reading showed
  ecCalls

ecWorld == <<broker, driver>>
registerVars == <<cell, savedCare, ecWorld, listed, careSetting, setAnswer, shown, ecCalls>>

NoSetting == [at |-> "idle", what |-> "limit", level |-> 0, who |-> "app"]
BuiltIn == KeptSetting
Configs == {BuiltIn, {"limit"}, BuiltIn \cup {"plain"}}
Unread == {"unread"}

RegistersTypeOK ==
  /\ cell \in [Cells -> EcLevels] /\ savedCare \in [KeptSetting -> EcLevels \cup {Unsaved}]
  /\ {broker, driver} \subseteq BOOLEAN
  /\ listed \in Configs \cup {Unread}
  /\ careSetting \in [at : {"idle", "ask", "direct", "save", "saveLax"}, what : Cells,
                  level : EcLevels, who : {"app", "helper"}]
  /\ setAnswer \in {"none", "ok", "error"}
  /\ shown \in EcLevels \cup {Unsaved, NoReading} /\ ecCalls \in 0..MaxEcCalls

RegistersInit ==
  /\ cell = [c \in Cells |-> 0] /\ savedCare = [s \in KeptSetting |-> Unsaved]
  /\ broker = FALSE /\ driver = TRUE /\ listed = Unread
  /\ careSetting = NoSetting /\ setAnswer = "none" /\ shown = Unsaved /\ ecCalls = 0

Elevated == careSetting.who = "helper" \/ AppAdmin
SettingAt(at) == careSetting.at = at
Goes(at) == careSetting' = [careSetting EXCEPT !.at = at]
Answers(a) == setAnswer' = a /\ careSetting' = NoSetting
WritesCell == cell' = [cell EXCEPT ![careSetting.what] = careSetting.level]
Quiet == <<ecWorld, shown, ecCalls>>

\* The helper sets the settings, one at a time; the app writes raw bytes itself. Only the
\* six limits get this far.
Asked(what, level) ==
  /\ SettingAt("idle") /\ ecCalls < MaxEcCalls /\ ecCalls' = ecCalls + 1
  /\ setAnswer' = "none"
  /\ careSetting' = [at |-> IF what \in {"limit", "care"} THEN "ask" ELSE "direct", what |-> what,
                 level |-> level, who |-> IF what \in KeptSetting THEN "helper" ELSE "app"]
  /\ UNCHANGED <<cell, savedCare, ecWorld, listed, shown>>

\* get_safe_write_offsets: the first use of the process decides.
ListReads == listed' \in IF listed = Unread THEN Configs ELSE {listed}

\* The EC service's pipe carries the setting out, says no, or is lost after it did; without
\* the pipe the limit is sent to the IoT service, which says nothing.
AskBroker ==
  /\ SettingAt("ask") /\ broker
  /\ \/ WritesCell /\ Goes("saveLax")
     \/ (WritesCell \/ UNCHANGED cell) /\ Goes(IF careSetting.what = "care" THEN "direct" ELSE "save")
  /\ UNCHANGED <<savedCare, listed, setAnswer, Quiet>>
AskIot ==
  /\ SettingAt("ask") /\ ~broker
  /\ IF careSetting.what = "care"
     THEN Goes("direct") /\ UNCHANGED cell
     ELSE (WritesCell \/ UNCHANGED cell) /\ Goes("save")
  /\ UNCHANGED <<savedCare, listed, setAnswer, Quiet>>

\* validate_write and the IOCTL.
ValidWrite(what, list) == what \in list \/ (RawOn /\ what # "outside")
DirectWrite ==
  /\ SettingAt("direct") /\ ListReads
  /\ LET written == ValidWrite(careSetting.what, listed') /\ driver /\ Elevated IN
     /\ IF written THEN WritesCell ELSE UNCHANGED cell
     /\ IF careSetting.what \in KeptSetting
        THEN Goes("save") /\ UNCHANGED setAnswer
        ELSE Answers(IF written THEN "ok" ELSE "error")
  /\ UNCHANGED <<savedCare, Quiet>>

\* The registry: the machine's for the helper's settings, the user's for the Fn lock. A key
\* that cannot be opened is let pass; a value that cannot be written is an error, unless
\* the setting went through.
Save ==
  /\ SettingAt("save") \/ SettingAt("saveLax")
  /\ \/ savedCare' = [savedCare EXCEPT ![careSetting.what] = careSetting.level] /\ Answers("ok")
     \/ UNCHANGED savedCare /\ Answers(IF SettingAt("save") THEN "error" ELSE "ok")
  /\ UNCHANGED <<cell, listed, Quiet>>

\* get_charging_threshold asks the pipe, get_battery_care and get_function_key the driver;
\* then the registry, then the default.
Remembered(what) == IF savedCare[what] = Unsaved THEN 0 ELSE savedCare[what]
Shows(value) ==
  /\ shown' = value
  /\ UNCHANGED <<cell, savedCare, ecWorld, listed, careSetting, setAnswer, ecCalls>>
ReadSetting(what) ==
  \/ (IF what = "limit" THEN broker ELSE driver) /\ Shows(cell[what])
  \/ Shows(Remembered(what))
\* read_named_region: the driver, the pipe, then zeros if it is the ERAM.
ReadRegion(what) ==
  \/ (driver \/ broker) /\ Shows(cell[what])
  \/ Shows(IF what = "outside" THEN NoReading ELSE 0)
\* read_eram_map: the same, with a map of zeros in the end.
ReadMap(what) == what # "outside" /\ (((driver \/ broker) /\ Shows(cell[what])) \/ Shows(0))
\* read_ecram_raw: the driver or nothing.
ReadRaw(what) == (driver /\ Shows(cell[what])) \/ Shows(NoReading)

\* The EC service and the driver come and go.
WorldMoves ==
  /\ \/ broker' = ~broker /\ UNCHANGED driver
     \/ driver' = ~driver /\ UNCHANGED broker
  /\ UNCHANGED <<cell, savedCare, listed, careSetting, setAnswer, shown, ecCalls>>

RegistersNext ==
  \/ \E what \in Cells, level \in EcLevels : Asked(what, level)
  \/ AskBroker \/ AskIot \/ DirectWrite \/ Save \/ WorldMoves
  \/ \E what \in Cells : ReadRegion(what) \/ ReadMap(what) \/ ReadRaw(what)
  \/ \E what \in KeptSetting : ReadSetting(what)

RegistersSpec == RegistersInit /\ [][RegistersNext]_registerVars
==================================================================================
