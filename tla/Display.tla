--------------------------------- MODULE Display ---------------------------------
(***************************************************************************)
(* The screen (hw/display.rs): the adaptive-brightness loop of the app,    *)
(* the user's own changes and the grace they are given, kept in a file     *)
(* over a crash; eye protection and the calibration wizard                 *)
(* (hw/eye_protection.rs, hw/color_calibration.rs), which share the panel. *)
(***************************************************************************)
EXTENDS Integers

CONSTANTS MaxDisplayMoves,  \* bound on what the user and the room do, and on failed reads
          Learned           \* the levels the learned curve may give

ASSUME DisplayAssumption == MaxDisplayMoves \in Nat /\ Learned \subseteq 0..2

Levels == 0..2              \* brightness; one level is more than the loop's 2 points
NoLevel == -1
LowestSet == 1              \* set_brightness clamps to 10 %, a configuration may ask for 5
Grace == 2                  \* MANUAL_OVERRIDE_GRACE_MS; an age of Grace is over, or never was
StuckSensorResetAfter == 5

VARIABLES
  screen,        \* the panel's brightness
  light,         \* the level the curve gives for the room's light
  sensor,        \* ok, or stuck at an impossible value
  sensorAsked,   \* SENSOR_RESET_REQUESTED
  autoOn,        \* AiAdaptiveBrightness in the registry
  loopAt, loopActual, loopValue, lastSet, smoothed, badReads,  \* adaptive_brightness_loop
  manual,        \* AUTO_LAST_MANUAL_MS as its age, AUTO_OFFSET, AUTO_OFFSET_ACTIVE
  lastTarget,    \* AUTO_LAST_TARGET
  saved,         \* brightness_override.json
  slider,        \* a set_brightness command between its two steps
  lateSet,       \* a write the loop gave up waiting for
  appRuns,
  sliderAge,     \* history: how long ago the slider was used with automation on
  eye, calibrating, wizards,  \* eye protection, CALIBRATION_IN_PROGRESS, the watchers
  displayMoves

loopVars == <<loopAt, loopActual, loopValue, lastSet, smoothed, badReads>>
eyeVars == <<eye, calibrating, wizards>>
displayVars == <<screen, light, sensor, sensorAsked, autoOn, loopVars, manual, lastTarget,
                 saved, slider, lateSet, appRuns, sliderAge, eyeVars, displayMoves>>

Overrides == [age : 0..Grace, offset : -2..2, active : BOOLEAN]
NoOverride == [age |-> Grace, offset |-> 0, active |-> FALSE]
Clamp(l, low) == IF l < low THEN low ELSE IF l > 2 THEN 2 ELSE l
Older(age) == IF age < Grace THEN age + 1 ELSE Grace

DisplayTypeOK ==
  /\ screen \in Levels /\ light \in Levels /\ sensor \in {"ok", "stuck"}
  /\ sensorAsked \in BOOLEAN /\ autoOn \in BOOLEAN
  /\ loopAt \in {"start", "sleep", "judge", "lux", "set"}
  /\ {loopActual, lastSet, smoothed, slider, lateSet} \subseteq Levels \cup {NoLevel}
  /\ loopValue \in Levels /\ badReads \in 0..(StuckSensorResetAfter - 1)
  /\ manual \in Overrides /\ saved \in Overrides /\ lastTarget \in Levels
  /\ appRuns \in BOOLEAN /\ sliderAge \in 0..Grace
  /\ eye \in [on : BOOLEAN, level : {"default", "own"}] /\ calibrating \in BOOLEAN
  /\ wizards \in {<<>>} \cup [1..1 -> BOOLEAN] \cup [1..2 -> BOOLEAN]
  /\ displayMoves \in 0..MaxDisplayMoves

\* What a new process starts with.
FreshLoop ==
  /\ loopAt' = "start" /\ loopActual' = NoLevel /\ loopValue' = 0
  /\ lastSet' = NoLevel /\ smoothed' = NoLevel /\ badReads' = 0

DisplayInit ==
  /\ screen = 2 /\ light = 2 /\ sensor = "ok" /\ sensorAsked = FALSE /\ autoOn = TRUE
  /\ loopAt = "start" /\ loopActual = NoLevel /\ loopValue = 0
  /\ lastSet = NoLevel /\ smoothed = NoLevel /\ badReads = 0
  /\ manual = NoOverride /\ lastTarget = 2 /\ saved = NoOverride /\ slider = NoLevel
  /\ lateSet = NoLevel /\ appRuns = TRUE /\ sliderAge = Grace
  /\ eye = [on |-> TRUE, level |-> "own"] /\ calibrating = FALSE /\ wizards = <<>>
  /\ displayMoves = 0

Move == displayMoves < MaxDisplayMoves /\ displayMoves' = displayMoves + 1

-----------------------------------------------------------------------------
(* The user, the room and the clock.                                       *)

\* Fn keys, Windows' slider, the hotkeys and the touchpad's edge write the panel alone.
ChangeOutside(l) ==
  /\ Move /\ screen' = l
  /\ UNCHANGED <<light, sensor, sensorAsked, autoOn, loopVars, manual, lastTarget, saved,
                 slider, lateSet, appRuns, sliderAge, eyeVars>>

RoomChanges(l) ==
  /\ Move /\ l > 0 /\ light' = l /\ sensor' \in {"ok", "stuck"}
  /\ UNCHANGED <<screen, sensorAsked, autoOn, loopVars, manual, lastTarget, saved, slider,
                 lateSet, appRuns, sliderAge, eyeVars>>

\* The set_brightness command: record_user_brightness_override in the app, which keeps it
\* in the file, then the write in the elevated helper.
RecordOverride(l) ==
  manual' = [age |-> 0, offset |-> l - lastTarget, active |-> TRUE]
\* Mutant: the override is not kept in the file.
MoveSliderForgotten(l) ==
  /\ appRuns /\ slider = NoLevel /\ Move /\ slider' = l
  /\ IF autoOn THEN RecordOverride(l) /\ sliderAge' = 0 ELSE UNCHANGED <<manual, sliderAge>>
  /\ UNCHANGED <<screen, light, sensor, sensorAsked, autoOn, loopVars, lastTarget, saved,
                 lateSet, appRuns, eyeVars>>
MoveSlider(l) ==
  /\ appRuns /\ slider = NoLevel /\ Move /\ slider' = l
  /\ IF autoOn THEN RecordOverride(l) /\ saved' = manual' /\ sliderAge' = 0
               ELSE UNCHANGED <<manual, saved, sliderAge>>
  /\ UNCHANGED <<screen, light, sensor, sensorAsked, autoOn, loopVars, lastTarget, lateSet,
                 appRuns, eyeVars>>
SliderWrites ==
  /\ slider # NoLevel /\ slider' = NoLevel
  /\ screen' \in {screen, Clamp(slider, LowestSet)}
  /\ UNCHANGED <<light, sensor, sensorAsked, autoOn, loopVars, manual, lastTarget, saved,
                 lateSet, appRuns, sliderAge, eyeVars, displayMoves>>

\* set_ai_brightness clears the override first.
ToggleAuto ==
  /\ appRuns /\ Move /\ autoOn' = ~autoOn
  /\ manual' = NoOverride /\ saved' = NoOverride /\ sliderAge' = Grace
  /\ UNCHANGED <<screen, light, sensor, sensorAsked, loopVars, lastTarget, slider, lateSet,
                 appRuns, eyeVars>>

MinutePasses ==
  /\ manual' = [manual EXCEPT !.age = Older(@)] /\ saved' = [saved EXCEPT !.age = Older(@)]
  /\ sliderAge' = Older(sliderAge)
  /\ UNCHANGED <<screen, light, sensor, sensorAsked, autoOn, loopVars, lastTarget, slider,
                 lateSet, appRuns, eyeVars, displayMoves>>

\* The app dies; what it waited for is gone, a write already in the elevated helper is not.
AppDies ==
  /\ appRuns /\ Move /\ appRuns' = FALSE /\ FreshLoop
  /\ manual' = NoOverride /\ lastTarget' = 2 /\ lateSet' = NoLevel /\ sensorAsked' = FALSE
  /\ calibrating' = FALSE /\ wizards' = <<>>
  /\ UNCHANGED <<screen, light, sensor, autoOn, saved, slider, sliderAge, eye>>

-----------------------------------------------------------------------------
(* adaptive_brightness_loop, one action per stretch between two awaits.    *)

LoopGoes(from, to) == appRuns /\ loopAt = from /\ loopAt' = to
OutsideLoop == <<light, autoOn, slider, appRuns, eyeVars, displayMoves>>

\* restore_override_state: an override that is over restores nothing.
LoopStarts ==
  /\ loopAt = "start"
  /\ appRuns' = TRUE /\ loopAt' = "sleep"
  /\ manual' = IF saved.age < Grace THEN saved ELSE manual
  /\ UNCHANGED <<screen, light, sensor, sensorAsked, autoOn, loopActual, loopValue, lastSet,
                 smoothed, badReads, lastTarget, saved, slider, lateSet, sliderAge, eyeVars,
                 displayMoves>>

\* Every 2 s: nothing during a calibration or with the display off; the configuration
\* and the panel's level are read together; switched off, the loop forgets.
LoopReads ==
  /\ ~calibrating
  /\ \/ /\ autoOn /\ LoopGoes("sleep", "judge")
        /\ \/ loopActual' = screen /\ UNCHANGED displayMoves
           \/ Move /\ loopActual' = NoLevel
        /\ UNCHANGED <<lastSet, smoothed, badReads>>
     \/ /\ ~autoOn /\ LoopGoes("sleep", "sleep") /\ loopActual' = NoLevel
        /\ lastSet' = NoLevel /\ smoothed' = NoLevel /\ badReads' = 0
        /\ UNCHANGED displayMoves
  /\ UNCHANGED <<screen, sensor, sensorAsked, loopValue, manual, lastTarget, saved, lateSet,
                 sliderAge, light, autoOn, slider, appRuns, eyeVars>>

\* A level that is not the one last set is the user's; lastSet is left as it was.
OutsideChange == NoLevel \notin {lastSet, loopActual} /\ lastSet # loopActual
LoopJudges ==
  /\ IF OutsideChange
     THEN RecordOverride(loopActual) /\ saved' = manual' /\ smoothed' = loopActual /\ UNCHANGED lastSet
     ELSE /\ UNCHANGED <<manual, saved>>
          /\ IF lastSet = NoLevel /\ loopActual # NoLevel
             THEN lastSet' = loopActual /\ smoothed' = loopActual ELSE UNCHANGED <<lastSet, smoothed>>
  /\ LoopGoes("judge", IF manual'.age < Grace THEN "sleep" ELSE "lux")
  /\ UNCHANGED <<screen, sensor, sensorAsked, loopActual, loopValue, badReads, lastTarget,
                 lateSet, sliderAge, OutsideLoop>>

\* get_ambient_lux: a requested reset opens the sensor anew, which may not help; five bad
\* readings in a row ask for one.
BadReading ==
  /\ sensor = "stuck" /\ sensor' \in (IF sensorAsked THEN {"ok", "stuck"} ELSE {"stuck"})
  /\ LoopGoes("lux", "sleep")
  /\ badReads' = (badReads + 1) % StuckSensorResetAfter
  /\ sensorAsked' = (badReads' = 0)
  /\ UNCHANGED <<screen, loopActual, loopValue, lastSet, smoothed, manual, lastTarget, saved,
                 lateSet, sliderAge, OutsideLoop>>

\* smart_predict_brightness, where the user has taught the curve enough.
SmartLevels == Learned \cap Levels

\* The curve or the learned level, then the override's offset, then a step towards it.
LoopAims ==
  /\ sensor = "ok"
  /\ \E raw \in {light} \cup SmartLevels :
       LET target == Clamp(raw + (IF manual.active THEN manual.offset ELSE 0), 0)
           current == IF smoothed = NoLevel THEN target ELSE smoothed
           next == IF target > current THEN current + 1
                   ELSE IF target < current THEN current - 1 ELSE current
       IN /\ lastTarget' = raw /\ smoothed' = next /\ loopValue' = next
          /\ LoopGoes("lux", IF next = lastSet THEN "sleep" ELSE "set")
  /\ badReads' = 0
  /\ UNCHANGED <<screen, sensor, sensorAsked, loopActual, lastSet, manual, saved, lateSet,
                 sliderAge, OutsideLoop>>

\* set_brightness on the pool: done, failed, or still running when the wait is over.
LoopSets ==
  /\ LoopGoes("set", "sleep")
  /\ \/ screen' = Clamp(loopValue, LowestSet) /\ lastSet' = loopValue /\ UNCHANGED lateSet
     \/ lateSet' \in {lateSet, Clamp(loopValue, LowestSet)} /\ UNCHANGED <<screen, lastSet>>
  /\ UNCHANGED <<sensor, sensorAsked, loopActual, loopValue, smoothed, badReads, manual,
                 lastTarget, saved, sliderAge, OutsideLoop>>
LateSetLands ==
  /\ lateSet # NoLevel /\ screen' = lateSet /\ lateSet' = NoLevel
  /\ UNCHANGED <<light, sensor, sensorAsked, autoOn, loopVars, manual, lastTarget, saved,
                 slider, appRuns, sliderAge, eyeVars, displayMoves>>

LoopStep == LoopStarts \/ LoopReads \/ LoopJudges \/ BadReading \/ LoopAims \/ LoopSets

-----------------------------------------------------------------------------
(* Eye protection and the calibration wizard.                              *)

PanelOnly == <<screen, light, sensor, sensorAsked, autoOn, loopVars, manual, lastTarget,
               saved, slider, lateSet, appRuns, sliderAge>>

SetEye(on, level) ==
  /\ Move /\ eye' = [on |-> on, level |-> level]
  /\ UNCHANGED <<calibrating, wizards, PanelOnly>>

\* The ramp is released for the wizard and the watcher thread remembers whether it was on.
LaunchWizard ==
  /\ appRuns /\ Move /\ wizards \in {<<>>} \cup [1..1 -> BOOLEAN]
  /\ wizards' = IF wizards = <<>> THEN [w \in 1..1 |-> eye.on]
                ELSE [w \in 1..2 |-> IF w = 1 THEN wizards[1] ELSE eye.on]
  /\ calibrating' = TRUE
  /\ eye' = IF eye.on THEN [on |-> FALSE, level |-> "default"] ELSE eye
  /\ UNCHANGED PanelOnly

\* restore_after_calibration: the flag falls and protection is back at its default.
WizardCloses(w) ==
  /\ w \in DOMAIN wizards /\ calibrating' = FALSE
  /\ wizards' = IF wizards \in [1..2 -> BOOLEAN] THEN [v \in 1..1 |-> wizards[3 - w]] ELSE <<>>
  /\ eye' = IF wizards[w] THEN [on |-> TRUE, level |-> "default"] ELSE eye
  /\ UNCHANGED <<displayMoves, PanelOnly>>

DisplayNext ==
  \/ \E l \in Levels : ChangeOutside(l) \/ RoomChanges(l) \/ MoveSlider(l)
  \/ SliderWrites \/ ToggleAuto \/ MinutePasses \/ AppDies \/ LoopStep \/ LateSetLands
  \/ \E on \in BOOLEAN, level \in {"default", "own"} : SetEye(on, level)
  \/ LaunchWizard \/ \E w \in 1..2 : WizardCloses(w)

DisplaySpec == DisplayInit /\ [][DisplayNext]_displayVars

-----------------------------------------------------------------------------
(* Properties.                                                             *)

\* Within the grace after the slider was used the loop does not go on to write the panel,
\* also when the app died and came back in between (S32-005; restore_override_state).
HandsOff ==
  [][loopAt = "judge" /\ loopAt' = "lux" => sliderAge = Grace]_displayVars
=================================================================================
