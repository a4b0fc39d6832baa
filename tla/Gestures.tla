-------------------------------- MODULE Gestures --------------------------------
(***************************************************************************)
(* The gestures of the touchpad (hw/touchpad.rs), recognised by the raw    *)
(* input thread, one action per report: a slide along the edge, five       *)
(* fingers held; and the switches, which any thread may turn.              *)
(***************************************************************************)
EXTENDS Integers

CONSTANTS MaxHeight, JumpThreshold  \* y and the largest move, in units of the deadband

ASSUME GesturesAssumption == MaxHeight \in Nat /\ JumpThreshold \in Nat

Zones == {"edge", "near", "far"}    \* the first eighth, up to a third, the rest of the pad
Heights == 0..MaxHeight
ActivationDy == 1
YStep == 2
GraceFrames == 5

VARIABLES
  padOn,         \* EDGE_SLIDE_ENABLED and GESTURE_SCREENSHOT_ENABLED
  edge,          \* GestureState.edge
  contact,       \* edge_contact_active, its start side, its lost frames
  five,          \* five_start and screenshot_cooldown
  touch,         \* history: where the finger came down, frames since it was last seen
  slid           \* history: the last report made a step

gestureVars == <<padOn, edge, contact, five, touch, slid>>

NoEdge == [on |-> FALSE, startY |-> 0, lastY |-> 0, accum |-> 0, captured |-> FALSE, lost |-> 0]
NoContact == [active |-> FALSE, atEdge |-> FALSE, lost |-> 0]
NoTouch == [began |-> "none", lost |-> 0]

GesturesTypeOK ==
  /\ padOn \in [slide : BOOLEAN, shot : BOOLEAN]
  /\ edge \in [on : BOOLEAN, startY : Heights, lastY : Heights, accum : -YStep..YStep,
               captured : BOOLEAN, lost : 0..GraceFrames]
  /\ contact \in [active : BOOLEAN, atEdge : BOOLEAN, lost : 0..GraceFrames]
  /\ five \in [since : {"none", "now", "held"}, cooling : BOOLEAN]
  /\ touch \in [began : {"none", "edge", "centre"}, lost : 0..GraceFrames]
  /\ slid \in BOOLEAN

GesturesInit ==
  /\ padOn = [slide |-> TRUE, shot |-> TRUE] /\ edge = NoEdge /\ contact = NoContact
  /\ five = [since |-> "none", cooling |-> FALSE] /\ touch = NoTouch /\ slid = FALSE

Distance(a, b) == IF a < b THEN b - a ELSE a - b
Decays == {0, edge.accum}   \* a quarter is lost at every report, a remainder of one at once
SlidOff == contact' = NoContact /\ edge' = NoEdge

\* A frame without exactly one finger down; after five of them the contact is over.
Lifted == IF contact.lost < GraceFrames THEN [contact EXCEPT !.lost = @ + 1] ELSE NoContact
NoFinger ==
  /\ contact' = IF contact.active THEN Lifted ELSE contact
  /\ \E decayed \in Decays :
       edge' = IF ~edge.on THEN edge
               ELSE IF edge.lost < GraceFrames THEN [edge EXCEPT !.lost = @ + 1, !.accum = decayed]
               ELSE NoEdge
  /\ touch' = IF touch.lost < GraceFrames /\ touch.began # "none"
              THEN [touch EXCEPT !.lost = @ + 1] ELSE NoTouch
  /\ slid' = FALSE

\* handle_edge_slide for one finger: armed at the edge, captured by a vertical move, then
\* a step for each YStep that was collected; the deadband, jumps and gaps collect nothing.
FingerAt(zone, y) ==
  LET kept == IF contact.active THEN [contact EXCEPT !.lost = 0]
              ELSE [active |-> TRUE, atEdge |-> zone = "edge", lost |-> 0]
      moved == IF edge.lost > 0 \/ ~edge.captured \/ Distance(edge.lastY, y) > JumpThreshold
               THEN 0 ELSE edge.lastY - y
      Sum(decayed) == decayed + moved
  IN /\ contact' = kept
     /\ touch' = IF touch.began # "none" THEN [touch EXCEPT !.lost = 0]
                 ELSE [began |-> IF zone = "edge" THEN "edge" ELSE "centre", lost |-> 0]
     /\ \/ /\ ~edge.on /\ slid' = FALSE
           /\ edge' = IF kept.atEdge THEN [NoEdge EXCEPT !.on = TRUE, !.startY = y, !.lastY = y]
                      ELSE edge
        \/ edge.on /\ zone = "far" /\ edge' = NoEdge /\ slid' = FALSE
        \/ /\ edge.on /\ zone # "far" /\ (edge.lost > 0 \/ ~edge.captured) /\ slid' = FALSE
           /\ \E decayed \in Decays :
                edge' = [edge EXCEPT !.lost = 0, !.lastY = y, !.accum = decayed,
                         !.captured = @ \/ (/\ edge.lost = 0
                                            /\ Distance(edge.startY, y) >= ActivationDy)]
        \/ /\ edge.on /\ zone # "far" /\ edge.lost = 0 /\ edge.captured
           /\ \E decayed \in Decays :
                LET total == Sum(decayed) IN
                /\ slid' = (total >= YStep \/ total <= -YStep)
                /\ edge' = [edge EXCEPT !.lastY = y,
                              !.accum = IF Distance(edge.lastY, y) > JumpThreshold THEN 0
                                        ELSE IF total >= 0 THEN total % YStep
                                        ELSE -((-total) % YStep)]

\* handle_five_finger_gesture: five fingers for 300 ms, then three seconds of rest.
FiveFingers(n) ==
  five' = IF ~padOn.shot \/ five.cooling THEN five
          ELSE IF n < 5 THEN [five EXCEPT !.since = "none"]
          ELSE IF five.since = "held" THEN [since |-> "none", cooling |-> TRUE]
          ELSE IF five.since = "none" THEN [five EXCEPT !.since = "now"] ELSE five

PadReport(n, zone, y) ==
  /\ FiveFingers(n)
  /\ IF ~padOn.slide THEN SlidOff /\ UNCHANGED slid /\ touch' = NoTouch
     ELSE IF n = 1 THEN FingerAt(zone, y) ELSE NoFinger
  /\ UNCHANGED padOn

\* The switches: the raw input thread finds them changed at its next report.
SwitchGesture ==
  /\ padOn' \in [slide : BOOLEAN, shot : BOOLEAN] /\ slid' = FALSE
  /\ UNCHANGED <<edge, contact, five, touch>>
TimePasses ==
  /\ five' = [since |-> IF five.since = "now" THEN "held" ELSE five.since, cooling |-> FALSE]
  /\ five' # five
  /\ UNCHANGED <<padOn, edge, contact, touch, slid>>

GesturesNext ==
  \/ \E n \in {0, 1, 5}, zone \in Zones, y \in Heights : PadReport(n, zone, y)
  \/ SwitchGesture \/ TimePasses

GesturesSpec == GesturesInit /\ [][GesturesNext]_gestureVars

-----------------------------------------------------------------------------
(* Properties.                                                             *)

\* Volume and brightness step only under a finger that came down at the edge, whatever
\* fingers came and went before (edge_contact_start_side).
SlidesBeginAtEdge == slid => touch.began = "edge"
=================================================================================
