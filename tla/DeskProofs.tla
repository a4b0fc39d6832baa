------------------------------- MODULE DeskProofs ------------------------------
(***************************************************************************)
(* What is proved of the parts the user meets: the receiver, the touchpad  *)
(* and its gestures, the popup, the brightness, the injected key and the   *)
(* sign-in with the face.                                                  *)
(***************************************************************************)
EXTENDS LocalSend, PadSettings, Gestures, AppShell, Display, Hotkeys, FaceUnlock,
        NumberTheorems, TLAPS

-----------------------------------------------------------------------------
(* The receiver.                                                           *)

\* A start that has bound the port keeps it until the loop does.
Bound == \A c \in Callers : starter[c] = "bound" => listening

LocalInv == LocalTypeOK /\ RunningIsListening /\ Bound

\* The steps of the receiver itself; the devices and the sender leave it alone.
LEMMA LocalStep ==
  ASSUME LocalInv, LocalNext PROVE LocalInv'
<1> USE LocalSendAssumption
        DEF LocalInv, LocalTypeOK, RunningIsListening, Bound, intakeVars, Receiving, LocalCall,
            HeadEnd, HeaderLen, Bodies, Trailers
<1>1. ASSUME NEW c \in Callers, StartReceiver(c) PROVE LocalInv'
  BY <1>1 DEF StartReceiver
<1>2. ASSUME NEW c \in Callers, BindPort(c) PROVE LocalInv'
  BY <1>2 DEF BindPort
<1>3. ASSUME NEW c \in Callers, SpawnLoop(c) PROVE LocalInv'
  BY <1>3 DEF SpawnLoop
<1>4. CASE StopReceiver \/ LoopTicks
  <2>1. CASE StopReceiver
    <3>1. LocalTypeOK'
      <4>1. localCalls' \in 0..MaxLocalCalls
        BY <2>1 DEF StopReceiver
      <4>2. receiverRunning' \in BOOLEAN /\ listening' \in BOOLEAN
        BY <2>1, Zenon DEF StopReceiver
      <4> QED
        BY <2>1, <4>1, <4>2 DEF StopReceiver
    <3>2. RunningIsListening' /\ Bound'
      BY <2>1 DEF StopReceiver
    <3> QED
      BY <3>1, <3>2
  <2>2. CASE LoopTicks
    BY <2>2 DEF LoopTicks
  <2> QED
    BY <1>4, <2>1, <2>2
<1>5. CASE SendFiles \/ UploadFile
  BY <1>5 DEF SendFiles, UploadFile
<1>6. ASSUME NEW s \in Senders, NEW length \in Bodies, NEW trailer \in Trailers,
             Connects(s, length, trailer)
      PROVE  LocalInv'
  BY <1>6 DEF Connects
<1>7. ASSUME NEW s \in Senders, BytesArrive(s) PROVE LocalInv'
  <2>1. received[s] \in 0..HeadEnd + 5 /\ total[s] \in 0..HeadEnd + 5
    OBVIOUS
  <2>2. received[s] + 1 \in 0..HeadEnd + 5
    BY <1>7, <2>1 DEF BytesArrive
  <2> QED
    BY <1>7, <2>2 DEF BytesArrive
<1>8. ASSUME NEW s \in Senders, HeadRead(s) \/ Respond(s) \/ DeviceLeaves(s) PROVE LocalInv'
  BY <1>8 DEF HeadRead, Respond, DeviceLeaves
<1> QED
  BY <1>1, <1>2, <1>3, <1>4, <1>5, <1>6, <1>7, <1>8 DEF LocalNext

\* A receiver that says it runs is listening (start_receiver binds before it raises the
\* flag; the accept loop drops the port only once the flag is down and no start holds it).
THEOREM ReceiverIsListening == LocalSpec => [](LocalTypeOK /\ RunningIsListening)
<1>1. LocalInit => LocalInv
  <2>1. 0 \in 0..HeadEnd + 5 /\ 0 \in Bodies /\ 0 \in 0..MaxLocalCalls
    BY LocalSendAssumption DEF HeadEnd, Bodies
  <2>2. ASSUME LocalInit PROVE LocalTypeOK
    <3>1. received \in [Senders -> 0..HeadEnd + 5] /\ total \in [Senders -> 0..HeadEnd + 5]
      BY <2>1, <2>2 DEF LocalInit
    <3>2. bodyLength \in [Senders -> Bodies]
      BY <2>1, <2>2 DEF LocalInit
    <3> QED
      BY <2>1, <2>2, <3>1, <3>2 DEF LocalInit, LocalTypeOK
  <2> QED
    BY <2>2 DEF LocalInit, LocalInv, RunningIsListening, Bound
<1>2. LocalInv /\ [LocalNext]_localVars => LocalInv'
  <2>1. CASE LocalInv /\ UNCHANGED localVars
    BY <2>1 DEF LocalInv, LocalTypeOK, RunningIsListening, Bound, localVars, intakeVars
  <2> QED
    BY <2>1, LocalStep
<1>3. LocalInv => LocalTypeOK /\ RunningIsListening
  BY DEF LocalInv
<1> QED
  BY <1>1, <1>2, <1>3, PTL DEF LocalSpec

-----------------------------------------------------------------------------
(* The settings of the touchpad.                                           *)

\* Between the two frames the pad holds what is stored; nobody else stores for a report.
CommitFollowsWrite ==
  \A s \in PadReports :
    ~CommandAt(s, "idle") /\ padCommand[s].frame = "commit" => written[s] = stored[s]

PadInv == PadTypeOK /\ CommitFollowsWrite /\ PadHasSetting

LEMMA PadStep ==
  ASSUME PadInv, NEW s \in PadReports,
         \/ \E v \in PadValues : SetPad(s, v)
         \/ GetHandle(s) \/ SendFrame(s) \/ SendFails(s)
  PROVE  PadInv'
<1> USE DEF PadInv, CommitFollowsWrite, PadHasSetting, CommandAt, CommandGoes, CommandEnds
<1> DEFINE Goes(c) == padCommand' = [padCommand EXCEPT ![s] = c]
<1>1. /\ \A a \in {"get", "send", "reget", "resend"}, f \in {"write", "commit"} :
           Command(a, f, "none") \in PadCommands
      /\ \A r \in {"ok", "error"} : Command("idle", "write", r) \in PadCommands
      /\ \A a, f, r : /\ Command(a, f, r).at = a /\ Command(a, f, r).frame = f
                      /\ Command(a, f, r).result = r
      /\ \A c \in PadCommands : c.frame \in {"write", "commit"}
  BY DEF Command, PadCommands
<1>2. padCommand \in [PadReports -> PadCommands] /\ padCommand[s].frame \in {"write", "commit"}
  BY <1>1 DEF PadTypeOK
<1> HIDE DEF PadInv
<1>3. ASSUME NEW v \in PadValues, SetPad(s, v) PROVE PadInv'
  <2>1. PadTypeOK'
    BY <1>1, <1>2, <1>3, PadAssumption DEF PadInv, PadTypeOK, SetPad, StorePad, PadFault
  <2>2. CommitFollowsWrite' /\ PadHasSetting'
    BY <1>1, <1>2, <1>3 DEF PadInv, PadTypeOK, SetPad, StorePad
  <2> QED
    BY <2>1, <2>2 DEF PadInv
<1>4. CASE GetHandle(s)
  <2>1. PICK c \in PadCommands : /\ Goes(c)
                                 /\ \/ c.at # "idle" /\ c.frame = padCommand[s].frame
                                    \/ c.at = "idle" /\ c.result = "error"
    BY <1>1, <1>2, <1>4 DEF GetHandle
  <2>2. PadTypeOK'
    <3>1. padCommand' \in [PadReports -> PadCommands]
      BY <1>2, <2>1
    <3>2. padSets' \in 0..MaxPadSets
      BY <1>4, PadAssumption DEF PadInv, PadTypeOK, GetHandle, PadFault
    <3>3. hapticsOpen' \in BOOLEAN /\ holders' \subseteq PadReports
      BY <1>4, Zenon DEF PadInv, PadTypeOK, GetHandle
    <3> QED
      BY <1>4, <3>1, <3>2, <3>3 DEF PadInv, PadTypeOK, GetHandle
  <2>3. ~CommandAt(s, "idle") /\ UNCHANGED <<stored, written, committed>>
    BY <1>4 DEF GetHandle
  <2>4. CommitFollowsWrite' /\ PadHasSetting'
    BY <1>2, <2>1, <2>3 DEF PadInv
  <2> QED
    BY <2>2, <2>4 DEF PadInv
<1>5. CASE SendFrame(s)
  <2>1. CASE padCommand[s].frame = "write"
    <3>1. /\ Goes(Command("get", "commit", "none")) /\ written' = [written EXCEPT ![s] = stored[s]]
          /\ UNCHANGED <<stored, committed, padSets>> /\ CloseHandle
      BY <1>5, <2>1 DEF SendFrame, CommitNext
    <3>2. PadTypeOK'
      BY <1>1, <3>1 DEF PadInv, PadTypeOK, CloseHandle
    <3>3. CommitFollowsWrite' /\ PadHasSetting'
      BY <1>1, <1>2, <3>1 DEF PadInv, PadTypeOK
    <3> QED
      BY <3>2, <3>3 DEF PadInv
  <2>2. CASE padCommand[s].frame = "commit"
    <3>1. /\ Goes(Command("idle", "write", "ok")) /\ committed' = [committed EXCEPT ![s] = written[s]]
          /\ UNCHANGED <<stored, written, padSets>> /\ CloseHandle
          /\ ~CommandAt(s, "idle")
      BY <1>5, <2>2 DEF SendFrame, CommitNext
    <3>2. PadTypeOK'
      BY <1>1, <3>1 DEF PadInv, PadTypeOK, CloseHandle
    <3>3. CommitFollowsWrite' /\ PadHasSetting'
      BY <1>1, <1>2, <2>2, <3>1 DEF PadInv, PadTypeOK
    <3> QED
      BY <3>2, <3>3 DEF PadInv
  <2> QED
    BY <1>2, <2>1, <2>2
<1>6. CASE SendFails(s)
  <2>1. PICK c \in PadCommands : /\ Goes(c)
                                 /\ \/ c.at # "idle" /\ c.frame = padCommand[s].frame
                                    \/ c.at = "idle" /\ c.result = "error"
    BY <1>1, <1>2, <1>6 DEF SendFails, SecondRefusal
  <2>2. PadTypeOK'
    <3>1. padCommand' \in [PadReports -> PadCommands]
      BY <1>2, <2>1
    <3>2. padSets' \in 0..MaxPadSets
      BY <1>6, PadAssumption DEF PadInv, PadTypeOK, SendFails, PadFault
    <3> QED
      BY <1>6, <3>1, <3>2 DEF PadInv, PadTypeOK, SendFails, CloseHandle
  <2>3. ~CommandAt(s, "idle") /\ UNCHANGED <<stored, written, committed>>
    BY <1>6 DEF SendFails
  <2>4. CommitFollowsWrite' /\ PadHasSetting'
    BY <1>2, <2>1, <2>3 DEF PadInv
  <2> QED
    BY <2>2, <2>4 DEF PadInv
<1> QED
  BY <1>3, <1>4, <1>5, <1>6

\* However the commands of the other reports close the shared handle under it, a command
\* that answers success left the pad with what the registry holds
\* (send_touchpad_output_report: a second attempt, then an error).
THEOREM PadKeepsSetting == PadSpec => [](PadTypeOK /\ PadHasSetting)
<1>1. PadInit => PadInv
  <2>1. PadInit => PadTypeOK
    <3>1. Command("idle", "write", "none") \in PadCommands
      BY DEF Command, PadCommands
    <3>2. 0 \in 0..MaxPadSets
      BY PadAssumption
    <3> QED
      BY <3>1, <3>2 DEF PadInit, PadTypeOK, PadValues
  <2> QED
    BY <2>1 DEF PadInit, PadInv, CommitFollowsWrite, PadHasSetting, CommandAt, Command
<1>2. PadInv /\ [PadNext]_padVars => PadInv'
  <2>1. CASE PadInv /\ UNCHANGED padVars
    BY <2>1 DEF PadInv, PadTypeOK, CommitFollowsWrite, PadHasSetting, CommandAt, padVars
  <2> QED
    BY <2>1, PadStep DEF PadNext
<1>3. PadInv => PadTypeOK /\ PadHasSetting
  BY DEF PadInv
<1> QED
  BY <1>1, <1>2, <1>3, PTL DEF PadSpec

-----------------------------------------------------------------------------
(* The gestures.                                                           *)

\* The contact is the touch that is going on, and only one of the edge arms a slide.
Sides ==
  /\ contact.active = (touch.began # "none")
  /\ contact.active => contact.lost = touch.lost /\ contact.atEdge = (touch.began = "edge")
  /\ edge.on => contact.active /\ contact.atEdge /\ edge.lost = contact.lost
  /\ slid => padOn.slide /\ touch.began = "edge"

\* The remainder a step leaves is less than a step.
LEMMA Remainder ==
  ASSUME NEW t \in Int
  PROVE  (IF t >= 0 THEN t % YStep ELSE -((-t) % YStep)) \in -YStep..YStep
BY DEF YStep

\* Five fingers have nothing to do with the edge.
LEMMA FiveKept ==
  ASSUME GesturesTypeOK, NEW n, FiveFingers(n)
  PROVE  five' \in [since : {"none", "now", "held"}, cooling : BOOLEAN]
<1> five \in [since : {"none", "now", "held"}, cooling : BOOLEAN]
  BY DEF GesturesTypeOK
<1> QED
  BY DEF FiveFingers

Edges == [on : BOOLEAN, startY : Heights, lastY : Heights, accum : -YStep..YStep,
          captured : BOOLEAN, lost : 0..GraceFrames]
Contacts == [active : BOOLEAN, atEdge : BOOLEAN, lost : 0..GraceFrames]
Touches == [began : {"none", "edge", "centre"}, lost : 0..GraceFrames]

\* What a report writes into the records.
LEMMA EdgeLost ==
  ASSUME NEW e \in Edges, NEW l \in 0..GraceFrames, NEW a \in -YStep..YStep
  PROVE  /\ [e EXCEPT !.lost = l, !.accum = a] \in Edges
         /\ [e EXCEPT !.lost = l, !.accum = a].on = e.on
         /\ [e EXCEPT !.lost = l, !.accum = a].lost = l
BY DEF Edges

LEMMA EdgeArmed ==
  ASSUME NEW e \in Edges, NEW y \in Heights
  PROVE  /\ [e EXCEPT !.on = TRUE, !.startY = y, !.lastY = y] \in Edges
         /\ [e EXCEPT !.on = TRUE, !.startY = y, !.lastY = y].lost = e.lost
BY DEF Edges

LEMMA EdgeMoved ==
  ASSUME NEW e \in Edges, NEW a \in -YStep..YStep, NEW y \in Heights
  PROVE  /\ [e EXCEPT !.lastY = y, !.accum = a] \in Edges
         /\ [e EXCEPT !.lastY = y, !.accum = a].lost = e.lost
BY DEF Edges

LEMMA EdgeFound ==
  ASSUME NEW e \in Edges, NEW a \in -YStep..YStep, NEW y \in Heights, NEW k \in BOOLEAN
  PROVE  /\ [e EXCEPT !.lost = 0, !.lastY = y, !.accum = a, !.captured = k] \in Edges
         /\ [e EXCEPT !.lost = 0, !.lastY = y, !.accum = a, !.captured = k].lost = 0
<1>1. 0 \in 0..GraceFrames
  BY DEF GraceFrames
<1>2. [e EXCEPT !.lost = 0, !.lastY = y, !.accum = a, !.captured = k] \in Edges
  BY <1>1 DEF Edges
<1>3. [e EXCEPT !.lost = 0, !.lastY = y, !.accum = a, !.captured = k].lost = 0
  BY DEF Edges
<1> QED
  BY <1>2, <1>3

LEMMA ContactUpdates ==
  ASSUME NEW l \in 0..GraceFrames
  PROVE  /\ \A c \in Contacts : /\ [c EXCEPT !.lost = l] \in Contacts
                                /\ [c EXCEPT !.lost = l].lost = l
                                /\ [c EXCEPT !.lost = l].active = c.active
                                /\ [c EXCEPT !.lost = l].atEdge = c.atEdge
         /\ \A t \in Touches : /\ [t EXCEPT !.lost = l] \in Touches
                               /\ [t EXCEPT !.lost = l].lost = l
                               /\ [t EXCEPT !.lost = l].began = t.began
BY DEF Contacts, Touches

LEMMA Nothing ==
  /\ NoEdge \in Edges /\ NoEdge.on = FALSE /\ NoEdge.lost = 0
  /\ NoContact \in Contacts /\ NoContact.active = FALSE
  /\ NoTouch \in Touches /\ NoTouch.began = "none" /\ NoTouch.lost = 0
BY GesturesAssumption
DEF NoEdge, NoContact, NoTouch, Edges, Contacts, Touches, Heights, YStep, GraceFrames

FiveStates == [since : {"none", "now", "held"}, cooling : BOOLEAN]

\* The invariant of the raw input thread.
GesturesInv ==
  /\ padOn \in [slide : BOOLEAN, shot : BOOLEAN] /\ five \in FiveStates /\ slid \in BOOLEAN
  /\ edge \in Edges /\ contact \in Contacts /\ touch \in Touches
  /\ Sides

LEMMA TypesAreGestures ==
  ASSUME GesturesInv PROVE GesturesTypeOK /\ SlidesBeginAtEdge
<1>1. GesturesTypeOK
  BY DEF GesturesInv, GesturesTypeOK, FiveStates, Edges, Contacts, Touches
<1>2. SlidesBeginAtEdge
  BY DEF GesturesInv, SlidesBeginAtEdge, Sides
<1> QED
  BY <1>1, <1>2

LEMMA NoFingerStep ==
  ASSUME GesturesInv, UNCHANGED padOn, NoFinger, five' \in FiveStates
  PROVE  GesturesInv'
<1> USE DEF GesturesInv
<1>1. slid' = FALSE
  BY DEF NoFinger
<1>2. CASE ~contact.active
  <2>1. UNCHANGED <<contact, edge>> /\ touch' = NoTouch
    BY <1>2 DEF NoFinger, Sides
  <2> QED
    BY <1>1, <1>2, <2>1, Nothing DEF Sides
<1>3. CASE contact.active /\ ~(contact.lost < GraceFrames)
  <2>1. contact' = NoContact /\ touch' = NoTouch
    BY <1>3 DEF NoFinger, Sides, Lifted
  <2>2. edge'.on = FALSE /\ edge' \in Edges
    <3>1. CASE edge.on
      BY <1>3, <3>1, Nothing DEF NoFinger, Sides
    <3>2. CASE ~edge.on
      BY <3>2 DEF NoFinger, Edges
    <3> QED
      BY <3>1, <3>2
  <2> QED
    BY <1>1, <2>1, <2>2, Nothing DEF Sides
<1>4. CASE contact.active /\ contact.lost < GraceFrames
  <2> DEFINE l == contact.lost + 1
  <2>1. l \in 0..GraceFrames
    BY <1>4 DEF Contacts, GraceFrames
  <2>2. contact' = [contact EXCEPT !.lost = l] /\ touch' = [touch EXCEPT !.lost = l]
    BY <1>4 DEF NoFinger, Sides, Lifted
  <2>3. \/ ~edge.on /\ edge' = edge
        \/ edge.on /\ \E a \in Decays : edge' = [edge EXCEPT !.lost = l, !.accum = a]
    BY <1>4 DEF NoFinger, Sides
  <2>4. Decays \subseteq -YStep..YStep
    BY DEF Decays, YStep, Edges
  <2> HIDE DEF l
  <2>5. edge' \in Edges /\ edge'.on = edge.on /\ (edge.on => edge'.lost = l)
    <3>1. CASE ~edge.on /\ edge' = edge
      BY <3>1
    <3>2. ASSUME edge.on, NEW a \in Decays, edge' = [edge EXCEPT !.lost = l, !.accum = a]
          PROVE  edge' \in Edges /\ edge'.on = edge.on /\ edge'.lost = l
      BY <2>1, <2>4, <3>2, EdgeLost
    <3> QED
      BY <2>3, <3>1, <3>2
  <2>6. /\ contact' \in Contacts /\ contact'.lost = l /\ contact'.active = contact.active
        /\ contact'.atEdge = contact.atEdge
        /\ touch' \in Touches /\ touch'.lost = l /\ touch'.began = touch.began
    BY <2>1, <2>2, ContactUpdates
  <2> QED
    BY <1>1, <1>4, <2>5, <2>6 DEF Sides
<1> QED
  BY <1>2, <1>3, <1>4

\* FingerAt: only a contact that began at the edge arms, and only an armed one steps.
LEMMA FingerStep ==
  ASSUME GesturesInv, UNCHANGED padOn, padOn.slide = TRUE, five' \in FiveStates,
         NEW zone \in Zones, NEW y \in Heights, FingerAt(zone, y)
  PROVE  GesturesInv'
<1> USE DEF GesturesInv
<1>1. /\ contact' \in Contacts /\ touch' \in Touches
      /\ contact'.active = TRUE /\ contact'.lost = 0 /\ touch'.lost = 0
      /\ touch'.began # "none" /\ contact'.atEdge = (touch'.began = "edge")
      /\ contact.active => contact'.atEdge = contact.atEdge
  <2>1. 0 \in 0..GraceFrames
    BY DEF GraceFrames
  <2>2. CASE contact.active
    <3>1. contact' = [contact EXCEPT !.lost = 0] /\ touch' = [touch EXCEPT !.lost = 0]
      BY <2>2 DEF FingerAt, Sides
    <3> QED
      BY <2>1, <2>2, <3>1, ContactUpdates DEF Sides, Contacts
  <2>3. CASE ~contact.active
    <3>1. /\ contact' = [active |-> TRUE, atEdge |-> zone = "edge", lost |-> 0]
          /\ touch' = [began |-> IF zone = "edge" THEN "edge" ELSE "centre", lost |-> 0]
      BY <2>3 DEF FingerAt, Sides
    <3> QED
      BY <2>1, <2>3, <3>1 DEF Contacts, Touches
  <2> QED
    BY <2>2, <2>3
<1>2. CASE ~edge.on
  <2>1. slid' = FALSE
    BY <1>2 DEF FingerAt
  <2>2. \/ contact'.atEdge /\ edge' = [NoEdge EXCEPT !.on = TRUE, !.startY = y, !.lastY = y]
        \/ edge' = edge
    BY <1>2 DEF FingerAt
  <2>3. edge' \in Edges /\ (edge'.on => contact'.atEdge /\ edge'.lost = 0)
    <3>1. CASE edge' = edge
      BY <1>2, <3>1
    <3>2. CASE contact'.atEdge /\ edge' = [NoEdge EXCEPT !.on = TRUE, !.startY = y, !.lastY = y]
      BY <3>2, EdgeArmed, Nothing
    <3> QED
      BY <2>2, <3>1, <3>2
  <2> QED
    BY <1>1, <2>1, <2>3 DEF Sides
<1>3. CASE edge.on /\ zone = "far"
  BY <1>1, <1>3, Nothing DEF FingerAt, Sides
<1>4. CASE edge.on /\ zone # "far" /\ (edge.lost > 0 \/ ~edge.captured)
  <2> DEFINE k == edge.captured \/ (edge.lost = 0 /\ Distance(edge.startY, y) >= ActivationDy)
  <2>0. ~(edge.lost = 0 /\ edge.captured)
    BY <1>4
  <2>1. PICK a \in Decays :
          edge' = [edge EXCEPT !.lost = 0, !.lastY = y, !.accum = a, !.captured = k]
    BY <1>4, <2>0 DEF FingerAt
  <2>2. a \in -YStep..YStep /\ 0 \in 0..GraceFrames /\ k \in BOOLEAN
    BY DEF Decays, YStep, Edges, GraceFrames
  <2> HIDE DEF k
  <2>3. edge' \in Edges /\ edge'.lost = 0
    BY <2>1, <2>2, EdgeFound
  <2>4. slid' = FALSE
    BY <1>4, <2>0 DEF FingerAt
  <2> QED
    BY <1>1, <1>4, <2>3, <2>4 DEF Sides
<1>5. CASE edge.on /\ zone # "far" /\ ~(edge.lost > 0 \/ ~edge.captured)
  <2> DEFINE moved == IF edge.lost > 0 \/ ~edge.captured \/ Distance(edge.lastY, y) > JumpThreshold
                      THEN 0 ELSE edge.lastY - y
             Rest(t) == IF Distance(edge.lastY, y) > JumpThreshold THEN 0
                        ELSE IF t >= 0 THEN t % YStep ELSE -((-t) % YStep)
  <2>0. edge.lost = 0
    BY <1>5 DEF Edges, GraceFrames
  <2>1. moved \in Int /\ Decays \subseteq Int
    <3>1. edge.lastY \in Int /\ y \in Int /\ edge.accum \in Int
      BY GesturesAssumption DEF Edges, Heights, YStep
    <3> QED
      BY <3>1 DEF Decays
  <2>2. PICK d \in Decays : /\ slid' = (d + moved >= YStep \/ d + moved <= -YStep)
                            /\ edge' = [edge EXCEPT !.lastY = y, !.accum = Rest(d + moved)]
    BY <1>5, <2>0 DEF FingerAt
  <2>3. d + moved \in Int
    BY <2>1
  <2>4. Rest(d + moved) \in -YStep..YStep
    BY <2>3, Remainder DEF YStep
  <2> HIDE DEF moved, Rest
  <2>5. edge' \in Edges /\ edge'.lost = 0
    BY <2>0, <2>2, <2>4, EdgeMoved
  <2>6. slid' \in BOOLEAN
    BY <2>2
  <2> QED
    BY <1>1, <1>5, <2>5, <2>6 DEF Sides
<1> QED
  BY <1>2, <1>3, <1>4, <1>5

LEMMA GesturesStep ==
  ASSUME GesturesInv, GesturesNext PROVE GesturesInv'
<1>1. ASSUME NEW n \in {0, 1, 5}, NEW zone \in Zones, NEW y \in Heights, PadReport(n, zone, y)
      PROVE  GesturesInv'
  <2>1. five' \in FiveStates /\ UNCHANGED padOn
    BY <1>1 DEF PadReport, FiveFingers, GesturesInv, FiveStates
  <2>2. CASE ~padOn.slide
    <3>1. contact' = NoContact /\ edge' = NoEdge /\ touch' = NoTouch /\ UNCHANGED slid
      BY <1>1, <2>2 DEF PadReport, SlidOff
    <3> QED
      BY <2>1, <2>2, <3>1, Nothing DEF GesturesInv, Sides
  <2>3. CASE padOn.slide /\ n = 1
    <3>1. FingerAt(zone, y)
      BY <1>1, <2>3 DEF PadReport
    <3>2. padOn.slide = TRUE
      BY <2>3 DEF GesturesInv
    <3> QED
      BY <2>1, <3>1, <3>2, FingerStep
  <2>4. CASE padOn.slide /\ n # 1
    <3>1. NoFinger
      BY <1>1, <2>4 DEF PadReport
    <3> QED
      BY <2>1, <3>1, NoFingerStep
  <2> QED
    BY <2>2, <2>3, <2>4
<1>2. CASE SwitchGesture
  BY <1>2 DEF SwitchGesture, GesturesInv, Sides
<1>3. CASE TimePasses
  <2>1. five' \in FiveStates
    BY <1>3 DEF TimePasses, GesturesInv, FiveStates
  <2> QED
    BY <1>3, <2>1 DEF TimePasses, GesturesInv, Sides
<1> QED
  BY <1>1, <1>2, <1>3 DEF GesturesNext

\* Volume and brightness step only under a finger that came down at the edge, whatever
\* fingers came and went before (handle_edge_slide, edge_contact_start_side).
THEOREM SlidesBegin == GesturesSpec => [](GesturesTypeOK /\ SlidesBeginAtEdge)
<1>1. GesturesInit => GesturesInv
  <2>1. [since |-> "none", cooling |-> FALSE] \in FiveStates
    BY DEF FiveStates
  <2>2. GesturesInit => padOn \in [slide : BOOLEAN, shot : BOOLEAN]
    BY DEF GesturesInit
  <2>3. GesturesInit => Sides
    BY Nothing DEF GesturesInit, Sides
  <2> QED
    BY <2>1, <2>2, <2>3, Nothing DEF GesturesInit, GesturesInv
<1>2. GesturesInv /\ [GesturesNext]_gestureVars => GesturesInv'
  <2>1. CASE GesturesInv /\ UNCHANGED gestureVars
    BY <2>1 DEF GesturesInv, Sides, gestureVars
  <2> QED
    BY <2>1, GesturesStep
<1> QED
  BY <1>1, <1>2, TypesAreGestures, PTL DEF GesturesSpec

-----------------------------------------------------------------------------
(* The popup of the tray icon.                                             *)

\* A popup the press has hidden was hidden no longer ago than the press began.
PressHides == press.held /\ press.shown /\ ~popup.shown => sinceHidden <= press.age

Popups == [shown : BOOLEAN, focused : BOOLEAN, at : Monitors,
           width : Scales, height : Scales \cup {0}]
Presses == [on : Monitors, age : 0..MaxHold, shown : BOOLEAN, held : BOOLEAN]

ShellInv == AppShellTypeOK /\ PressHides

\* What becomes of the popup's record.
LEMMA PopupUpdates ==
  ASSUME NEW p \in Popups
  PROVE  /\ [p EXCEPT !.shown = FALSE, !.focused = FALSE] \in Popups
         /\ [p EXCEPT !.shown = FALSE, !.focused = FALSE].shown = FALSE
         /\ [p EXCEPT !.focused = FALSE] \in Popups
         /\ [p EXCEPT !.focused = FALSE].shown = p.shown
BY DEF Popups

LEMMA PopupPlaced ==
  ASSUME NEW p \in Popups, NEW m \in Monitors, NEW scale \in Scales
  PROVE  Placed(p, m, scale) \in Popups
BY DEF Popups, Placed

LEMMA PopupShown ==
  ASSUME AppShellTypeOK, NEW m \in Monitors, NEW scale \in Scales, ShownAt(m, scale)
  PROVE  popup' \in Popups /\ popup'.shown = TRUE /\ sinceShown' \in 0..BlurGrace
<1>1. popup \in Popups /\ dpi[m] \in Scales
  BY DEF AppShellTypeOK, Popups
<1>2. Placed(Placed(popup, m, scale), m, dpi[m]) \in Popups
  BY <1>1, PopupPlaced
<1>3. \A p \in Popups : LET q == [p EXCEPT !.shown = TRUE, !.focused = TRUE]
                        IN q \in Popups /\ q.shown = TRUE
  BY DEF Popups
<1>4. sinceShown' \in 0..BlurGrace
  BY DEF ShownAt, BlurGrace
<1> QED
  BY <1>2, <1>3, <1>4 DEF ShownAt

\* Blur, with what it does to the time the popup was hidden.
LEMMA BlurStep ==
  ASSUME AppShellTypeOK, Blur
  PROVE  /\ popup' \in Popups /\ sinceHidden' \in 0..Debounce
         /\ \/ popup'.shown = popup.shown /\ sinceHidden' = sinceHidden
            \/ sinceHidden' = 0
<1>1. popup \in Popups
  BY DEF AppShellTypeOK, Popups
<1>2. CASE popup.focused /\ sinceShown = BlurGrace
  <2>1. popup' = [popup EXCEPT !.shown = FALSE, !.focused = FALSE] /\ sinceHidden' = 0
    BY <1>2 DEF Blur, Hidden
  <2>2. 0 \in 0..Debounce
    BY DEF Debounce
  <2> QED
    BY <1>1, <2>1, <2>2, PopupUpdates
<1>3. CASE ~(popup.focused /\ sinceShown = BlurGrace)
  <2>1. popup' = [popup EXCEPT !.focused = FALSE] /\ UNCHANGED sinceHidden
    BY <1>3 DEF Blur
  <2> QED
    BY <1>1, <2>1, PopupUpdates DEF AppShellTypeOK
<1> QED
  BY <1>2, <1>3

LEMMA ShellStep ==
  ASSUME ShellInv, AppShellNext PROVE ShellInv'
<1> USE AppShellAssumption
<1>0. /\ AppShellTypeOK /\ PressHides /\ popup \in Popups /\ press \in Presses
      /\ NoPress \in Presses /\ NoPress.held = FALSE
  BY DEF ShellInv, AppShellTypeOK, Popups, Presses, NoPress, Monitors
<1>1. CASE SetupHook \/ SetupRest \/ MainDestroyed \/ OpenMain \/ QuitApp
  <2>1. UNCHANGED <<dpi, popup, sinceShown, sinceHidden, press>>
    BY <1>1 DEF SetupHook, SetupRest, MainDestroyed, OpenMain, QuitApp
  <2>2. PressHides'
    BY <1>0, <2>1 DEF PressHides
  <2>3. /\ setupDone' \in {"none", "hook", "callbacks", "tray"}
        /\ mainWindow' \in {"open", "destroyed", "rebuilding", "gone"} /\ rebuilds' \in 0..MaxRebuilds
    BY <1>0, <1>1 DEF SetupHook, SetupRest, MainDestroyed, OpenMain, QuitApp, AppShellTypeOK
  <2> QED
    BY <1>0, <2>1, <2>2, <2>3 DEF ShellInv, AppShellTypeOK
<1>2. CASE ClickElsewhere
  BY <1>0, <1>2, BlurStep DEF ClickElsewhere, Windows, ShellInv, AppShellTypeOK, PressHides, Popups
<1>3. ASSUME NEW m \in Monitors, PressIcon(m) PROVE ShellInv'
  <2>1. /\ press' \in Presses /\ press'.age = 0 /\ press'.shown = popup.shown
    BY <1>0, <1>3 DEF PressIcon, Presses, Popups
  <2> QED
    BY <1>0, <1>3, <2>1, BlurStep
    DEF PressIcon, Windows, ShellInv, AppShellTypeOK, PressHides, Popups, Presses
<1>4. CASE ReleaseIcon
  <2>1. /\ popup' \in Popups /\ sinceShown' \in 0..BlurGrace
    <3>1. press.on \in Monitors /\ dpi[press.on] \in Scales /\ sinceShown \in 0..BlurGrace
      BY <1>0 DEF AppShellTypeOK, Presses
    <3>2. \/ Hidden /\ UNCHANGED sinceShown
          \/ UNCHANGED <<popup, sinceShown>>
          \/ ShownAt(press.on, dpi[press.on])
      BY <1>4 DEF ReleaseIcon
    <3>3. CASE Hidden /\ UNCHANGED sinceShown
      BY <1>0, <3>1, <3>3, PopupUpdates DEF Hidden
    <3>4. CASE ShownAt(press.on, dpi[press.on])
      BY <1>0, <3>1, <3>4, PopupShown
    <3> QED
      BY <1>0, <3>1, <3>2, <3>3, <3>4
  <2> QED
    BY <1>0, <1>4, <2>1
    DEF ReleaseIcon, Windows, ShellInv, AppShellTypeOK, PressHides, Popups, Presses
<1>5. CASE FocusKey
  <2>1. /\ popup' \in Popups /\ sinceShown' \in 0..BlurGrace
    <3>1. popup.at \in Monitors /\ dpi[popup.at] \in Scales /\ "primary" \in Monitors
      BY <1>0 DEF AppShellTypeOK, Popups, Monitors
    <3>2. \/ Hidden /\ UNCHANGED sinceShown
          \/ UNCHANGED <<popup, sinceShown>>
          \/ ShownAt("primary", dpi[popup.at])
      BY <1>5 DEF FocusKey
    <3>3. CASE Hidden /\ UNCHANGED sinceShown
      BY <1>0, <3>3, PopupUpdates DEF Hidden, AppShellTypeOK
    <3>4. CASE ShownAt("primary", dpi[popup.at])
      BY <1>0, <3>1, <3>4, PopupShown
    <3> QED
      BY <1>0, <3>2, <3>3, <3>4 DEF AppShellTypeOK
  <2> QED
    BY <1>0, <1>5, <2>1
    DEF FocusKey, Windows, ShellInv, AppShellTypeOK, PressHides, Popups
<1>6. CASE ResizePopup
  <2>1. popup' \in Popups /\ popup'.shown = popup.shown
    BY <1>0, <1>6 DEF ResizePopup, AppShellTypeOK, Popups
  <2> QED
    BY <1>0, <1>6, <2>1 DEF ResizePopup, Windows, ShellInv, AppShellTypeOK, PressHides, Popups
<1>7. CASE ShellTick
  <2>1. /\ press' \in Presses /\ press'.held = press.held /\ press'.shown = press.shown
        /\ press.held => press'.age = press.age + 1
    BY <1>0, <1>7 DEF ShellTick, Presses
  <2>2. sinceHidden' \in 0..Debounce /\ sinceHidden' <= sinceHidden + 1 /\ sinceShown' \in 0..BlurGrace
    BY <1>0, <1>7 DEF ShellTick, AppShellTypeOK, Debounce, BlurGrace
  <2> QED
    BY <1>0, <1>7, <2>1, <2>2 DEF ShellTick, Windows, ShellInv, AppShellTypeOK, PressHides, Presses
<1>8. ASSUME NEW m \in Monitors, NEW s \in Scales, ChangeScale(m, s) PROVE ShellInv'
  BY <1>0, <1>8 DEF ChangeScale, ShellInv, AppShellTypeOK, PressHides
<1> QED
  BY <1>1, <1>2, <1>3, <1>4, <1>5, <1>6, <1>7, <1>8 DEF AppShellNext

LEMMA ShellInductive == AppShellSpec => []ShellInv
<1>1. AppShellInit => ShellInv
  <2>1. ASSUME AppShellInit PROVE popup \in Popups
    BY <2>1 DEF AppShellInit, Popups, Monitors
  <2> QED
    BY <2>1, AppShellAssumption
    DEF AppShellInit, ShellInv, AppShellTypeOK, PressHides, Popups, NoPress, BlurGrace, Debounce, Monitors
<1>2. ShellInv /\ [AppShellNext]_shellVars => ShellInv'
  <2>1. CASE ShellInv /\ UNCHANGED shellVars
    BY <2>1 DEF ShellInv, AppShellTypeOK, PressHides, shellVars
  <2> QED
    BY <2>1, ShellStep
<1> QED
  BY <1>1, <1>2, PTL DEF AppShellSpec

\* A click shorter than the 300 ms of the debounce that began with the popup shown leaves
\* it hidden, though the press hides it by the blur and the release is another event
\* (toggle_tray_popup; a longer click opens it again).
THEOREM ClicksClose ==
  ASSUME MaxHold < Debounce PROVE AppShellSpec => []AppShellTypeOK /\ ClickCloses
<1>1. ShellInv => AppShellTypeOK
  BY DEF ShellInv
<1>2. ASSUME ShellInv, AppShellNext, press.held, press.shown, ~press'.held PROVE ~popup'.shown
  <2>1. press \in Presses /\ popup \in Popups /\ sinceHidden \in 0..Debounce
    BY <1>2 DEF ShellInv, AppShellTypeOK, Presses, Popups
  <2>2. ReleaseIcon
    BY <1>2, <2>1
    DEF AppShellNext, SetupHook, SetupRest, ClickElsewhere, FocusKey, ResizePopup, ShellTick,
        MainDestroyed, OpenMain, QuitApp, PressIcon, ChangeScale, Presses
  <2>3. popup.shown \/ sinceHidden < Debounce
    BY <1>2, <2>1, AppShellAssumption DEF ShellInv, PressHides, Presses, Debounce
  <2>4. CASE Hidden
    BY <2>1, <2>4, PopupUpdates DEF Hidden
  <2>5. CASE ~popup.shown /\ UNCHANGED popup
    BY <2>5
  <2> QED
    BY <2>2, <2>3, <2>4, <2>5 DEF ReleaseIcon, Debounce
<1> QED
  BY <1>1, <1>2, ShellInductive, PTL DEF AppShellSpec, ClickCloses

-----------------------------------------------------------------------------
(* The slider and the brightness loop.                                     *)

Aged(o) == "age" \in DOMAIN o /\ o.age \in 0..Grace

\* What is kept of an override, in the file and in a loop that has read it, is no
\* older than the user's last use of the slider.
OverrideInv ==
  /\ Aged(manual) /\ Aged(saved) /\ sliderAge \in 0..Grace
  /\ saved.age <= sliderAge
  /\ loopAt # "start" => manual.age <= sliderAge

\* A record made anew, or with its age raised, has an age.
LEMMA AgeFacts ==
  /\ Aged(NoOverride) /\ NoOverride.age = Grace
  /\ \A offset, active : LET o == [age |-> 0, offset |-> offset, active |-> active]
                         IN Aged(o) /\ o.age = 0
  /\ \A o : Aged(o) => LET p == [o EXCEPT !.age = Older(@)]
                       IN Aged(p) /\ p.age = Older(o.age)
<1>1. Grace = 2 /\ 0 \in 0..Grace /\ Grace \in 0..Grace
  BY DEF Grace
<1>2. ASSUME NEW o, Aged(o)
      PROVE  LET p == [o EXCEPT !.age = Older(@)] IN Aged(p) /\ p.age = Older(o.age)
  <2>1. Older(o.age) \in 0..Grace
    BY <1>2, <1>1 DEF Aged, Older
  <2> QED
    BY <1>2, <2>1 DEF Aged
<1> QED
  BY <1>1, <1>2 DEF Aged, NoOverride

\* A step of the screen's module keeps the ages in order, and the loop goes past an
\* override only when the slider's last use is over.
LEMMA OverrideStep ==
  ASSUME OverrideInv, [DisplayNext]_displayVars
  PROVE  /\ OverrideInv'
         /\ loopAt = "judge" /\ loopAt' = "lux" => sliderAge = Grace
<1> USE AgeFacts DEF OverrideInv, loopVars, eyeVars
<1>g. Grace = 2
  BY DEF Grace
<1>a. \A o : Aged(o) => o.age \in 0..Grace
  BY DEF Aged
<1>1. CASE UNCHANGED displayVars
  BY <1>1 DEF displayVars
<1>2. CASE UNCHANGED <<manual, saved, sliderAge>> /\ (loopAt' = loopAt \/ loopAt \notin {"start", "judge"})
  BY <1>2
<1>3. ASSUME NEW l \in Levels, MoveSlider(l)
      PROVE  OverrideInv' /\ loopAt' = loopAt
  <2>1. loopAt' = loopAt
    BY <1>3 DEF MoveSlider
  <2>2. CASE autoOn
    <3>1. /\ manual' = [age |-> 0, offset |-> l - lastTarget, active |-> TRUE]
          /\ saved' = manual' /\ sliderAge' = 0
      BY <1>3, <2>2 DEF MoveSlider, RecordOverride
    <3>2. Aged(manual') /\ manual'.age = 0 /\ Aged(saved') /\ saved'.age = 0
      BY <3>1
    <3> QED
      BY <2>1, <3>1, <3>2, <1>g
  <2>3. CASE ~autoOn
    BY <1>3, <2>1, <2>3 DEF MoveSlider
  <2> QED
    BY <2>1, <2>2, <2>3
<1>4. CASE ToggleAuto
  <2>1. manual' = NoOverride /\ saved' = NoOverride /\ sliderAge' = Grace /\ loopAt' = loopAt
    BY <1>4 DEF ToggleAuto
  <2> QED
    BY <2>1, <1>g
<1>5. CASE MinutePasses
  <2>1. /\ manual' = [manual EXCEPT !.age = Older(@)] /\ saved' = [saved EXCEPT !.age = Older(@)]
        /\ sliderAge' = Older(sliderAge) /\ loopAt' = loopAt
    BY <1>5 DEF MinutePasses
  <2>2. Aged(manual') /\ manual'.age = Older(manual.age) /\ Aged(saved') /\ saved'.age = Older(saved.age)
    BY <2>1
  <2>3. sliderAge' \in 0..Grace
    BY <2>1, <1>g DEF Older
  <2>4. \A x, y \in 0..Grace : x <= y => Older(x) <= Older(y)
    BY <1>g DEF Older
  <2> QED
    BY <2>1, <2>2, <2>3, <2>4, <1>a
<1>6. CASE AppDies
  <2>1. manual' = NoOverride /\ UNCHANGED <<saved, sliderAge>> /\ loopAt' = "start"
    BY <1>6 DEF AppDies, FreshLoop
  <2> QED
    BY <2>1
<1>7. CASE LoopStarts
  <2>1. /\ manual' = IF saved.age < Grace THEN saved ELSE manual
        /\ UNCHANGED <<saved, sliderAge>> /\ loopAt = "start"
    BY <1>7 DEF LoopStarts
  <2> QED
    BY <2>1, <1>a, <1>g
<1>8. CASE LoopJudges
  <2>1. sliderAge' = sliderAge /\ loopAt = "judge"
        /\ loopAt' = (IF manual'.age < Grace THEN "sleep" ELSE "lux")
    BY <1>8 DEF LoopJudges, LoopGoes
  <2>2. CASE OutsideChange
    <3>1. manual' = [age |-> 0, offset |-> loopActual - lastTarget, active |-> TRUE] /\ saved' = manual'
      BY <1>8, <2>2 DEF LoopJudges, RecordOverride
    <3>2. Aged(manual') /\ manual'.age = 0 /\ Aged(saved') /\ saved'.age = 0
      BY <3>1
    <3> QED
      BY <2>1, <3>2, <1>g
  <2>3. CASE ~OutsideChange
    <3>1. UNCHANGED <<manual, saved>>
      BY <1>8, <2>3 DEF LoopJudges
    <3> QED
      BY <2>1, <3>1, <1>a, <1>g
  <2> QED
    BY <2>2, <2>3
<1>9. ASSUME NEW l \in Levels, ChangeOutside(l) \/ RoomChanges(l)
      PROVE  UNCHANGED <<manual, saved, sliderAge, loopAt>>
  BY <1>9 DEF ChangeOutside, RoomChanges
<1>10. CASE SliderWrites \/ LateSetLands \/ LoopReads \/ BadReading \/ LoopAims \/ LoopSets
  <2>1. UNCHANGED <<manual, saved, sliderAge>> /\ (loopAt' = loopAt \/ loopAt \notin {"start", "judge"})
    BY <1>10 DEF SliderWrites, LateSetLands, LoopReads, BadReading, LoopAims, LoopSets, LoopGoes
  <2> QED
    BY <2>1, <1>2
<1>11. CASE LaunchWizard \/ \E w \in 1..2 : WizardCloses(w)
  BY <1>11, <1>2 DEF LaunchWizard, WizardCloses, PanelOnly
<1>12. ASSUME NEW on \in BOOLEAN, NEW level \in {"default", "own"}, SetEye(on, level)
       PROVE  UNCHANGED <<manual, saved, sliderAge, loopAt>>
  BY <1>12 DEF SetEye, PanelOnly
<1> QED
  BY <1>1, <1>2, <1>3, <1>4, <1>5, <1>6, <1>7, <1>8, <1>9, <1>10, <1>11, <1>12
     DEF DisplayNext, LoopStep

\* After the slider was used with the automation on, the loop leaves the panel alone
\* for the whole grace, through any deaths of the app in between.
THEOREM SliderIsRespected == DisplaySpec => HandsOff
<1>1. DisplayInit => OverrideInv
  <2>1. Grace = 2
    BY DEF Grace
  <2>2. DisplayInit => manual = NoOverride /\ saved = NoOverride /\ sliderAge = Grace
    BY DEF DisplayInit
  <2> QED
    BY <2>1, <2>2, AgeFacts DEF OverrideInv
<1>2. OverrideInv /\ [DisplayNext]_displayVars
        => OverrideInv' /\ [loopAt = "judge" /\ loopAt' = "lux" => sliderAge = Grace]_displayVars
  BY OverrideStep
<1> QED
  BY <1>1, <1>2, PTL DEF DisplaySpec, HandsOff

Readings == Levels \cup {NoLevel}

\* The types of the screen's module, in the parts its actions change together.
PanelTypes ==
  /\ screen \in Levels /\ light \in Levels /\ sensor \in {"ok", "stuck"} /\ lastTarget \in Levels
  /\ sensorAsked \in BOOLEAN /\ autoOn \in BOOLEAN /\ appRuns \in BOOLEAN
  /\ slider \in Readings /\ lateSet \in Readings
LoopTypes ==
  /\ loopAt \in {"start", "sleep", "judge", "lux", "set"} /\ loopActual \in Readings
  /\ lastSet \in Readings /\ smoothed \in Readings /\ loopValue \in Levels
  /\ badReads \in 0..(StuckSensorResetAfter - 1)
OverrideTypes == manual \in Overrides /\ saved \in Overrides /\ sliderAge \in 0..Grace
EyeTypes ==
  /\ eye \in [on : BOOLEAN, level : {"default", "own"}] /\ calibrating \in BOOLEAN
  /\ wizards \in {<<>>} \cup [1..1 -> BOOLEAN] \cup [1..2 -> BOOLEAN]
DisplayTypes == PanelTypes /\ LoopTypes /\ OverrideTypes /\ EyeTypes /\ displayMoves \in 0..MaxDisplayMoves

LEMMA ClampIs ==
  /\ \A l \in Levels : Clamp(l, LowestSet) \in Levels
  /\ \A l \in Int : Clamp(l, 0) \in Levels
BY DEF Clamp, LowestSet, Levels

LEMMA OverrideIs ==
  /\ NoOverride \in Overrides
  /\ \A l, m \in Levels : [age |-> 0, offset |-> l - m, active |-> TRUE] \in Overrides
  /\ \A o \in Overrides : [o EXCEPT !.age = Older(@)] \in Overrides
  /\ \A age \in 0..Grace : Older(age) \in 0..Grace
<1> USE DEF Grace
<1>1. \A age \in 0..Grace : Older(age) \in 0..Grace
  BY DEF Older
<1>2. NoOverride \in Overrides
  BY DEF NoOverride, Overrides
<1>3. ASSUME NEW l \in Levels, NEW m \in Levels
      PROVE  [age |-> 0, offset |-> l - m, active |-> TRUE] \in Overrides
  <2>1. l - m \in -2..2
    BY DEF Levels
  <2> QED
    BY <2>1 DEF Overrides
<1>4. ASSUME NEW o \in Overrides PROVE [o EXCEPT !.age = Older(@)] \in Overrides
  <2>1. o.age \in 0..Grace
    BY DEF Overrides
  <2>2. Older(o.age) \in 0..Grace
    BY <1>1, <2>1
  <2> QED
    BY <2>2 DEF Overrides
<1> QED
  BY <1>1, <1>2, <1>3, <1>4

LEMMA LoopSame == ASSUME LoopTypes, UNCHANGED loopVars PROVE LoopTypes'
BY DEF LoopTypes, loopVars

LEMMA EyeSame == ASSUME EyeTypes, UNCHANGED eyeVars PROVE EyeTypes'
BY DEF EyeTypes, eyeVars

LEMMA OverrideSame ==
  ASSUME OverrideTypes, UNCHANGED <<manual, saved, sliderAge>> PROVE OverrideTypes'
BY DEF OverrideTypes

LEMMA EyeRecords ==
  \A on \in BOOLEAN : [on |-> on, level |-> "default"] \in [on : BOOLEAN, level : {"default", "own"}]
OBVIOUS

\* What the user, the room and the clock do.
LEMMA OutsideStep ==
  ASSUME DisplayTypes,
         \/ \E l \in Levels : ChangeOutside(l) \/ RoomChanges(l) \/ MoveSlider(l)
         \/ SliderWrites \/ ToggleAuto \/ MinutePasses \/ AppDies \/ LateSetLands
  PROVE  PanelTypes' /\ LoopTypes' /\ OverrideTypes' /\ EyeTypes'
<1>1. CASE \E l \in Levels : ChangeOutside(l) \/ RoomChanges(l)
  <2>1. /\ screen' \in Levels /\ light' \in Levels /\ sensor' \in {"ok", "stuck"}
        /\ UNCHANGED <<sensorAsked, autoOn, loopVars, manual, lastTarget, saved, slider, lateSet, appRuns,
                       sliderAge, eyeVars>>
    BY <1>1, Zenon DEF ChangeOutside, RoomChanges, DisplayTypes, PanelTypes
  <2> QED
    BY <2>1, Zenon DEF DisplayTypes, PanelTypes, LoopTypes, OverrideTypes, EyeTypes, loopVars, eyeVars
<1>2. ASSUME NEW l \in Levels, MoveSlider(l) PROVE PanelTypes' /\ LoopTypes' /\ OverrideTypes' /\ EyeTypes'
  <2>1. /\ slider' = l
        /\ UNCHANGED <<screen, light, sensor, sensorAsked, autoOn, loopVars, lastTarget, lateSet, appRuns,
                       eyeVars>>
        /\ \/ manual' = [age |-> 0, offset |-> l - lastTarget, active |-> TRUE] /\ saved' = manual'
              /\ sliderAge' = 0
           \/ UNCHANGED <<manual, saved, sliderAge>>
    BY <1>2, Zenon DEF MoveSlider, RecordOverride
  <2>2. 0 \in 0..Grace
    BY DEF Grace
  <2>3. [age |-> 0, offset |-> l - lastTarget, active |-> TRUE] \in Overrides
    BY OverrideIs DEF DisplayTypes, PanelTypes
  <2>4. OverrideTypes'
    BY <2>1, <2>2, <2>3, Zenon DEF DisplayTypes, OverrideTypes
  <2>5. PanelTypes'
    BY <2>1 DEF DisplayTypes, PanelTypes, Readings
  <2> QED
    BY <2>1, <2>4, <2>5, LoopSame, EyeSame, Zenon DEF DisplayTypes
<1>3. CASE SliderWrites
  <2>1. slider # NoLevel => Clamp(slider, LowestSet) \in Levels
    BY ClampIs DEF DisplayTypes, PanelTypes, Readings
  <2>2. /\ slider # NoLevel /\ slider' = NoLevel /\ screen' \in {screen, Clamp(slider, LowestSet)}
        /\ UNCHANGED <<light, sensor, sensorAsked, autoOn, loopVars, manual, lastTarget, saved,
                       lateSet, appRuns, sliderAge, eyeVars>>
    BY <1>3, Zenon DEF SliderWrites
  <2>3. PanelTypes'
    BY <2>1, <2>2 DEF DisplayTypes, PanelTypes, Readings
  <2> QED
    BY <2>2, <2>3, LoopSame, EyeSame, OverrideSame, Zenon DEF DisplayTypes
<1>4. CASE ToggleAuto
  <2>1. /\ autoOn' = ~autoOn /\ manual' = NoOverride /\ saved' = NoOverride /\ sliderAge' = Grace
        /\ UNCHANGED <<screen, light, sensor, sensorAsked, loopVars, lastTarget, slider, lateSet, appRuns,
                       eyeVars>>
    BY <1>4, Zenon DEF ToggleAuto
  <2>2. Grace \in 0..Grace
    BY DEF Grace
  <2> QED
    BY <2>1, <2>2, OverrideIs, Zenon
       DEF DisplayTypes, PanelTypes, LoopTypes, OverrideTypes, EyeTypes, loopVars, eyeVars
<1>5. CASE MinutePasses
  <2>1. /\ manual' = [manual EXCEPT !.age = Older(@)] /\ saved' = [saved EXCEPT !.age = Older(@)]
        /\ sliderAge' = Older(sliderAge)
        /\ UNCHANGED <<screen, light, sensor, sensorAsked, autoOn, loopVars, lastTarget, slider,
                       lateSet, appRuns, eyeVars>>
    BY <1>5 DEF MinutePasses
  <2>2. OverrideTypes'
    BY <2>1, OverrideIs DEF DisplayTypes, OverrideTypes
  <2> QED
    BY <2>1, <2>2, Zenon DEF DisplayTypes, PanelTypes, LoopTypes, EyeTypes, loopVars, eyeVars
<1>6. CASE AppDies
  <2>1. 2 \in Levels /\ 0 \in Levels /\ 0 \in 0..(StuckSensorResetAfter - 1)
    BY DEF Levels, StuckSensorResetAfter
  <2>2. /\ appRuns' = FALSE /\ FreshLoop /\ manual' = NoOverride /\ lastTarget' = 2
        /\ lateSet' = NoLevel /\ sensorAsked' = FALSE /\ calibrating' = FALSE /\ wizards' = <<>>
        /\ UNCHANGED <<screen, light, sensor, autoOn, saved, slider, sliderAge, eye>>
    BY <1>6, Zenon DEF AppDies
  <2> QED
    BY <2>1, <2>2, OverrideIs, Zenon
       DEF FreshLoop, DisplayTypes, PanelTypes, LoopTypes, OverrideTypes, EyeTypes, Readings
<1>7. CASE LateSetLands
  <2>1. lateSet # NoLevel => lateSet \in Levels
    BY Zenon DEF DisplayTypes, PanelTypes, Readings
  <2>2. /\ lateSet # NoLevel /\ screen' = lateSet /\ lateSet' = NoLevel
        /\ UNCHANGED <<light, sensor, sensorAsked, autoOn, loopVars, manual, lastTarget, saved,
                       slider, appRuns, sliderAge, eyeVars>>
    BY <1>7, Zenon DEF LateSetLands
  <2>3. PanelTypes'
    BY <2>1, <2>2 DEF DisplayTypes, PanelTypes, Readings
  <2> QED
    BY <2>2, <2>3, LoopSame, EyeSame, OverrideSame, Zenon DEF DisplayTypes
<1> QED
  BY <1>1, <1>2, <1>3, <1>4, <1>5, <1>6, <1>7, Zenon

\* What the loop does between two waits.
LEMMA LoopStepTypes ==
  ASSUME DisplayTypes, LoopStep
  PROVE  PanelTypes' /\ LoopTypes' /\ OverrideTypes' /\ EyeTypes'
<1>z. 0 \in 0..(StuckSensorResetAfter - 1)
  BY DEF StuckSensorResetAfter
<1>1. CASE LoopStarts
  <2>1. /\ appRuns' = TRUE /\ loopAt' = "sleep" /\ manual' \in {saved, manual}
        /\ UNCHANGED <<screen, light, sensor, sensorAsked, autoOn, loopActual, loopValue, lastSet,
                       smoothed, badReads, lastTarget, saved, slider, lateSet, sliderAge, eyeVars>>
    BY <1>1, Zenon DEF LoopStarts
  <2> QED
    BY <2>1, Zenon DEF DisplayTypes, PanelTypes, LoopTypes, OverrideTypes, EyeTypes, eyeVars
<1>2. CASE LoopReads
  <2>1. /\ loopAt' \in {"judge", "sleep"} /\ loopActual' \in {screen, NoLevel}
        /\ lastSet' \in {lastSet, NoLevel} /\ smoothed' \in {smoothed, NoLevel}
        /\ badReads' \in {badReads, 0}
        /\ UNCHANGED <<screen, sensor, sensorAsked, loopValue, manual, lastTarget, saved, lateSet,
                       sliderAge, light, autoOn, slider, appRuns, eyeVars>>
    BY <1>2, Zenon DEF LoopReads, LoopGoes
  <2>2. LoopTypes'
    BY <1>z, <2>1 DEF DisplayTypes, PanelTypes, LoopTypes, Readings
  <2> QED
    BY <2>1, <2>2, EyeSame, OverrideSame, Zenon DEF DisplayTypes, PanelTypes
<1>3. CASE LoopJudges
  <2>1. /\ loopAt' \in {"sleep", "lux"}
        /\ UNCHANGED <<screen, sensor, sensorAsked, loopActual, loopValue, badReads, lastTarget,
                       lateSet, sliderAge, OutsideLoop>>
    BY <1>3, Zenon DEF LoopJudges, LoopGoes
  <2>2. \/ /\ loopActual # NoLevel
           /\ manual' = [age |-> 0, offset |-> loopActual - lastTarget, active |-> TRUE]
           /\ saved' = manual' /\ smoothed' = loopActual /\ UNCHANGED lastSet
        \/ UNCHANGED <<manual, saved>> /\ lastSet' \in {lastSet, loopActual}
           /\ smoothed' \in {smoothed, loopActual}
    BY <1>3, Zenon DEF LoopJudges, OutsideChange, RecordOverride
  <2>3. loopActual # NoLevel => [age |-> 0, offset |-> loopActual - lastTarget, active |-> TRUE] \in Overrides
    BY OverrideIs DEF DisplayTypes, PanelTypes, LoopTypes, Readings
  <2>4. OverrideTypes'
    BY <2>1, <2>2, <2>3, Zenon DEF DisplayTypes, OverrideTypes
  <2>5. LoopTypes'
    BY <2>1, <2>2 DEF DisplayTypes, LoopTypes
  <2> QED
    BY <2>1, <2>4, <2>5, EyeSame, Zenon DEF DisplayTypes, PanelTypes, OutsideLoop
<1>4. CASE BadReading
  <2>1. /\ sensor' \in {"ok", "stuck"} /\ loopAt' = "sleep"
        /\ badReads' = (badReads + 1) % StuckSensorResetAfter /\ sensorAsked' = (badReads' = 0)
        /\ UNCHANGED <<screen, loopActual, loopValue, lastSet, smoothed, manual, lastTarget, saved,
                       lateSet, sliderAge, OutsideLoop>>
    BY <1>4, Zenon DEF BadReading, LoopGoes
  <2>2. badReads' \in 0..(StuckSensorResetAfter - 1)
    BY <2>1 DEF DisplayTypes, LoopTypes, StuckSensorResetAfter
  <2>3. sensorAsked' \in BOOLEAN
    BY <2>1, Zenon
  <2> QED
    BY <2>1, <2>2, <2>3, Zenon
       DEF DisplayTypes, PanelTypes, LoopTypes, OverrideTypes, EyeTypes, OutsideLoop, eyeVars
<1>5. CASE LoopAims
  <2>1. PICK raw \in {light} \cup SmartLevels :
          LET target == Clamp(raw + (IF manual.active THEN manual.offset ELSE 0), 0)
              current == IF smoothed = NoLevel THEN target ELSE smoothed
              next == IF target > current THEN current + 1
                      ELSE IF target < current THEN current - 1 ELSE current
          IN /\ lastTarget' = raw /\ smoothed' = next /\ loopValue' = next
             /\ LoopGoes("lux", IF next = lastSet THEN "sleep" ELSE "set")
    BY <1>5 DEF LoopAims
  <2>2. raw \in Levels
    BY Zenon DEF SmartLevels, DisplayTypes, PanelTypes
  <2>3. manual.offset \in Int
    BY DEF DisplayTypes, OverrideTypes, Overrides
  <2>4. PICK target \in Levels : target = Clamp(raw + (IF manual.active THEN manual.offset ELSE 0), 0)
    <3>1. raw + (IF manual.active THEN manual.offset ELSE 0) \in Int
      BY <2>2, <2>3 DEF Levels
    <3> QED
      BY <3>1, ClampIs
  <2>5. PICK current \in Levels : current = IF smoothed = NoLevel THEN target ELSE smoothed
    BY Zenon DEF DisplayTypes, LoopTypes, Readings
  <2>6. PICK next \in Levels : next = IF target > current THEN current + 1
                                      ELSE IF target < current THEN current - 1 ELSE current
    BY DEF Levels
  <2>7. lastTarget' = raw /\ smoothed' = next /\ loopValue' = next /\ loopAt' \in {"sleep", "set"}
    BY <2>1, <2>4, <2>5, <2>6, Zenon DEF LoopGoes
  <2>8. badReads' = 0 /\ UNCHANGED <<screen, sensor, sensorAsked, loopActual, lastSet, manual, saved, lateSet,
                                     sliderAge, OutsideLoop>>
    BY <1>5, Zenon DEF LoopAims
  <2>9. LoopTypes'
    BY <1>z, <2>7, <2>8 DEF DisplayTypes, LoopTypes, Readings
  <2> QED
    BY <2>2, <2>7, <2>8, <2>9, EyeSame, OverrideSame, Zenon DEF DisplayTypes, PanelTypes, OutsideLoop
<1>6. CASE LoopSets
  <2>1. Clamp(loopValue, LowestSet) \in Levels
    BY ClampIs DEF DisplayTypes, LoopTypes
  <2>2. /\ loopAt' = "sleep" /\ screen' \in {screen, Clamp(loopValue, LowestSet)}
        /\ lastSet' \in {lastSet, loopValue} /\ lateSet' \in {lateSet, Clamp(loopValue, LowestSet)}
        /\ UNCHANGED <<sensor, sensorAsked, loopActual, loopValue, smoothed, badReads, manual,
                       lastTarget, saved, sliderAge, OutsideLoop>>
    BY <1>6, Zenon DEF LoopSets, LoopGoes
  <2>3. LoopTypes'
    BY <2>2 DEF DisplayTypes, LoopTypes, Readings
  <2>4. PanelTypes'
    BY <2>1, <2>2 DEF DisplayTypes, PanelTypes, OutsideLoop, Readings
  <2> QED
    BY <2>2, <2>3, <2>4, EyeSame, OverrideSame, Zenon DEF DisplayTypes, OutsideLoop
<1> QED
  BY <1>1, <1>2, <1>3, <1>4, <1>5, <1>6, Zenon DEF LoopStep

\* What eye protection and the wizard do.
LEMMA EyeStepTypes ==
  ASSUME DisplayTypes,
         \/ \E on \in BOOLEAN, level \in {"default", "own"} : SetEye(on, level)
         \/ LaunchWizard \/ \E w \in 1..2 : WizardCloses(w)
  PROVE  PanelTypes' /\ LoopTypes' /\ OverrideTypes' /\ EyeTypes'
<1>1. EyeTypes'
  <2>1. CASE \E on \in BOOLEAN, level \in {"default", "own"} : SetEye(on, level)
    BY <2>1 DEF SetEye, DisplayTypes, EyeTypes
  <2>2. CASE LaunchWizard
    <3>1. eye.on \in BOOLEAN
      BY DEF DisplayTypes, EyeTypes
    <3>2. wizards' \in [1..1 -> BOOLEAN] \cup [1..2 -> BOOLEAN]
      <4>1. CASE wizards = <<>>
        BY <2>2, <3>1, <4>1, Zenon DEF LaunchWizard
      <4>2. CASE wizards # <<>>
        <5>1. wizards \in [1..1 -> BOOLEAN] /\ wizards' = [w \in 1..2 |-> IF w = 1 THEN wizards[1] ELSE eye.on]
          BY <2>2, <4>2, Zenon DEF LaunchWizard
        <5>2. 1 \in 1..1
          OBVIOUS
        <5>3. wizards[1] \in BOOLEAN
          BY <5>1, <5>2, Zenon
        <5> QED
          BY <3>1, <5>1, <5>3, Zenon
      <4> QED
        BY <4>1, <4>2
    <3>3. calibrating' = TRUE /\ eye' \in {eye, [on |-> FALSE, level |-> "default"]}
      BY <2>2, Zenon DEF LaunchWizard
    <3>4. eye' \in [on : BOOLEAN, level : {"default", "own"}]
      BY <3>3, EyeRecords, Zenon DEF DisplayTypes, EyeTypes
    <3> QED
      BY <3>2, <3>3, <3>4, Zenon DEF EyeTypes
  <2>3. ASSUME NEW w \in 1..2, WizardCloses(w) PROVE EyeTypes'
    <3>1. wizards' \in {<<>>} \cup [1..1 -> BOOLEAN]
      <4>1. CASE wizards \in [1..2 -> BOOLEAN]
        <5>1. 3 - w \in 1..2
          OBVIOUS
        <5>2. wizards[3 - w] \in BOOLEAN
          BY <4>1, <5>1, Zenon
        <5> QED
          BY <2>3, <4>1, <5>2, Zenon DEF WizardCloses
      <4>2. CASE wizards \notin [1..2 -> BOOLEAN]
        BY <2>3, <4>2, Zenon DEF WizardCloses
      <4> QED
        BY <4>1, <4>2
    <3>2. calibrating' = FALSE /\ eye' \in {eye, [on |-> TRUE, level |-> "default"]}
      BY <2>3, Zenon DEF WizardCloses
    <3>3. eye' \in [on : BOOLEAN, level : {"default", "own"}]
      BY <3>2, EyeRecords, Zenon DEF DisplayTypes, EyeTypes
    <3> QED
      BY <3>1, <3>2, <3>3, Zenon DEF EyeTypes
  <2> QED
    BY <2>1, <2>2, <2>3
<1>2. UNCHANGED PanelOnly
  BY Zenon DEF SetEye, LaunchWizard, WizardCloses
<1> QED
  BY <1>1, <1>2, Zenon DEF PanelOnly, loopVars, DisplayTypes, PanelTypes, LoopTypes, OverrideTypes

LEMMA DisplayMovesOn ==
  ASSUME DisplayTypes, DisplayNext PROVE displayMoves' \in 0..MaxDisplayMoves
<1>1. displayMoves' = displayMoves \/ (displayMoves < MaxDisplayMoves /\ displayMoves' = displayMoves + 1)
  <2>1. CASE \E l \in Levels : ChangeOutside(l) \/ RoomChanges(l) \/ MoveSlider(l)
    BY <2>1, Zenon DEF ChangeOutside, RoomChanges, MoveSlider, Move
  <2>2. CASE SliderWrites \/ ToggleAuto \/ MinutePasses \/ AppDies \/ LateSetLands
    BY <2>2, Zenon DEF SliderWrites, ToggleAuto, MinutePasses, AppDies, LateSetLands, Move
  <2>3. CASE LoopStep
    BY <2>3, Zenon DEF LoopStep, LoopStarts, LoopReads, LoopJudges, BadReading, LoopAims, LoopSets, Move,
       OutsideLoop
  <2>4. CASE \/ \E on \in BOOLEAN, level \in {"default", "own"} : SetEye(on, level)
             \/ LaunchWizard \/ \E w \in 1..2 : WizardCloses(w)
    BY <2>4, Zenon DEF SetEye, LaunchWizard, WizardCloses, Move
  <2> QED
    BY <2>1, <2>2, <2>3, <2>4, Zenon DEF DisplayNext
<1> QED
  BY <1>1, DisplayAssumption DEF DisplayTypes

\* The level the loop goes to, the override's offset added and one step at a time, is always
\* one the panel has, and an override's offset stays within the panel's range, for any curve
\* the user has taught it.
THEOREM DisplayTypeCorrect == DisplaySpec => []DisplayTypeOK
<1>1. DisplayInit => DisplayTypes
  <2> SUFFICES ASSUME DisplayInit PROVE DisplayTypes
    OBVIOUS
  <2>1. /\ 2 \in Levels /\ 0 \in Levels /\ 0 \in 0..(StuckSensorResetAfter - 1) /\ Grace \in 0..Grace
        /\ 0 \in 0..MaxDisplayMoves
    BY DisplayAssumption DEF Levels, StuckSensorResetAfter, Grace
  <2>2. eye \in [on : BOOLEAN, level : {"default", "own"}]
    BY DEF DisplayInit
  <2> QED
    BY <2>1, <2>2, OverrideIs, Zenon
       DEF DisplayInit, DisplayTypes, PanelTypes, LoopTypes, OverrideTypes, EyeTypes, Readings
<1>2. DisplayTypes /\ DisplayNext => DisplayTypes'
  <2> SUFFICES ASSUME DisplayTypes, DisplayNext PROVE DisplayTypes'
    OBVIOUS
  <2>1. PanelTypes' /\ LoopTypes' /\ OverrideTypes' /\ EyeTypes'
    BY OutsideStep, LoopStepTypes, EyeStepTypes, Zenon DEF DisplayNext
  <2> QED
    BY <2>1, DisplayMovesOn, Zenon DEF DisplayTypes
<1>3. DisplayTypes /\ UNCHANGED displayVars => DisplayTypes'
  BY Zenon DEF displayVars, loopVars, eyeVars, DisplayTypes, PanelTypes, LoopTypes, OverrideTypes, EyeTypes
<1>4. DisplayTypes => DisplayTypeOK
  BY Zenon DEF DisplayTypeOK, DisplayTypes, PanelTypes, LoopTypes, OverrideTypes, EyeTypes, Readings
<1> QED
  BY <1>1, <1>2, <1>3, <1>4, PTL DEF DisplaySpec

-----------------------------------------------------------------------------
(* The injected key.                                                       *)

\* Somebody is left to release the injected key: the hook at the key-up of its source, a
\* releaser that will find the source still set, or one that has taken it.
SomebodyReleases ==
  \/ \E r \in 1..MaxRemaps : releasers[r] = "up"
  \/ llHook /\ source \in keysDown
  \/ source = "copilot" /\ \E r \in 1..MaxRemaps : releasers[r] \in {"look", "held", "clear"}

ReleaseInv ==
  /\ releasers \in [1..MaxRemaps -> {"none", "look", "held", "clear", "up"}]
  /\ hookThread \in {"run", "stuck"}
  /\ hookThread = "run" => /\ inHook # NoKey => llHook /\ inHook \in keysDown
                           /\ targetDown => SomebodyReleases

\* What a releaser does to the state of its own.
LEMMA ReleaserMoves ==
  ASSUME ReleaseInv, NEW r \in 1..MaxRemaps, NEW at \in {"none", "look", "held", "clear", "up"},
         releasers' = [releasers EXCEPT ![r] = at]
  PROVE  /\ releasers' \in [1..MaxRemaps -> {"none", "look", "held", "clear", "up"}]
         /\ releasers'[r] = at /\ \A q \in 1..MaxRemaps : q # r => releasers'[q] = releasers[q]
BY DEF ReleaseInv

LEMMA KeyStepKeeps ==
  ASSUME ReleaseInv, HotkeysNext PROVE ReleaseInv'
<1>1. CASE UNCHANGED <<hookThread, llHook, inHook, source, targetDown, releasers, keysDown>>
  BY <1>1 DEF ReleaseInv, SomebodyReleases
<1>2. ASSUME NEW k \in HotKeys, KeyDown(k) PROVE ReleaseInv'
  <2>1. /\ keysDown' = keysDown \cup {k} /\ UNCHANGED <<hookThread, llHook, source, targetDown, releasers>>
    BY <1>2 DEF KeyDown
  <2>2. hookThread = "run" => \/ llHook /\ inHook' = k
                              \/ inHook' = inHook
    BY <1>2 DEF KeyDown, StateIsFree
  <2> QED
    BY <2>1, <2>2 DEF ReleaseInv, SomebodyReleases
<1>3. ASSUME NEW k \in HotKeys, KeyUp(k) PROVE ReleaseInv'
  <2>1. keysDown' = keysDown \ {k} /\ UNCHANGED <<hookThread, llHook, inHook, releasers>>
    BY <1>3 DEF KeyUp
  <2>2. ASSUME hookThread = "run" PROVE llHook => inHook = NoKey
    BY <1>3, <2>2 DEF KeyUp, StateIsFree, HookRuns
  <2>3. ASSUME hookThread = "run", targetDown' PROVE SomebodyReleases'
    <3>1. targetDown /\ source' = source /\ ~(llHook /\ source = k)
      BY <1>3, <2>3 DEF KeyUp, StateIsFree
    <3>2. SomebodyReleases
      BY <2>3, <3>1 DEF ReleaseInv
    <3> QED
      BY <2>1, <3>1, <3>2 DEF SomebodyReleases
  <2> QED
    BY <2>1, <2>2, <2>3 DEF ReleaseInv
<1>4. CASE HookJudges
  <2>1. inHook # NoKey /\ inHook' = NoKey /\ UNCHANGED <<hookThread, llHook, releasers, keysDown>>
        /\ (source' = inHook \/ UNCHANGED <<source, targetDown>>)
    BY <1>4 DEF HookJudges
  <2> QED
    BY <2>1 DEF ReleaseInv, SomebodyReleases
<1>5. ASSUME NEW k \in Registered, HotkeyWhileDetecting(k) PROVE ReleaseInv'
  BY <1>5 DEF HotkeyWhileDetecting, ReleaseInv
<1>6. ASSUME NEW k \in Registered, HotkeyMessage(k) PROVE ReleaseInv'
  <2>1. UNCHANGED <<hookThread, llHook, inHook, keysDown>>
    BY <1>6 DEF HotkeyMessage
  <2>2. CASE UNCHANGED <<source, targetDown, releasers>>
    BY <1>1, <2>1, <2>2
  <2>3. ASSUME NEW r \in 1..MaxRemaps, releasers' = [releasers EXCEPT ![r] = "look"],
               source' = "copilot"
        PROVE  ReleaseInv'
    BY <2>1, <2>3, ReleaserMoves DEF ReleaseInv, SomebodyReleases
  <2> QED
    BY <1>6, <2>2, <2>3 DEF HotkeyMessage, DispatchAction
<1>7. ASSUME NEW r \in 1..MaxRemaps, PollSource(r) PROVE ReleaseInv'
  <2>1. PICK at \in {"held", "clear"} : releasers' = [releasers EXCEPT ![r] = at]
    BY <1>7 DEF PollSource
  <2>2. releasers[r] \in {"look", "held"}
        /\ UNCHANGED <<hookThread, llHook, inHook, source, targetDown, keysDown>>
    BY <1>7 DEF PollSource
  <2>3. SomebodyReleases => SomebodyReleases'
    BY <2>1, <2>2, ReleaserMoves DEF SomebodyReleases
  <2> QED
    BY <2>1, <2>2, <2>3, ReleaserMoves DEF ReleaseInv
<1>8. ASSUME NEW r \in 1..MaxRemaps, ClearSource(r) PROVE ReleaseInv'
  <2>1. releasers[r] = "clear" /\ UNCHANGED <<hookThread, llHook, inHook, targetDown, keysDown>>
    BY <1>8 DEF ClearSource
  <2>2. CASE source = "copilot"
    BY <1>8, <2>1, <2>2, ReleaserMoves DEF ClearSource, ReleaseInv, SomebodyReleases
  <2>3. CASE source # "copilot"
    <3>1. releasers' = [releasers EXCEPT ![r] = "none"] /\ source' = source
      BY <1>8, <2>3 DEF ClearSource
    <3>2. SomebodyReleases => SomebodyReleases'
      BY <2>1, <2>3, <3>1, ReleaserMoves DEF SomebodyReleases
    <3> QED
      BY <2>1, <3>1, <3>2, ReleaserMoves DEF ReleaseInv
  <2> QED
    BY <2>2, <2>3
<1>9. ASSUME NEW r \in 1..MaxRemaps, ReleaseTarget(r) PROVE ReleaseInv'
  BY <1>9, ReleaserMoves DEF ReleaseTarget, ReleaseInv
<1>10. CASE \/ StartDetect \/ EndDetect \/ SetBinding \/ Listen \/ WmiEvent
            \/ \E k \in HotKeys : RawInput(k)
  BY <1>1, <1>10 DEF StartDetect, EndDetect, SetBinding, Listen, WmiEvent, RawInput, DispatchAction
<1> QED
  BY <1>2, <1>3, <1>4, <1>5, <1>6, <1>7, <1>8, <1>9, <1>10 DEF HotkeysNext, HookSteps, ReleaserSteps

\* Once all keys are up and dealt with, the injected key is up: for any keys, presses and
\* releasers, and whatever the binding has become.
THEOREM InjectedKeyIsReleased == HotkeysSpec => []TargetIsReleased
<1>1. HotkeysInit => ReleaseInv
  BY DEF HotkeysInit, ReleaseInv
<1>2. ReleaseInv /\ [HotkeysNext]_hotkeysVars => ReleaseInv'
  <2>1. ReleaseInv /\ UNCHANGED hotkeysVars => ReleaseInv'
    BY DEF ReleaseInv, SomebodyReleases, hotkeysVars
  <2> QED
    BY <2>1, KeyStepKeeps
<1>3. ReleaseInv => TargetIsReleased
  BY DEF ReleaseInv, SomebodyReleases, TargetIsReleased
<1> QED
  BY <1>1, <1>2, <1>3, PTL DEF HotkeysSpec

\* The types of the hotkeys: the hook's and the remapping's,
HookTypes ==
  /\ hookThread \in {"run", "stuck"} /\ llHook \in BOOLEAN
  /\ inHook \in HotKeys \cup {NoKey} /\ posted \subseteq Registered
  /\ remap \in BOOLEAN /\ targetDown \in BOOLEAN /\ keysDown \subseteq HotKeys
  /\ source \in (HotKeys \cap CopilotKeys) \cup {"copilot", NoKey}
  /\ releasers \in [1..MaxRemaps -> {"none", "look", "held", "clear", "up"}]

\* and those of detect mode: it was started for every thread of it that is left.
DetectTypes ==
  /\ detect \in {"idle", "await", "captured"}
  /\ listener \in {"connect", "wait", "subscribed", "ended"}
  /\ presses \in 0..MaxPresses /\ detects \in 0..MaxDetects /\ detectors \in 0..detects

LEMMA HookTypesStep ==
  ASSUME HookTypes, HotkeysNext PROVE HookTypes'
<1>1. ASSUME NEW k \in HotKeys, KeyDown(k) PROVE HookTypes'
  <2>1. /\ keysDown' = keysDown \cup {k} /\ inHook' \in {k, inHook}
        /\ UNCHANGED <<hookThread, llHook, remap, source, targetDown, releasers>>
    BY <1>1, Zenon DEF KeyDown
  <2>2. posted' \subseteq posted \cup Registered
    BY <1>1, Zenon DEF KeyDown, Post
  <2> QED
    BY <2>1, <2>2 DEF HookTypes
<1>2. ASSUME NEW k \in HotKeys, KeyUp(k) PROVE HookTypes'
  <2>1. /\ keysDown' = keysDown \ {k} /\ source' \in {source, NoKey} /\ targetDown' \in {targetDown, FALSE}
        /\ UNCHANGED <<hookThread, llHook, inHook, posted, remap, releasers>>
    BY <1>2, Zenon DEF KeyUp
  <2>2. targetDown' \in BOOLEAN
    BY <2>1, Zenon DEF HookTypes
  <2> QED
    BY <2>1, <2>2 DEF HookTypes
<1>3. CASE HookJudges
  <2>1. /\ inHook' = NoKey /\ targetDown' \in {targetDown, TRUE}
        /\ source' = source \/ (inHook \in CopilotKeys /\ source' = inHook)
        /\ posted' \subseteq posted \cup Registered
        /\ UNCHANGED <<hookThread, llHook, remap, releasers, keysDown>>
    BY <1>3, Zenon DEF HookJudges
  <2>2. targetDown' \in BOOLEAN
    BY <2>1, Zenon DEF HookTypes
  <2> QED
    BY <2>1, <2>2 DEF HookTypes, CopilotKeys, NoKey
<1>4. ASSUME NEW k \in Registered, HotkeyWhileDetecting(k) \/ HotkeyMessage(k) PROVE HookTypes'
  <2>1. /\ posted' = posted \ {k} /\ hookThread' \in {hookThread, "stuck"}
        /\ source' \in {source, "copilot"} /\ targetDown' \in {targetDown, TRUE}
        /\ \/ releasers' = releasers
           \/ \E r \in 1..MaxRemaps : releasers' = [releasers EXCEPT ![r] = "look"]
        /\ UNCHANGED <<llHook, inHook, remap, keysDown>>
    BY <1>4, Zenon DEF HotkeyWhileDetecting, HotkeyMessage, DispatchAction
  <2>2. targetDown' \in BOOLEAN
    BY <2>1, Zenon DEF HookTypes
  <2> QED
    BY <2>1, <2>2 DEF HookTypes
<1>5. CASE ReleaserSteps
  <2>1. \E r \in 1..MaxRemaps, at \in {"held", "clear", "up", "none"} :
          releasers' = [releasers EXCEPT ![r] = at]
    BY <1>5, Zenon DEF ReleaserSteps, PollSource, ClearSource, ReleaseTarget
  <2>2. /\ source' \in {source, NoKey} /\ targetDown' \in {targetDown, FALSE}
        /\ UNCHANGED <<hookThread, llHook, inHook, posted, remap, keysDown>>
    BY <1>5, Zenon DEF ReleaserSteps, PollSource, ClearSource, ReleaseTarget
  <2>3. targetDown' \in BOOLEAN
    BY <2>2, Zenon DEF HookTypes
  <2> QED
    BY <2>1, <2>2, <2>3 DEF HookTypes
<1>6. CASE StartDetect \/ EndDetect \/ Listen \/ WmiEvent \/ \E k \in HotKeys : RawInput(k)
  <2>1. UNCHANGED <<hookThread, llHook, inHook, posted, remap, source, targetDown, releasers, keysDown>>
    BY <1>6, Zenon DEF StartDetect, EndDetect, Listen, WmiEvent, RawInput, DispatchAction
  <2> QED
    BY <2>1, Zenon DEF HookTypes
<1>7. CASE SetBinding
  BY <1>7, Zenon DEF SetBinding, HookTypes
<1> QED
  BY <1>1, <1>2, <1>3, <1>4, <1>5, <1>6, <1>7, Zenon DEF HotkeysNext, HookSteps

LEMMA DetectTypesStep ==
  ASSUME DetectTypes, HotkeysNext PROVE DetectTypes'
<1> USE HotkeysAssumption
<1>1. CASE \E k \in HotKeys : KeyDown(k)
  <2>1. /\ presses < MaxPresses /\ presses' = presses + 1 /\ detect' \in {detect, "captured"}
        /\ UNCHANGED <<detectors, listener, detects>>
    BY <1>1, Zenon DEF KeyDown, Captured
  <2> QED
    BY <2>1 DEF DetectTypes
<1>2. CASE StartDetect
  BY <1>2 DEF StartDetect, DetectTypes
<1>3. CASE EndDetect
  BY <1>3 DEF EndDetect, DetectTypes
<1>4. CASE HookSteps \/ ReleaserSteps \/ SetBinding \/ Listen \/ WmiEvent
           \/ \E k \in HotKeys : KeyUp(k) \/ RawInput(k)
  <2>1. /\ detect' \in {detect, "captured"} /\ listener' \in {listener, "subscribed", "wait", "connect", "ended"}
        /\ UNCHANGED <<presses, detects, detectors>>
    BY <1>4, Zenon DEF HookSteps, HookJudges, HotkeyWhileDetecting, HotkeyMessage, ReleaserSteps, PollSource,
       ClearSource, ReleaseTarget, SetBinding, Listen, WmiEvent, KeyUp, RawInput, Captured
  <2> QED
    BY <2>1 DEF DetectTypes
<1> QED
  BY <1>1, <1>2, <1>3, <1>4, Zenon DEF HotkeysNext

\* The key whose release the hook waits for is one that is remapped, and there are no more
\* detect threads than detect modes were started.
THEOREM HotkeysTypeCorrect == HotkeysSpec => []HotkeysTypeOK
<1>1. HotkeysInit => HookTypes /\ DetectTypes
  <2> SUFFICES ASSUME HotkeysInit PROVE HookTypes /\ DetectTypes
    OBVIOUS
  <2>1. 0 \in 0..MaxPresses /\ 0 \in 0..MaxDetects /\ 0 \in 0..0
    BY HotkeysAssumption
  <2> QED
    BY <2>1, Zenon DEF HotkeysInit, HookTypes, DetectTypes
<1>2. HookTypes /\ DetectTypes /\ UNCHANGED hotkeysVars => HookTypes' /\ DetectTypes'
  BY Zenon DEF hotkeysVars, HookTypes, DetectTypes
<1>3. HookTypes /\ DetectTypes => HotkeysTypeOK
  <2> SUFFICES ASSUME HookTypes, DetectTypes PROVE HotkeysTypeOK
    OBVIOUS
  <2>1. detectors \in 0..MaxDetects
    BY HotkeysAssumption DEF DetectTypes
  <2> QED
    BY <2>1, Zenon DEF HookTypes, DetectTypes, HotkeysTypeOK
<1> QED
  BY <1>1, <1>2, <1>3, HookTypesStep, DetectTypesStep, PTL DEF HotkeysSpec

-----------------------------------------------------------------------------
(* Signing in with the face.                                               *)


LEMMA FaceConstants ==
  /\ Len(Gallery) \in Nat /\ Templates = 1..Len(Gallery) /\ (Gallery # <<>> => 1 \in Templates)
  /\ Threshold \in Nat /\ Margin \in Nat /\ MaxAttempts \in Nat /\ MaxPolls \in Nat
<1>1. Threshold \in Nat /\ Margin \in Nat /\ MaxAttempts \in Nat /\ MaxPolls \in Nat
  BY FaceAssumption
<1>2. Len(Gallery) \in Nat /\ Templates = 1..Len(Gallery) /\ (Gallery # <<>> => 1 \in Templates)
  BY FaceAssumption DEF Templates
<1> QED
  BY <1>1, <1>2

LEMMA GreatestSimilarity ==
  ASSUME NEW sims \in [Templates -> Similarities], NEW J \in SUBSET Templates, J # {}
  PROVE  \E i \in J : \A j \in J : sims[j] <= sims[i]
<1>1. sims \in [1..Len(Gallery) -> Nat]
  BY FaceConstants, FaceAssumption
<1>2. PICK b \in Nat : \A j \in 1..Len(Gallery) : sims[j] <= b
  BY <1>1, FaceConstants, NumbersBounded
<1> DEFINE Values == {sims[j] : j \in J}
<1>3. Values \subseteq Nat /\ Values # {} /\ \A x \in Values : x <= b
  BY <1>1, <1>2, FaceConstants
<1>4. PICK v \in Values : \A w \in Values : w <= v
  BY <1>3, GreatestNumber
<1> QED
  BY <1>4

\* best_match_with_margin finds the best template, the first of several.
LEMMA BestMatchIsBest ==
  ASSUME Gallery # <<>>, NEW sims \in [Templates -> Similarities]
  PROVE  /\ BestMatch(sims) \in Templates
         /\ \A j \in Templates : sims[j] <= sims[BestMatch(sims)]
<1>1. PICK best \in Templates : \A j \in Templates : sims[j] <= sims[best]
  BY FaceConstants, GreatestSimilarity
<1> DEFINE Bests == {i \in Templates : sims[i] = sims[best]}
<1>2. PICK i \in Bests : \A j \in Bests : i <= j
  <2>1. Bests \subseteq Nat /\ best \in Bests
    BY FaceConstants
  <2> QED
    BY <2>1, LeastNumber
<1>3. \A j \in 1..(i - 1) : sims[j] < sims[i]
  <2> TAKE j \in 1..(i - 1)
  <2>1. j \in Templates /\ i \in Templates /\ j < i
    BY FaceConstants
  <2>2. sims[j] # sims[best]
    BY <1>2, <2>1, FaceConstants
  <2>3. sims[j] \in Nat /\ sims[i] \in Nat /\ sims[best] \in Nat
    BY <2>1, FaceAssumption
  <2> QED
    BY <1>1, <2>1, <2>2, <2>3
<1>4. \E k \in Templates : /\ \A j \in Templates : sims[j] <= sims[k]
                           /\ \A j \in 1..(k - 1) : sims[j] < sims[k]
  BY <1>1, <1>3
<1> QED
  BY <1>4 DEF BestMatch

\* A match by the code's reckoning, one best template and its lead over the best of another
\* name, is a match by the reader's, whatever the gallery and the similarities.
THEOREM MatchedIsClear ==
  ASSUME Gallery # <<>>, NEW sims \in [Templates -> Similarities], Matched(sims)
  PROVE  ClearMatch(sims)
<1> DEFINE i == BestMatch(sims)
<1>1. i \in Templates /\ sims[i] >= Threshold /\ MarginOk(sims, i)
  BY BestMatchIsBest DEF Matched
<1>2. ASSUME NEW j \in Others(i) PROVE sims[j] + Margin <= sims[i]
  <2> DEFINE Rivals == {sims[k] : k \in Others(i)}
  <2>1. Others(i) \subseteq Templates
    BY DEF Others
  <2>2. PICK k \in Others(i) : \A l \in Others(i) : sims[l] <= sims[k]
    BY <1>2, <2>1, GreatestSimilarity
  <2>3. \E x \in Rivals : \A y \in Rivals : y <= x
    BY <2>2
  <2>4. /\ MaxOf(Rivals) \in Rivals /\ \A y \in Rivals : y <= MaxOf(Rivals)
    BY <2>3 DEF MaxOf
  <2>5. sims[j] <= MaxOf(Rivals)
    BY <1>2, <2>4
  <2>6. sims[i] >= MaxOf(Rivals) + Margin
    BY <1>1, <1>2 DEF MarginOk
  <2>7. \A l \in Templates : sims[l] \in Nat
    BY FaceAssumption
  <2>8. sims[j] \in Nat /\ MaxOf(Rivals) \in Nat /\ sims[i] \in Nat
    BY <1>1, <1>2, <2>1, <2>4, <2>7
  <2> QED
    BY <2>5, <2>6, <2>8, FaceConstants
<1> QED
  BY <1>1, <1>2 DEF ClearMatch

\* An attempt that is not over has reported nothing, has a gallery and, where liveness is
\* on, an open challenge that is not met; the runner the provider asks is told nothing.
Looking(t) == attempt[t] \in {"opening", "frames"}
OneReport == \A t \in Attempts : attempt[t] # "over" => runner[t].fails = 0 /\ runner[t].verdict = "none"
ChallengeOpen ==
  \A t \in Attempts : Looking(t) =>
    /\ Gallery # <<>> /\ (liveness => faceSession[t].phase = "liveness")
    /\ faceSession[t].phase = "liveness" => ~ChallengeMet(faceSession[t])
CameraIsTheirs == \A t \in Attempts : camera = t <=> Looking(t)
ProviderUntold == runner[0].verdict # "ok" /\ ~cpSuccess
FaceInv == FaceTypeOK /\ OneReport /\ ChallengeOpen /\ CameraIsTheirs /\ ProviderUntold /\ SuccessIsEarned

\* The end of an attempt: its runner is told, the others and the provider's are not.
LEMMA ReportStep ==
  ASSUME FaceTypeOK, OneReport, NEW t \in Attempts, attempt[t] # "over",
         NEW verdict \in Verdicts, Report(t, verdict)
  PROVE  /\ attempt' \in [Attempts -> {"none", "start", "opening", "frames", "over"}]
         /\ attempt'[t] = "over" /\ \A u \in Attempts : u # t => attempt'[u] = attempt[u]
         /\ runner' \in [0..MaxAttempts -> Runners] /\ runner'[t].verdict = verdict
         /\ \A r \in 0..MaxAttempts : r # t => runner'[r] = runner[r]
         /\ OneReport'
<1>1. /\ attempt' \in [Attempts -> {"none", "start", "opening", "frames", "over"}]
      /\ attempt'[t] = "over" /\ \A u \in Attempts : u # t => attempt'[u] = attempt[u]
  BY DEF Report, FaceTypeOK
<1> DEFINE told == [done |-> TRUE, verdict |-> verdict,
                    fails |-> CASE verdict = "ok" -> 0
                                [] verdict \in {"mismatch", "no_face"} -> runner[t].fails + 1
                                [] OTHER -> runner[t].fails]
<1>2. t \in 0..MaxAttempts /\ t # 0
  BY FaceConstants DEF Attempts
<1>3. runner' = [runner EXCEPT ![t] = told]
  BY DEF Report, RunnerOf
<1>4. told \in Runners
  <2>1. runner[t].fails = 0
    BY DEF OneReport
  <2> QED
    BY <2>1 DEF Runners, LockoutFails
<1>5. runner \in [0..MaxAttempts -> Runners]
  BY DEF FaceTypeOK
<1>6. /\ runner' \in [0..MaxAttempts -> Runners] /\ runner'[t] = told
      /\ \A r \in 0..MaxAttempts : r # t => runner'[r] = runner[r]
  <2> HIDE DEF told
  <2> QED
    BY <1>2, <1>3, <1>4, <1>5
<1>7. OneReport'
  <2> SUFFICES ASSUME NEW u \in Attempts, attempt'[u] # "over"
               PROVE  runner'[u].fails = 0 /\ runner'[u].verdict = "none"
    BY DEF OneReport
  <2>1. u # t /\ attempt[u] # "over" /\ u \in 0..MaxAttempts
    BY <1>1, FaceConstants DEF Attempts
  <2> QED
    BY <1>6, <2>1 DEF OneReport
<1> QED
  BY <1>1, <1>6, <1>7

\* An attempt that ends gives the camera back, if it had it.
LEMMA EndStep ==
  ASSUME FaceInv, NEW t \in Attempts, attempt[t] # "over", NEW verdict \in Verdicts,
         Report(t, verdict), camera' = (IF Looking(t) THEN Free ELSE camera),
         UNCHANGED <<liveness, facePipe, cp, polls, cpSuccess>>,
         faceSession' \in [Attempts -> Sessions],
         \A u \in Attempts : u # t => faceSession'[u] = faceSession[u],
         earned' \in [Attempts -> BOOLEAN],
         \A u \in Attempts : u # t => earned'[u] = earned[u],
         verdict = "ok" => earned'[t]
  PROVE  FaceInv'
<1> USE DEF FaceInv
<1>1. /\ attempt' \in [Attempts -> {"none", "start", "opening", "frames", "over"}]
      /\ attempt'[t] = "over" /\ \A u \in Attempts : u # t => attempt'[u] = attempt[u]
      /\ runner' \in [0..MaxAttempts -> Runners] /\ runner'[t].verdict = verdict
      /\ \A r \in 0..MaxAttempts : r # t => runner'[r] = runner[r]
      /\ OneReport'
  BY ReportStep
<1>2. /\ 0 \in 0..MaxAttempts /\ 0 # t
      /\ \A u \in Attempts : u \in 0..MaxAttempts /\ u # Free
  BY FaceConstants DEF Attempts, Free
<1>3. FaceTypeOK'
  BY <1>1 DEF FaceTypeOK
<1>4. ChallengeOpen'
  <2> SUFFICES ASSUME NEW u \in Attempts, Looking(u)'
               PROVE  /\ Gallery # <<>> /\ (liveness => faceSession'[u].phase = "liveness")
                      /\ faceSession'[u].phase = "liveness" => ~ChallengeMet(faceSession'[u])
    BY DEF ChallengeOpen
  <2>1. u # t /\ Looking(u) /\ faceSession'[u] = faceSession[u]
    BY <1>1 DEF Looking
  <2> QED
    BY <2>1 DEF ChallengeOpen
<1>5. CameraIsTheirs'
  <2> SUFFICES ASSUME NEW u \in Attempts PROVE camera' = u <=> Looking(u)'
    BY DEF CameraIsTheirs
  <2>1. CASE u = t
    BY <1>1, <1>2, <2>1 DEF Looking, CameraIsTheirs
  <2>2. CASE u # t
    BY <1>1, <1>2, <2>2 DEF Looking, CameraIsTheirs
  <2> QED
    BY <2>1, <2>2
<1>6. ProviderUntold'
  BY <1>1, <1>2 DEF ProviderUntold
<1>7. SuccessIsEarned'
  <2> SUFFICES ASSUME NEW u \in Attempts, runner'[u].verdict = "ok" PROVE earned'[u]
    BY DEF SuccessIsEarned
  <2>1. CASE u = t
    BY <1>1, <2>1
  <2>2. CASE u # t
    BY <1>1, <1>2, <2>2 DEF SuccessIsEarned
  <2> QED
    BY <2>1, <2>2
<1> QED
  BY <1>1, <1>3, <1>4, <1>5, <1>6, <1>7

\* Begin: the camera is taken with a fresh session, whose challenge is not met.
LEMMA BeginStep ==
  ASSUME FaceInv, NEW t \in Attempts, Begin(t)
  PROVE  FaceInv'
<1> USE DEF FaceInv
<1>1. /\ attempt[t] = "start" /\ ~Looking(t)
      /\ UNCHANGED <<liveness, facePipe, cp, polls, cpSuccess, earned>>
  BY DEF Begin, Looking
<1>2. ASSUME NEW verdict \in {"error", "no_enrolled"}, Report(t, verdict), UNCHANGED <<faceSession, camera>>
      PROVE  FaceInv'
  <2>1. verdict \in Verdicts /\ verdict # "ok"
    BY <1>2 DEF Verdicts
  <2>2. /\ faceSession' \in [Attempts -> Sessions] /\ earned' \in [Attempts -> BOOLEAN]
        /\ faceSession' = faceSession /\ earned' = earned
    BY <1>1, <1>2 DEF FaceTypeOK
  <2> QED
    BY <1>1, <1>2, <2>1, <2>2, EndStep
<1>3. ASSUME Gallery # <<>>, camera = Free, camera' = t, NEW c \in Challenges,
             faceSession' = [faceSession EXCEPT ![t] =
               [phase |-> IF liveness THEN "liveness" ELSE "recognize", challenge |-> c,
                closed |-> FALSE, count |-> 0]],
             attempt' = [attempt EXCEPT ![t] = "opening"], UNCHANGED runner
      PROVE  FaceInv'
  <2> DEFINE fresh == [phase |-> IF liveness THEN "liveness" ELSE "recognize", challenge |-> c,
                       closed |-> FALSE, count |-> 0]
  <2>1. fresh \in Sessions /\ ~ChallengeMet(fresh) /\ (liveness => fresh.phase = "liveness")
    BY DEF Sessions, ChallengeMet
  <2>2. /\ faceSession' \in [Attempts -> Sessions] /\ faceSession'[t] = fresh
        /\ \A u \in Attempts : u # t => faceSession'[u] = faceSession[u]
    <3> HIDE DEF fresh
    <3> QED
      BY <1>3, <2>1 DEF FaceTypeOK, fresh
  <2>3. /\ attempt' \in [Attempts -> {"none", "start", "opening", "frames", "over"}]
        /\ attempt'[t] = "opening" /\ \A u \in Attempts : u # t => attempt'[u] = attempt[u]
    BY <1>3 DEF FaceTypeOK
  <2>4. FaceTypeOK'
    BY <1>1, <1>3, <2>2, <2>3 DEF FaceTypeOK
  <2>5. OneReport'
    BY <1>1, <1>3, <2>3 DEF OneReport
  <2>6. ChallengeOpen'
    <3> SUFFICES ASSUME NEW u \in Attempts, Looking(u)'
                 PROVE  /\ Gallery # <<>> /\ (liveness => faceSession'[u].phase = "liveness")
                        /\ faceSession'[u].phase = "liveness" => ~ChallengeMet(faceSession'[u])
      BY <1>1 DEF ChallengeOpen
    <3>1. CASE u = t
      <4> HIDE DEF fresh
      <4> QED
        BY <1>3, <2>1, <2>2, <3>1
    <3>2. CASE u # t
      BY <2>2, <2>3, <3>2 DEF ChallengeOpen, Looking
    <3> QED
      BY <3>1, <3>2
  <2>7. CameraIsTheirs'
    <3> SUFFICES ASSUME NEW u \in Attempts PROVE camera' = u <=> Looking(u)'
      BY DEF CameraIsTheirs
    <3>1. u # Free
      BY DEF Attempts, Free
    <3> QED
      BY <1>3, <2>3, <3>1 DEF CameraIsTheirs, Looking
  <2>8. ProviderUntold' /\ SuccessIsEarned'
    BY <1>1, <1>3 DEF ProviderUntold, SuccessIsEarned
  <2> QED
    BY <2>4, <2>5, <2>6, <2>7, <2>8
<1> QED
  <2> HIDE DEF FaceInv
  <2> QED
    BY <1>2, <1>3 DEF Begin

\* OpenCamera and Deadline: the camera opens, or the attempt is over without a success.
LEMMA OpenStep ==
  ASSUME FaceInv, NEW t \in Attempts, OpenCamera(t) \/ Deadline(t)
  PROVE  FaceInv'
<1> USE DEF FaceInv
<1>1. /\ Looking(t) /\ UNCHANGED <<liveness, facePipe, cp, polls, cpSuccess, faceSession, earned>>
  BY DEF OpenCamera, Deadline, Looking
<1>2. CASE Leave(t, "error")
  <2>1. "error" \in Verdicts /\ Report(t, "error") /\ camera' = Free /\ attempt[t] # "over"
    BY <1>1, <1>2 DEF Verdicts, Leave, Looking
  <2>2. faceSession' \in [Attempts -> Sessions] /\ earned' \in [Attempts -> BOOLEAN]
    BY <1>1 DEF FaceTypeOK
  <2>3. faceSession' = faceSession /\ earned' = earned
    BY <1>1
  <2> QED
    BY <1>1, <2>1, <2>2, <2>3, EndStep
<1>3. CASE attempt[t] = "opening" /\ attempt' = [attempt EXCEPT ![t] = "frames"] /\ UNCHANGED <<runner, camera>>
  <2>1. /\ attempt' \in [Attempts -> {"none", "start", "opening", "frames", "over"}]
        /\ attempt'[t] = "frames" /\ \A u \in Attempts : u # t => attempt'[u] = attempt[u]
    BY <1>3 DEF FaceTypeOK
  <2>2. \A u \in Attempts : /\ attempt'[u] = "over" <=> attempt[u] = "over"
                            /\ Looking(u)' <=> Looking(u)
    BY <1>3, <2>1 DEF Looking
  <2>3. FaceTypeOK'
    BY <1>1, <1>3, <2>1 DEF FaceTypeOK
  <2>4. OneReport'
    BY <1>3, <2>2 DEF OneReport
  <2>5. ChallengeOpen'
    BY <1>1, <2>2 DEF ChallengeOpen
  <2>6. CameraIsTheirs'
    BY <1>3, <2>2 DEF CameraIsTheirs
  <2>7. ProviderUntold' /\ SuccessIsEarned'
    BY <1>1, <1>3 DEF ProviderUntold, SuccessIsEarned
  <2> QED
    BY <2>3, <2>4, <2>5, <2>6, <2>7
<1> QED
  <2>1. Leave(t, "error") \/ (attempt[t] = "opening" /\ attempt' = [attempt EXCEPT ![t] = "frames"]
                               /\ UNCHANGED <<runner, camera>>)
    BY DEF OpenCamera, OpenFails, Deadline
  <2> QED
    BY <1>2, <1>3, <2>1

\* LivenessState::update keeps the session one, and its count within three.
LEMMA ChallengeStep ==
  ASSUME NEW s \in Sessions, ~ChallengeMet(s), NEW pose
  PROVE  Challenged(s, pose) \in Sessions /\ Challenged(s, pose).phase = s.phase
<1>1. s.challenge \in Challenges /\ s.count \in 0..3
  BY DEF Sessions
<1>2. s.count \in 0..2
  BY <1>1 DEF ChallengeMet, Challenges
<1>3. ASSUME NEW k \in 0..3 PROVE /\ [s EXCEPT !.count = k] \in Sessions
                                  /\ [s EXCEPT !.count = k].phase = s.phase
  BY DEF Sessions
<1>4. ASSUME NEW b \in BOOLEAN, NEW k \in 0..3
      PROVE  /\ [s EXCEPT !.closed = b, !.count = k] \in Sessions
             /\ [s EXCEPT !.closed = b, !.count = k].phase = s.phase
  BY DEF Sessions
<1>5. CASE s.challenge \in {"blink1", "blink2"}
  <2> DEFINE k == IF s.closed /\ ~Closed(pose) THEN s.count + 1 ELSE s.count
             b == Closed(pose)
  <2>1. k \in 0..3 /\ b \in BOOLEAN
    BY <1>2 DEF Closed
  <2>2. Challenged(s, pose) = [s EXCEPT !.closed = b, !.count = k]
    BY <1>5 DEF Challenged
  <2> HIDE DEF k, b
  <2>3. /\ [s EXCEPT !.closed = b, !.count = k] \in Sessions
        /\ [s EXCEPT !.closed = b, !.count = k].phase = s.phase
    BY <1>4, <2>1, Zenon
  <2> QED
    BY <2>2, <2>3
<1>6. CASE s.challenge = "turn_left"
  <2> DEFINE k == IF pose = "left" THEN s.count + 1 ELSE 0
  <2>1. k \in 0..3
    BY <1>2
  <2>2. Challenged(s, pose) = [s EXCEPT !.count = k]
    BY <1>6 DEF Challenged
  <2> HIDE DEF k
  <2> QED
    BY <1>3, <2>1, <2>2
<1>7. CASE s.challenge = "turn_right"
  <2> DEFINE k == IF pose = "right" THEN s.count + 1 ELSE 0
  <2>1. k \in 0..3
    BY <1>2
  <2>2. Challenged(s, pose) = [s EXCEPT !.count = k]
    BY <1>7 DEF Challenged
  <2> HIDE DEF k
  <2> QED
    BY <1>3, <2>1, <2>2
<1> QED
  BY <1>1, <1>5, <1>6, <1>7 DEF Challenges

\* Recognize: the attempt ends, and a success is earned.
LEMMA RecognizeStep ==
  ASSUME FaceInv, NEW t \in Attempts, Looking(t), NEW pose, Recognize(t, pose),
         UNCHANGED <<liveness, facePipe, cp, polls, cpSuccess>>,
         faceSession' \in [Attempts -> Sessions],
         \A u \in Attempts : u # t => faceSession'[u] = faceSession[u]
  PROVE  FaceInv'
<1>1. attempt[t] # "over" /\ earned \in [Attempts -> BOOLEAN]
  BY DEF Looking, FaceInv, FaceTypeOK
<1>2. CASE ~HasEmbedding(t, pose)
  <2>1. /\ "no_face" \in Verdicts /\ Report(t, "no_face") /\ camera' = Free
        /\ earned' = earned
    BY <1>2 DEF Recognize, Leave, Verdicts
  <2> QED
    BY <1>1, <2>1, EndStep
<1>3. CASE HasEmbedding(t, pose)
  <2>1. faceSession[t].phase = "recognize"
    BY <1>3 DEF HasEmbedding
  <2>2. Gallery # <<>> /\ ~liveness
    BY <2>1 DEF FaceInv, ChallengeOpen
  <2>3. PICK sims \in [Templates -> Similarities] :
          /\ Leave(t, IF Matched(sims) THEN "ok" ELSE "mismatch")
          /\ earned' = [earned EXCEPT ![t] = ClearMatch(sims)
                                               /\ (liveness => ChallengeMet(faceSession'[t]))]
    BY <1>3 DEF Recognize
  <2> DEFINE verdict == IF Matched(sims) THEN "ok" ELSE "mismatch"
             grant == ClearMatch(sims) /\ (liveness => ChallengeMet(faceSession'[t]))
  <2>4. verdict \in Verdicts /\ Report(t, verdict) /\ camera' = Free
    BY <2>3 DEF Verdicts, Leave
  <2>5. grant \in BOOLEAN
    OBVIOUS
  <2>6. verdict = "ok" => grant
    BY <2>2, MatchedIsClear
  <2>7. earned' = [earned EXCEPT ![t] = grant]
    BY <2>3
  <2> HIDE DEF verdict, grant
  <2>8. /\ earned' \in [Attempts -> BOOLEAN] /\ earned'[t] = grant
        /\ \A u \in Attempts : u # t => earned'[u] = earned[u]
    BY <1>1, <2>5, <2>7
  <2> QED
    BY <1>1, <2>4, <2>6, <2>8, EndStep
<1> QED
  BY <1>2, <1>3

\* A frame: the challenge goes on, or the frame is matched.
LEMMA FeedStep ==
  ASSUME FaceInv, NEW t \in Attempts, NEW pose, Feed(t, pose)
  PROVE  FaceInv'
<1>1. /\ attempt[t] = "frames" /\ Looking(t) /\ faceSession \in [Attempts -> Sessions]
      /\ UNCHANGED <<liveness, facePipe, cp, polls, cpSuccess>>
  BY DEF Feed, Looking, FaceInv, FaceTypeOK
<1>2. CASE faceSession[t].phase = "recognize"
  <2>1. faceSession' = faceSession /\ Recognize(t, pose)
    BY <1>2 DEF Feed
  <2> QED
    BY <1>1, <2>1, RecognizeStep
<1>3. CASE faceSession[t].phase # "recognize"
  <2> DEFINE s == Challenged(faceSession[t], pose)
  <2>1. /\ faceSession' = [faceSession EXCEPT ![t] = s]
        /\ IF ChallengeMet(s) THEN Recognize(t, pose)
           ELSE UNCHANGED <<runner, attempt, camera, earned>>
    BY <1>3 DEF Feed
  <2>2. faceSession[t] \in Sessions /\ faceSession[t].phase = "liveness" /\ ~ChallengeMet(faceSession[t])
    BY <1>1, <1>3 DEF Sessions, FaceInv, ChallengeOpen
  <2>3. s \in Sessions /\ s.phase = "liveness"
    BY <2>2, ChallengeStep
  <2> HIDE DEF s
  <2>4. /\ faceSession' \in [Attempts -> Sessions] /\ faceSession'[t] = s
        /\ \A u \in Attempts : u # t => faceSession'[u] = faceSession[u]
    BY <1>1, <2>1, <2>3
  <2>5. CASE ChallengeMet(s)
    BY <1>1, <2>1, <2>4, <2>5, RecognizeStep
  <2>6. CASE ~ChallengeMet(s)
    <3>1. UNCHANGED <<runner, attempt, camera, earned>>
      BY <2>1, <2>6
    <3>2. FaceTypeOK'
      BY <1>1, <2>4, <3>1 DEF FaceInv, FaceTypeOK
    <3>3. ChallengeOpen'
      <4> SUFFICES ASSUME NEW u \in Attempts, Looking(u)'
                   PROVE  /\ Gallery # <<>> /\ (liveness => faceSession'[u].phase = "liveness")
                          /\ faceSession'[u].phase = "liveness" => ~ChallengeMet(faceSession'[u])
        BY <1>1 DEF ChallengeOpen
      <4>1. CASE u = t
        BY <1>1, <2>3, <2>4, <2>6, <4>1 DEF FaceInv, ChallengeOpen
      <4>2. CASE u # t
        BY <2>4, <3>1, <4>2 DEF FaceInv, ChallengeOpen, Looking
      <4> QED
        BY <4>1, <4>2
    <3>4. OneReport' /\ CameraIsTheirs' /\ ProviderUntold' /\ SuccessIsEarned'
      BY <1>1, <3>1 DEF FaceInv, OneReport, CameraIsTheirs, Looking, ProviderUntold, SuccessIsEarned
    <3> QED
      BY <3>2, <3>3, <3>4 DEF FaceInv
  <2> QED
    BY <2>5, <2>6
<1> QED
  BY <1>2, <1>3

\* The service keeps what an attempt has when the provider asks it to start one.
LEMMA StartStep ==
  ASSUME FaceInv, AuthStart, UNCHANGED liveness,
         facePipe' \in {"gap", "listening", "unseen", "wedged"}, cp' \in {"idle", "polling", "hung", "over"},
         polls' \in 0..MaxPolls, UNCHANGED cpSuccess
  PROVE  FaceInv'
<1>1. /\ 0 \in 0..MaxAttempts /\ runner \in [0..MaxAttempts -> Runners]
      /\ attempt \in [Attempts -> {"none", "start", "opening", "frames", "over"}]
      /\ \A t \in Attempts : t \in 0..MaxAttempts /\ t # 0
  BY FaceConstants DEF FaceInv, FaceTypeOK, Attempts
<1>2. PICK done \in BOOLEAN, verdict \in {"none", "locked"} :
        runner' = [runner EXCEPT ![0].done = done, ![0].verdict = verdict]
  BY DEF AuthStart
<1> DEFINE told == [runner[0] EXCEPT !.done = done, !.verdict = verdict]
<1>3. runner[0] \in Runners
  BY <1>1
<1>4. told \in Runners /\ told.verdict # "ok"
  BY <1>3 DEF Runners, Verdicts
<1>5. runner' = [runner EXCEPT ![0] = told]
  <2>1. [runner EXCEPT ![0].done = done, ![0].verdict = verdict] = [runner EXCEPT ![0] = told]
    BY <1>1, <1>3 DEF Runners
  <2> QED
    BY <1>2, <2>1
<1> HIDE DEF told
<1>6. /\ runner' \in [0..MaxAttempts -> Runners] /\ runner'[0] = told
      /\ \A t \in Attempts : runner'[t] = runner[t]
  BY <1>1, <1>4, <1>5
<1>7. UNCHANGED <<faceSession, camera, earned>>
  BY DEF AuthStart
<1>8. /\ attempt' \in [Attempts -> {"none", "start", "opening", "frames", "over"}]
      /\ \A t \in Attempts : attempt'[t] = attempt[t] \/ (attempt[t] = "none" /\ attempt'[t] = "start")
  BY <1>1 DEF AuthStart
<1>9. \A t \in Attempts : /\ attempt'[t] = "over" <=> attempt[t] = "over"
                          /\ Looking(t)' <=> Looking(t)
  BY <1>8 DEF Looking
<1>10. FaceTypeOK'
  BY <1>6, <1>7, <1>8 DEF FaceInv, FaceTypeOK
<1>11. OneReport' /\ SuccessIsEarned'
  BY <1>6, <1>7, <1>9 DEF FaceInv, OneReport, SuccessIsEarned
<1>12. ChallengeOpen' /\ CameraIsTheirs'
  BY <1>7, <1>9 DEF FaceInv, ChallengeOpen, CameraIsTheirs
<1>13. ProviderUntold'
  BY <1>4, <1>6 DEF FaceInv, ProviderUntold
<1> QED
  BY <1>10, <1>11, <1>12, <1>13 DEF FaceInv

\* The service stands still: a step of the pipe or of the provider alone.
LEMMA ServerStands ==
  ASSUME FaceInv, UNCHANGED <<runner, attempt, faceSession, camera, earned>>, UNCHANGED liveness,
         facePipe' \in {"gap", "listening", "unseen", "wedged"}, cp' \in {"idle", "polling", "hung", "over"},
         polls' \in 0..MaxPolls, cpSuccess' = cpSuccess \/ cpSuccess' = FALSE \/ cpSuccess' = (runner[0].verdict = "ok")
  PROVE  FaceInv'
<1>1. cpSuccess' = FALSE
  BY DEF FaceInv, ProviderUntold, FaceTypeOK
<1>2. FaceTypeOK'
  BY <1>1 DEF FaceInv, FaceTypeOK
<1>3. OneReport' /\ SuccessIsEarned' /\ CameraIsTheirs'
  BY DEF FaceInv, OneReport, SuccessIsEarned, CameraIsTheirs, Looking
<1>4. ChallengeOpen' /\ ProviderUntold'
  BY <1>1 DEF FaceInv, ChallengeOpen, ProviderUntold, Looking
<1> QED
  BY <1>2, <1>3, <1>4 DEF FaceInv

\* A request: it is handled, waits unseen or finds no server.
LEMMA ProviderStep ==
  ASSUME FaceInv, CpStart \/ CpPoll \/ NewCredential \/ PipeCycle
  PROVE  FaceInv'
<1> USE DEF faceServerVars
<1>1. /\ FaceTypeOK /\ MaxPolls \in Nat
      /\ facePipe \in {"gap", "listening", "unseen", "wedged"} /\ polls \in 0..MaxPolls
      /\ cp \in {"idle", "polling", "hung", "over"} /\ 0 \in 0..MaxPolls
  BY FaceConstants DEF FaceInv, FaceTypeOK
<1>2. CASE CpStart
  <2>1. \/ /\ facePipe' = "gap" /\ AuthStart /\ cp' = "polling" /\ polls' = 0 /\ UNCHANGED cpSuccess
        \/ /\ facePipe' = "unseen" /\ cp' = "hung"
           /\ UNCHANGED <<polls, cpSuccess, runner, attempt, faceSession, camera, earned>>
        \/ /\ cp' = "over"
           /\ UNCHANGED <<facePipe, polls, cpSuccess, runner, attempt, faceSession, camera, earned>>
    BY <1>2 DEF CpStart, Send
  <2>2. UNCHANGED liveness
    BY <1>2 DEF CpStart
  <2>3. CASE facePipe' = "gap" /\ AuthStart /\ cp' = "polling" /\ polls' = 0 /\ UNCHANGED cpSuccess
    BY <1>1, <2>2, <2>3, StartStep
  <2>4. CASE /\ facePipe' = "unseen" /\ cp' = "hung"
             /\ UNCHANGED <<polls, cpSuccess, runner, attempt, faceSession, camera, earned>>
    BY <1>1, <2>2, <2>4, ServerStands
  <2>5. CASE /\ cp' = "over"
             /\ UNCHANGED <<facePipe, polls, cpSuccess, runner, attempt, faceSession, camera, earned>>
    BY <1>1, <2>2, <2>5, ServerStands
  <2> QED
    BY <2>1, <2>3, <2>4, <2>5
<1>3. CASE CpPoll
  <2>1. polls < MaxPolls /\ UNCHANGED liveness
    BY <1>3 DEF CpPoll
  <2>2. UNCHANGED <<runner, attempt, faceSession, camera, earned>>
    BY <1>3 DEF CpPoll, Send
  <2>3. /\ facePipe' \in {"gap", "listening", "unseen", "wedged"} /\ cp' \in {"idle", "polling", "hung", "over"}
        /\ polls' \in {polls, polls + 1}
        /\ cpSuccess' = cpSuccess \/ cpSuccess' = (runner[0].verdict = "ok")
    BY <1>1, <1>3 DEF CpPoll, Send
  <2>4. polls' \in 0..MaxPolls
    BY <1>1, <2>1, <2>3
  <2> QED
    BY <2>1, <2>2, <2>3, <2>4, ServerStands
<1>4. CASE NewCredential
  <2>1. /\ UNCHANGED <<liveness, runner, attempt, faceSession, camera, earned>>
        /\ cp' = "idle" /\ cpSuccess' = FALSE /\ polls' = 0
        /\ facePipe' \in {"gap", "listening", "unseen", "wedged"}
    BY <1>1, <1>4 DEF NewCredential
  <2> QED
    BY <1>1, <2>1, ServerStands
<1>5. CASE PipeCycle
  <2>1. /\ UNCHANGED <<liveness, cp, polls, cpSuccess, runner, attempt, faceSession, camera, earned>>
        /\ facePipe' \in {"gap", "listening"}
    BY <1>5 DEF PipeCycle
  <2> QED
    BY <1>1, <2>1, ServerStands
<1> QED
  BY <1>2, <1>3, <1>4, <1>5

LEMMA FaceInductive == FaceSpec => []FaceInv
<1>1. FaceInit => FaceInv
  <2> SUFFICES ASSUME FaceInit PROVE FaceInv
    OBVIOUS
  <2>1. /\ 0 \in 0..MaxPolls
        /\ \A t \in Attempts : t \in 0..MaxAttempts /\ t # Free
        /\ 0 \in 0..MaxAttempts
    BY FaceConstants DEF Attempts, Free
  <2> DEFINE fresh == [done |-> TRUE, verdict |-> "none", fails |-> 0]
             session == [phase |-> "recognize", challenge |-> "blink1", closed |-> FALSE, count |-> 0]
  <2>2. fresh \in Runners /\ session \in Sessions
    BY DEF Runners, Verdicts, LockoutFails, Sessions, Challenges
  <2>3. /\ runner = [r \in 0..MaxAttempts |-> fresh] /\ faceSession = [t \in Attempts |-> session]
        /\ fresh.fails = 0 /\ fresh.verdict = "none"
    BY DEF FaceInit
  <2> HIDE DEF fresh, session
  <2>4. FaceTypeOK
    BY <2>1, <2>2, <2>3 DEF FaceInit, FaceTypeOK
  <2>5. \A r \in 0..MaxAttempts : runner[r].fails = 0 /\ runner[r].verdict = "none"
    BY <2>3
  <2>6. \A t \in Attempts : attempt[t] = "none" /\ camera # t
    BY <2>1 DEF FaceInit
  <2>7. OneReport /\ SuccessIsEarned
    BY <2>1, <2>5 DEF OneReport, SuccessIsEarned
  <2>8. ChallengeOpen /\ CameraIsTheirs
    BY <2>6 DEF ChallengeOpen, CameraIsTheirs, Looking
  <2>9. ProviderUntold
    BY <2>1, <2>5 DEF ProviderUntold, FaceInit
  <2> QED
    BY <2>4, <2>7, <2>8, <2>9 DEF FaceInv
<1>2. FaceInv /\ [FaceNext]_faceVars => FaceInv'
  <2> SUFFICES ASSUME FaceInv, [FaceNext]_faceVars PROVE FaceInv'
    OBVIOUS
  <2>1. CASE UNCHANGED faceVars
    <3>1. UNCHANGED <<liveness, facePipe, cp, polls, cpSuccess, runner, attempt, faceSession, camera, earned>>
      BY <2>1 DEF faceVars, faceServerVars
    <3>2. /\ facePipe' \in {"gap", "listening", "unseen", "wedged"}
          /\ cp' \in {"idle", "polling", "hung", "over"} /\ polls' \in 0..MaxPolls
      BY <3>1 DEF FaceInv, FaceTypeOK
    <3> QED
      BY <3>1, <3>2, ServerStands
  <2>2. CASE CpStart \/ CpPoll \/ NewCredential \/ PipeCycle
    BY <2>2, ProviderStep
  <2>3. ASSUME NEW t \in Attempts, Begin(t) \/ OpenCamera(t) \/ Deadline(t) PROVE FaceInv'
    BY <2>3, BeginStep, OpenStep
  <2>4. ASSUME NEW t \in Attempts, NEW pose \in Poses \cup {NoFace}, Feed(t, pose) PROVE FaceInv'
    BY <2>4, FeedStep
  <2> QED
    BY <2>1, <2>2, <2>3, <2>4 DEF FaceNext
<1> QED
  BY <1>1, <1>2, PTL DEF FaceSpec

\* Every attempt, runner and session stays of its kind; a challenge counts to three.
THEOREM FaceTypeCorrect == FaceSpec => []FaceTypeOK
<1>1. FaceInv => FaceTypeOK
  BY DEF FaceInv
<1> QED
  BY <1>1, FaceInductive, PTL

\* An attempt succeeds only on a match that is similar enough and ahead of every other
\* user's templates, whatever the gallery, the thresholds and the frames.
THEOREM SuccessEarned == FaceSpec => []SuccessIsEarned
<1>1. FaceInv => SuccessIsEarned
  BY DEF FaceInv
<1> QED
  BY <1>1, FaceInductive, PTL

\* CAMERA_LOCK: the camera is held by the one attempt that opens it or reads its frames,
\* and by nobody once that attempt is over.
THEOREM CameraHeldByOne == FaceSpec => []CameraIsTheirs
<1>1. FaceInv => CameraIsTheirs
  BY DEF FaceInv
<1> QED
  BY <1>1, FaceInductive, PTL

\* start() runs an attempt with a runner of its own: the runner that auth_poll reads is
\* told of no success, and so the credential provider hears of none.
THEOREM ProviderHearsNoSuccess == FaceSpec => []ProviderUntold
<1>1. FaceInv => ProviderUntold
  BY DEF FaceInv
<1> QED
  BY <1>1, FaceInductive, PTL
================================================================================
