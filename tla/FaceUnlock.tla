------------------------------- MODULE FaceUnlock -------------------------------
(***************************************************************************)
(* Signing in with the face: the credential provider in LogonUI (cp/) asks *)
(* the face service (bin/micontrol_face_svc.rs) over a pipe with a single      *)
(* instance (hw/face/pipe_server.rs) to authenticate, and polls it. Each   *)
(* attempt is a thread of the service with the camera, a liveness          *)
(* challenge (hw/face/liveness.rs) and a match against the gallery         *)
(* (hw/face/service.rs, matcher.rs).                                       *)
(***************************************************************************)
EXTENDS Naturals, Sequences

CONSTANTS Gallery,      \* the names of the enrolled templates, in order
          Similarities, \* the values a similarity can have
          Threshold, Margin, \* match_threshold and match_margin, on that scale
          MaxAttempts,  \* bound on attempts
          MaxPolls,     \* the 40 polls of the credential provider
          FaceGap       \* a client may come while no ConnectNamedPipe is pending

ASSUME FaceAssumption == /\ Gallery \in Seq(STRING) /\ Similarities \subseteq Nat
                         /\ {Threshold, Margin, MaxAttempts, MaxPolls} \subseteq Nat
                         /\ FaceGap \in BOOLEAN

LockoutFails == 5
Attempts == 1..MaxAttempts
Free == 0
Challenges == {"blink1", "blink2", "turn_left", "turn_right"}
Poses == {"front", "tilt", "left", "right"}
NoFace == "none"             \* no face, several of them, or a detector error

VARIABLES
  liveness,    \* liveness_enabled
  facePipe,    \* gap (no connect pending), listening, unseen, wedged
  cp,          \* the credential: idle, polling, hung, over
  polls, cpSuccess,
  runner,      \* AuthRunner 0 of the service, and one that each attempt makes
  attempt,     \* per attempt: none, start, opening, frames, over
  faceSession, \* per attempt: its AuthSession
  camera,      \* the attempt that holds CAMERA_LOCK
  earned       \* history, per attempt: its success is one a reader would grant

faceServerVars == <<runner, attempt, faceSession, camera, earned>>
faceVars == <<liveness, facePipe, cp, polls, cpSuccess, faceServerVars>>

Verdicts == {"none", "ok", "locked", "mismatch", "no_face", "no_enrolled", "error"}
Runners == [done : BOOLEAN, verdict : Verdicts, fails : 0..LockoutFails]
Sessions == [phase : {"liveness", "recognize"}, challenge : Challenges,
             closed : BOOLEAN, count : 0..3]

FaceTypeOK ==
  /\ liveness \in BOOLEAN /\ facePipe \in {"gap", "listening", "unseen", "wedged"}
  /\ cp \in {"idle", "polling", "hung", "over"} /\ polls \in 0..MaxPolls /\ cpSuccess \in BOOLEAN
  /\ runner \in [0..MaxAttempts -> Runners]
  /\ attempt \in [Attempts -> {"none", "start", "opening", "frames", "over"}]
  /\ faceSession \in [Attempts -> Sessions]
  /\ camera \in {Free} \cup Attempts /\ earned \in [Attempts -> BOOLEAN]

FaceInit ==
  /\ liveness \in BOOLEAN /\ facePipe = "gap" /\ cp = "idle" /\ polls = 0 /\ cpSuccess = FALSE
  /\ runner = [r \in 0..MaxAttempts |-> [done |-> TRUE, verdict |-> "none", fails |-> 0]]
  /\ attempt = [t \in Attempts |-> "none"]
  /\ faceSession = [t \in Attempts |-> [phase |-> "recognize", challenge |-> "blink1",
                                    closed |-> FALSE, count |-> 0]]
  /\ camera = Free /\ earned = [t \in Attempts |-> FALSE]

-----------------------------------------------------------------------------
(* The matcher.                                                            *)

Templates == DOMAIN Gallery
Others(i) == {j \in Templates : Gallery[j] # Gallery[i]}
MaxOf(S) == CHOOSE x \in S : \A y \in S : y <= x

\* best_match_with_margin: the first best template, and its lead over the best
\* template of another name (MarginOk).
BestMatch(sims) ==
  CHOOSE i \in Templates : /\ \A j \in Templates : sims[j] <= sims[i]
                           /\ \A j \in 1..(i - 1) : sims[j] < sims[i]

\* Mutant: a margin taken to the first other name only.
MarginOkFirstRival(sims, i) ==
  Others(i) # {} => sims[i] >= sims[CHOOSE j \in Others(i) : \A k \in Others(i) : j <= k] + Margin

MarginOk(sims, i) ==
  Others(i) # {} => sims[i] >= MaxOf({sims[j] : j \in Others(i)}) + Margin
Matched(sims) == LET i == BestMatch(sims) IN sims[i] >= Threshold /\ MarginOk(sims, i)

\* What a reader of the settings expects of a success: a template of one user that is
\* similar enough, and every template of every other user behind it by the margin.
ClearMatch(sims) ==
  \E i \in Templates : /\ sims[i] >= Threshold
                       /\ \A j \in Others(i) : sims[j] + Margin <= sims[i]

-----------------------------------------------------------------------------
(* The service.                                                            *)

\* The AuthRunner an attempt reports to: one that start() makes for it.
RunnerOf(t) == t

\* auth_start in the pipe thread: the runner of the service is reset, a thread begins.
AuthStart ==
  IF runner[0].fails >= LockoutFails
  THEN /\ runner' = [runner EXCEPT ![0].done = TRUE, ![0].verdict = "locked"]
       /\ UNCHANGED <<attempt, faceSession, camera, earned>>
  ELSE \E t \in Attempts :
    /\ attempt[t] = "none" /\ \A u \in 1..(t - 1) : attempt[u] # "none"
    /\ attempt' = [attempt EXCEPT ![t] = "start"]
    /\ runner' = [runner EXCEPT ![0].done = FALSE, ![0].verdict = "none"]
    /\ UNCHANGED <<faceSession, camera, earned>>

\* The end of run_auth_once: the verdict goes to the attempt's runner, failures count.
Report(t, verdict) ==
  /\ attempt' = [attempt EXCEPT ![t] = "over"]
  /\ runner' = [runner EXCEPT ![RunnerOf(t)] =
       [done |-> TRUE, verdict |-> verdict,
        fails |-> CASE verdict = "ok" -> 0
                    [] verdict \in {"mismatch", "no_face"} -> @.fails + 1
                    [] OTHER -> @.fails]]

\* The camera is dropped with the loop.
Leave(t, verdict) == Report(t, verdict) /\ camera' = Free

\* The store, a session of its own with a random challenge, and CAMERA_LOCK; without a
\* gallery, the models or the lock the attempt is over.
Begin(t) ==
  /\ attempt[t] = "start"
  /\ \/ Report(t, "error") /\ UNCHANGED <<faceSession, camera>>
     \/ Gallery = <<>> /\ Report(t, "no_enrolled") /\ UNCHANGED <<faceSession, camera>>
     \/ /\ Gallery # <<>> /\ camera = Free /\ camera' = t
        /\ \E c \in Challenges : faceSession' = [faceSession EXCEPT ![t] =
             [phase |-> IF liveness THEN "liveness" ELSE "recognize", challenge |-> c,
              closed |-> FALSE, count |-> 0]]
        /\ attempt' = [attempt EXCEPT ![t] = "opening"] /\ UNCHANGED runner
     \/ camera # Free /\ Report(t, "error") /\ UNCHANGED <<faceSession, camera>>
  /\ UNCHANGED <<liveness, facePipe, cp, polls, cpSuccess, earned>>

\* Camera::open tries for 8 s and gives the lock back when it fails.
OpenFails(t) == Leave(t, "error")
OpenCamera(t) ==
  /\ attempt[t] = "opening"
  /\ \/ attempt' = [attempt EXCEPT ![t] = "frames"] /\ UNCHANGED <<runner, camera>>
     \/ OpenFails(t)
  /\ UNCHANGED <<liveness, facePipe, cp, polls, cpSuccess, faceSession, earned>>

\* LivenessState::update on the pose that estimate_pose_metrics takes from the keypoints:
\* eyes count as closed when the head is turned, a turn past 0.2 is left or right.
Closed(pose) == pose \in {"tilt", "left", "right"}
Challenged(s, pose) ==
  CASE s.challenge \in {"blink1", "blink2"} ->
         [s EXCEPT !.closed = Closed(pose),
                   !.count = IF s.closed /\ ~Closed(pose) THEN @ + 1 ELSE @]
    [] s.challenge = "turn_left" -> [s EXCEPT !.count = IF pose = "left" THEN @ + 1 ELSE 0]
    [] OTHER -> [s EXCEPT !.count = IF pose = "right" THEN @ + 1 ELSE 0]
ChallengeMet(s) ==
  s.count >= CASE s.challenge = "blink1" -> 1 [] s.challenge = "blink2" -> 2 [] OTHER -> 3

\* The embedding is computed only for a session that recognizes already.
HasEmbedding(t, pose) == pose # NoFace /\ faceSession[t].phase = "recognize"

\* AuthSession::feed in its Recognize phase, on the same frame that met the challenge.
Recognize(t, pose) ==
  IF ~HasEmbedding(t, pose)
  THEN Leave(t, "no_face") /\ UNCHANGED earned
  ELSE \E sims \in [Templates -> Similarities] :
         /\ Leave(t, IF Matched(sims) THEN "ok" ELSE "mismatch")
         /\ earned' = [earned EXCEPT ![t] = ClearMatch(sims)
                                              /\ (liveness => ChallengeMet(faceSession'[t]))]
Feed(t, pose) ==
  /\ attempt[t] = "frames"
  /\ IF faceSession[t].phase = "recognize"
     THEN UNCHANGED faceSession /\ Recognize(t, pose)
     ELSE LET s == Challenged(faceSession[t], pose) IN
          /\ faceSession' = [faceSession EXCEPT ![t] = s]
          /\ IF ChallengeMet(s) THEN Recognize(t, pose)
             ELSE UNCHANGED <<runner, attempt, camera, earned>>
  /\ UNCHANGED <<liveness, facePipe, cp, polls, cpSuccess>>

\* 25 s without a verdict.
Deadline(t) ==
  /\ attempt[t] = "frames" /\ Leave(t, "error")
  /\ UNCHANGED <<liveness, facePipe, cp, polls, cpSuccess, faceSession, earned>>

\* serve_one: every 500 ms the pending connect is cancelled and made again. A client
\* that came in between is not noticed; when it has gone the instance stays in that
\* state, for nobody disconnects it.
PipeCycle ==
  /\ \/ facePipe = "gap" /\ facePipe' = "listening"
     \/ facePipe = "listening" /\ facePipe' = "gap"
  /\ UNCHANGED <<liveness, cp, polls, cpSuccess, faceServerVars>>

-----------------------------------------------------------------------------
(* The credential provider.                                                *)

\* pipe_client::send: the request is handled at once, waits unseen, or finds no server.
Send(request) ==
  \/ facePipe = "listening" /\ request /\ facePipe' = "gap"
  \/ /\ facePipe = "gap" /\ FaceGap
     /\ facePipe' = "unseen" /\ cp' = "hung" /\ UNCHANGED <<polls, cpSuccess, faceServerVars>>
  \/ /\ facePipe \in {"unseen", "wedged"}
     /\ cp' = "over" /\ UNCHANGED <<facePipe, polls, cpSuccess, faceServerVars>>

\* run_auth_thread, once per credential.
CpStart ==
  /\ cp = "idle"
  /\ Send(AuthStart /\ cp' = "polling" /\ polls' = 0 /\ UNCHANGED cpSuccess)
  /\ UNCHANGED liveness
CpPoll ==
  /\ cp = "polling" /\ polls < MaxPolls
  /\ Send(/\ polls' = polls + 1
          /\ IF runner[0].done
             THEN cp' = "over" /\ cpSuccess' = (runner[0].verdict = "ok")
             ELSE cp' = (IF polls' = MaxPolls THEN "over" ELSE "polling") /\ UNCHANGED cpSuccess
          /\ UNCHANGED faceServerVars)
  /\ UNCHANGED liveness

\* LogonUI makes new credentials; a thread that hangs goes with its process.
NewCredential ==
  /\ cp \in {"over", "hung"} /\ \E t \in Attempts : attempt[t] = "none"
  /\ cp' = "idle" /\ cpSuccess' = FALSE /\ polls' = 0
  /\ facePipe' = IF cp = "hung" THEN "wedged" ELSE facePipe
  /\ UNCHANGED <<liveness, faceServerVars>>

FaceNext ==
  \/ PipeCycle \/ CpStart \/ CpPoll \/ NewCredential
  \/ \E t \in Attempts : \/ Begin(t) \/ OpenCamera(t) \/ Deadline(t)
                         \/ \E pose \in Poses \cup {NoFace} : Feed(t, pose)

FaceSpec == FaceInit /\ [][FaceNext]_faceVars

-----------------------------------------------------------------------------
(* Properties.                                                             *)

\* An attempt succeeds only on a match that is similar enough and ahead of every other
\* user's templates by the margin, and after its challenge where liveness is on
\* (best_match_with_margin and AuthSession::feed).
SuccessIsEarned == \A t \in Attempts : runner[t].verdict = "ok" => earned[t]
=============================================================================
