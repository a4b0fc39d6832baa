------------------------------ MODULE ServiceInstall ----------------------------
(***************************************************************************)
(* ensure_bridge_service and ensure_face_service (elevated.rs): they       *)
(* upgrade, repair or install the two services, as the one-shot helper of  *)
(* the scheduled task or inside the bridge service itself, beside the      *)
(* service control manager (install_service, remove_service_wait).         *)
(***************************************************************************)
EXTENDS Integers

CONSTANTS
  Candidate,     \* version of the bridge in LOCALAPPDATA, 0 for none
  MaxEnsures,    \* bound on requests
  MaxSvcFaults   \* bound on stops by a user, crashes and refused steps

ASSUME InstallAssumption ==
  /\ Candidate \in 0..2
  /\ {MaxEnsures, MaxSvcFaults} \subseteq Nat

\* Where a request is carried out. The service has no LOCALAPPDATA of the user.
Doors == {"pipe", "task"}
Found(d) == IF d = "task" THEN Candidate ELSE 0

VARIABLES
  bridge,       \* the entry and its process; "marked": deleted, the process still there
  restarts,     \* the failure actions are set
  crashed,      \* the process died without being asked to
  exeVersion,   \* the bridge under Program Files, 0 for none
  ensure,       \* per door: the step of its request
  ensured,      \* per door: the answer of its last request
  face, faceExe, faceCooldown,  \* the face service, its file, the pause after a repair
  steady,       \* history: per door, the bridge has been running since its request
  ensures, svcFaults

bridgeVars == <<bridge, restarts, crashed, exeVersion, ensure, ensured>>
faceSvcVars == <<face, faceExe, faceCooldown>>
serviceVars == <<bridgeVars, faceSvcVars, steady, ensures, svcFaults>>

Processes == {"starting", "running", "stopping", "marked"}   \* a process holds the file
ServiceTypeOK ==
  /\ bridge \in Processes \cup {"gone", "stopped"}
  /\ restarts \in BOOLEAN /\ crashed \in BOOLEAN /\ exeVersion \in 0..2
  /\ ensure \in [Doors -> {"idle", "upStop", "upWait", "upCopy", "upStart", "check", "refresh",
                           "remove", "delete", "create", "start"}]
  /\ ensured \in [Doors -> {"none", "ok", "error"}]
  /\ steady \in [Doors -> BOOLEAN]
  /\ face \in {"gone", "stopped", "pending", "running"}
  /\ faceExe \in BOOLEAN /\ faceCooldown \in BOOLEAN
  /\ ensures \in 0..MaxEnsures /\ svcFaults \in 0..MaxSvcFaults

ServiceInit ==
  /\ bridge = "running" /\ restarts = TRUE /\ crashed = FALSE /\ exeVersion = 1
  /\ ensure = [d \in Doors |-> "idle"] /\ ensured = [d \in Doors |-> "none"]
  /\ face = "gone" /\ faceExe = TRUE /\ faceCooldown = FALSE
  /\ steady = [d \in Doors |-> FALSE] /\ ensures = 0 /\ svcFaults = 0

InstallAt(d, step) == ensure[d] = step
To(d, step) == ensure' = [ensure EXCEPT ![d] = step] /\ UNCHANGED ensured
Done(d, out) == ensure' = [ensure EXCEPT ![d] = "idle"] /\ ensured' = [ensured EXCEPT ![d] = out]
SvcFault == svcFaults < MaxSvcFaults /\ svcFaults' = svcFaults + 1
ScStop == bridge' = IF bridge = "running" THEN "stopping" ELSE bridge
ScStart == bridge' = IF bridge = "stopped" THEN "starting" ELSE bridge
Rest == <<faceSvcVars, ensures>>

\* A request; over the pipe only while the bridge serves. A newer candidate of the helper's
\* user takes the way of the upgrade.
Ensure(d) ==
  /\ InstallAt(d, "idle") /\ ensures < MaxEnsures /\ ensures' = ensures + 1
  /\ d = "pipe" => bridge = "running"
  /\ To(d, IF Found(d) > exeVersion /\ exeVersion # 0 THEN "upStop" ELSE "check")
  /\ UNCHANGED <<bridge, restarts, crashed, exeVersion, faceSvcVars, svcFaults>>

UpgradeStops(d) ==
  /\ InstallAt(d, "upStop") /\ To(d, "upWait") /\ ScStop
  /\ UNCHANGED <<restarts, crashed, exeVersion, Rest, svcFaults>>
\* Up to 15 s for a state that is neither running nor stopping; then the process is killed,
\* which the control manager takes for a crash.
UpgradeWaits(d) ==
  /\ InstallAt(d, "upWait") /\ To(d, "upCopy")
  /\ \/ bridge \notin {"running", "stopping", "marked"} /\ UNCHANGED <<bridge, crashed>>
     \/ /\ bridge \in {"running", "stopping", "marked"} /\ crashed' = (bridge # "marked")
        /\ bridge' = IF bridge = "marked" THEN "gone" ELSE "stopped"
  /\ UNCHANGED <<restarts, exeVersion, Rest, svcFaults>>
UpgradeCopies(d) ==
  /\ InstallAt(d, "upCopy")
  /\ \/ bridge \notin Processes /\ exeVersion' = Found(d) /\ To(d, "upStart") /\ UNCHANGED svcFaults
     \/ bridge \in Processes /\ To(d, "check") /\ UNCHANGED <<exeVersion, svcFaults>>
     \/ SvcFault /\ To(d, "check") /\ UNCHANGED exeVersion
  /\ UNCHANGED <<bridge, restarts, crashed, Rest>>
UpgradeStarts(d) ==
  /\ InstallAt(d, "upStart") /\ Done(d, "ok") /\ ScStart
  /\ UNCHANGED <<restarts, crashed, exeVersion, Rest, svcFaults>>

\* A running bridge is left alone, whoever asks.
\* Mutant: the guard is forgotten, as it was before the code's "FIX 25".
LeavesNobodyAlone(d) == InstallAt(d, "check") /\ To(d, "refresh")
LeavesRunningAlone(d) ==
  InstallAt(d, "check") /\ IF bridge = "running" THEN Done(d, "ok") ELSE To(d, "refresh")
ChecksBridge(d) ==
  /\ LeavesRunningAlone(d)
  /\ UNCHANGED <<bridge, restarts, crashed, exeVersion, Rest, svcFaults>>

\* find_bridge_exe, and the copy under Program Files, which a process can prevent.
Refreshes(d) ==
  /\ InstallAt(d, "refresh")
  /\ LET source == IF Found(d) # 0 THEN Found(d) ELSE exeVersion IN
     IF source = 0
     THEN Done(d, "error") /\ UNCHANGED exeVersion
     ELSE To(d, "remove") /\ exeVersion' = IF bridge \in Processes THEN exeVersion ELSE source
  /\ UNCHANGED <<bridge, restarts, crashed, Rest, svcFaults>>

\* micontrol_bridge.exe install: remove_service_wait ...
Removes(d) ==
  /\ InstallAt(d, "remove") /\ To(d, "delete") /\ ScStop /\ restarts' = FALSE
  /\ UNCHANGED <<crashed, exeVersion, Rest, svcFaults>>
DeletesService(d) ==
  /\ InstallAt(d, "delete") /\ To(d, "create")
  /\ bridge' = IF bridge \in Processes THEN "marked" ELSE "gone"
  /\ UNCHANGED <<restarts, crashed, exeVersion, Rest, svcFaults>>
\* ... sc create, again and again while the old entry is being deleted, 30 times at most;
\* then the failure actions ...
Creates(d) ==
  /\ InstallAt(d, "create")
  /\ \/ /\ bridge = "gone" /\ bridge' = "stopped" /\ restarts' = TRUE /\ crashed' = FALSE
        /\ To(d, "start")
     \/ bridge # "gone" /\ Done(d, "error") /\ UNCHANGED <<bridge, restarts, crashed>>
  /\ UNCHANGED <<exeVersion, Rest, svcFaults>>
\* ... sc start: an error is forgiven if the service runs by then, not if it is starting.
Starts(d) ==
  /\ InstallAt(d, "start") /\ ScStart
  /\ Done(d, IF bridge \in {"stopped", "running"} THEN "ok" ELSE "error")
  /\ UNCHANGED <<restarts, crashed, exeVersion, Rest, svcFaults>>

\* A request inside the service dies with it, unless the installer is already a process of
\* its own.
DiesWithService ==
  /\ ensure["pipe"] \in {"check", "refresh"} /\ bridge \notin Processes
  /\ Done("pipe", "error")
  /\ UNCHANGED <<bridge, restarts, crashed, exeVersion, Rest, svcFaults>>

\* The control manager, a user who stops the service, a crash and what it is followed by.
ComesUp == bridge = "starting" /\ bridge' = "running" /\ UNCHANGED <<crashed, svcFaults>>
GoesDown ==
  /\ bridge \in {"stopping", "marked"} /\ UNCHANGED <<crashed, svcFaults>>
  /\ bridge' = IF bridge = "marked" THEN "gone" ELSE "stopped"
UserStops == SvcFault /\ bridge = "running" /\ bridge' = "stopping" /\ UNCHANGED crashed
Crashes == SvcFault /\ bridge = "running" /\ bridge' = "stopped" /\ crashed' = TRUE
Restarts ==
  /\ bridge = "stopped" /\ crashed /\ restarts /\ UNCHANGED svcFaults
  /\ bridge' = "starting" /\ crashed' = FALSE
Manager ==
  /\ ComesUp \/ GoesDown \/ UserStops \/ Crashes \/ Restarts
  /\ UNCHANGED <<restarts, exeVersion, ensure, ensured, Rest>>

\* ensure_face_service: a missing entry is made again if the file is there, within a process
\* at most every 10 minutes; a stopped or starting service is started.
FaceReinstalls(d) ==
  /\ face = "gone" /\ faceExe
  /\ d = "pipe" => ~faceCooldown
  /\ faceCooldown' = (faceCooldown \/ d = "pipe")
  /\ face' \in {"gone", "running"}
FaceRestarts ==
  /\ face \in {"stopped", "pending"} /\ face' \in {face, "running"} /\ UNCHANGED faceCooldown
EnsureFace(d) ==
  /\ ensures < MaxEnsures /\ ensures' = ensures + 1
  /\ d = "pipe" => bridge = "running"
  /\ FaceReinstalls(d) \/ FaceRestarts
  /\ UNCHANGED <<bridgeVars, faceExe, svcFaults>>
\* install_face_service by the user: the file is copied, an old service stopped or killed,
\* its entry changed or made again, and started.
InstallFace ==
  /\ ensures < MaxEnsures /\ ensures' = ensures + 1
  /\ faceExe' = TRUE /\ face' \in {face, "stopped", "running"}
  /\ UNCHANGED <<bridgeVars, faceCooldown, svcFaults>>
\* The face service starts slowly, stops, or is uninstalled; 10 minutes pass.
FaceMoves ==
  /\ \/ SvcFault /\ face' \in {"gone", "stopped", "pending"} /\ faceExe' \in BOOLEAN
        /\ UNCHANGED faceCooldown
     \/ faceCooldown /\ faceCooldown' = FALSE /\ UNCHANGED <<face, faceExe, svcFaults>>
  /\ UNCHANGED <<bridgeVars, ensures>>

ServiceStep ==
  \/ \E d \in Doors :
       \/ Ensure(d) \/ UpgradeStops(d) \/ UpgradeWaits(d) \/ UpgradeCopies(d) \/ UpgradeStarts(d)
       \/ ChecksBridge(d) \/ Refreshes(d) \/ Removes(d) \/ DeletesService(d) \/ Creates(d) \/ Starts(d)
       \/ EnsureFace(d)
  \/ DiesWithService \/ Manager \/ InstallFace \/ FaceMoves
KeepsSteady ==
  steady' = [d \in Doors |->
    /\ {bridge, bridge'} = {"running"} /\ ensure'[d] # "idle"
    /\ steady[d] \/ ensure[d] = "idle"]
ServiceNext == ServiceStep /\ KeepsSteady

ServiceSpec == ServiceInit /\ [][ServiceNext]_serviceVars

-----------------------------------------------------------------------------
(* Properties.                                                             *)

\* A bridge that has been running all the time since a request is never taken out of
\* service by that request, whether it carries the request out itself or the helper does,
\* and whatever the other door's request and the control manager do meanwhile
\* (install_bridge_service).
RunningBridgeIsKept ==
  \A d \in Doors : steady[d] => ensure[d] \in {"upStop", "check"}
==================================================================================
