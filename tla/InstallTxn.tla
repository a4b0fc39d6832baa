------------------------------ MODULE InstallTxn ------------------------------
(***************************************************************************)
(* The transaction the permanent setup shell runs to install or update     *)
(* miPC (src-tauri/shell/src/install.rs): extract the payload into a       *)
(* staging directory, stop everything, copy the installed files into a     *)
(* backup directory, move the staged entries over the live ones, run the   *)
(* install points, verify, and either roll back from the backup or commit  *)
(* by deleting it.  A backup directory found at the next start means the   *)
(* previous run died; recover_interrupted puts it back first.              *)
(*                                                                         *)
(* Files are abstracted to the release they come from.  The top-level      *)
(* entries of the three directories are functions from entries to content. *)
(* Loops over a directory visit its entries in any order.                  *)
(***************************************************************************)
EXTENDS Integers

CONSTANTS
  Items,        \* top-level entries of the install directory
  Critical,     \* the entries backup_critical copies
  Dirs,         \* the entries that are directories: not removed in one step
  Setup,        \* the entry of the shell itself, in any letter case
  Main, Ecram, Bridge, Face,   \* the four executables
  Installs,     \* the sets of entries a machine may start with
  Payloads,     \* the sets of top-level entries a payload may stage
  MaxRuns,      \* bound: runs of the shell
  Faults,       \* phases in which the operating system may fail the shell
  CrashPoints,  \* phases in which power may be lost
  KillPoints,   \* phases in which the shell alone may be killed
  LaunchPoints, \* phases in which the user, the Run key or the SCM may
                \* start one of the executables
  None          \* no entry

Roles == {Main, Ecram, Bridge, Face}

Absent == 0     \* no such entry (or, for a process, not running)
Torn   == -1    \* a partial copy, or a directory partly removed

ASSUME InstallAssumption ==
  /\ Critical \subseteq Items
  /\ Roles \subseteq Critical
  /\ Setup \in Items \ Critical
  /\ None \notin Items
  /\ Dirs \subseteq Items \ Roles
  /\ Installs \subseteq SUBSET Items
  /\ Payloads \subseteq SUBSET Items
  /\ MaxRuns \in Nat

VARIABLES
  live, backup, stage,   \* content of every entry of the three directories
  backupDir, stageDir,   \* do the hidden directories exist?
  running,               \* per executable: the release its process runs
  deployed,              \* the copy of ecram_service.exe in the DriverStore,
                         \* which is the image IoTSvc runs
  registered,            \* does the SCM know the MiControlBridge service?
  pc,                    \* phase of the shell, "idle" when none runs
  todo,                  \* entries the current loop has not visited yet
  item,                  \* the entry the current loop is working on
  failed, rbFailed,      \* StepReport: a required step (of the rollback) failed
  result,                \* how the last run of the shell ended
  release,               \* the release of the payload in flight
  runs,                  \* bound: runs so far
  base                   \* history: the installation in force, i.e. the files
                         \* as they were when the last run was decided

files == <<live, backup, stage, backupDir, stageDir>>
procs == <<running, deployed, registered>>
shell == <<pc, todo, item, failed, rbFailed, result, release, runs>>
vars  == <<files, procs, shell, base>>

Content == -1..(MaxRuns + 1)
Phases == {"idle", "recover", "recover_clean", "prepare", "extract", "stop",
           "backup", "swap", "drivers", "ecram", "task", "bridge", "face",
           "verify", "commit", "rb_stop", "rb_restore", "rb_bridge",
           "rb_ecram", "rb_task", "rb_verify", "rb_clean"}
Results == {"none", "ok", "aborted", "rolledback", "partial", "crashed"}

Entries(dir) == {i \in Items : dir[i] # Absent}
Empty == [i \in Items |-> Absent]
Stopped == [r \in Roles |-> Absent]

\* The name filter of swap_staged and restore_backup.
UnfilteredSkip == {}

Skipped == {Setup}

Init ==
  /\ \E S \in Installs :
       /\ live = [i \in Items |-> IF i \in S THEN 1 ELSE Absent]
       /\ running = [r \in Roles |-> IF r \in S THEN 1 ELSE Absent]
       /\ deployed = live[Ecram]
       /\ registered = (Bridge \in S)
  /\ backup = Empty /\ stage = Empty
  /\ backupDir = FALSE /\ stageDir = FALSE
  /\ pc = "idle" /\ todo = {} /\ item = None
  /\ failed = FALSE /\ rbFailed = FALSE
  /\ result = "none" /\ release = 1 /\ runs = 0
  /\ base = live

\* The run ends with outcome r.
Close(r) == /\ pc' = "idle" /\ result' = r /\ todo' = {} /\ item' = None
            /\ UNCHANGED <<failed, rbFailed, release, runs>>

Goto(p) == /\ pc' = p
           /\ UNCHANGED <<todo, item, failed, rbFailed, result, release, runs>>

-----------------------------------------------------------------------------
(* Start of a run, recovery of an interrupted one.                         *)

StartRunNoRecovery ==
  /\ pc = "idle" /\ runs < MaxRuns
  /\ runs' = runs + 1
  /\ result' = "none" /\ failed' = FALSE /\ rbFailed' = FALSE
  /\ pc' = "recover_clean" /\ todo' = {} /\ item' = None
  /\ UNCHANGED <<files, procs, release, base>>

StartRun ==
  /\ pc = "idle" /\ runs < MaxRuns
  /\ runs' = runs + 1
  /\ result' = "none" /\ failed' = FALSE /\ rbFailed' = FALSE
  /\ IF backupDir
       THEN pc' = "recover" /\ todo' = Entries(backup) \ Skipped
       ELSE pc' = "recover_clean" /\ todo' = {}
  /\ item' = None
  /\ UNCHANGED <<files, procs, release, base>>

\* Removal of the backup directory, entry by entry; a directory in it is
\* emptied before it goes.
Deleting == pc \in {"recover_clean", "commit", "rb_clean"}

DeleteTear(i) ==
  /\ Deleting /\ i \in Dirs /\ backup[i] \notin {Absent, Torn}
  /\ backup' = [backup EXCEPT ![i] = Torn]
  /\ UNCHANGED <<live, stage, backupDir, stageDir, procs, shell, base>>

DeleteEntry(i) ==
  /\ Deleting /\ backup[i] # Absent
  /\ (i \in Dirs => backup[i] = Torn)
  /\ backup' = [backup EXCEPT ![i] = Absent]
  /\ UNCHANGED <<live, stage, backupDir, stageDir, procs, shell, base>>

\* The backup is gone, or its removal failed, which nobody looks at; then the
\* staging directory goes too and the run proceeds.
DropStage == stage' = Empty /\ stageDir' = FALSE

Deleted ==
  \/ Entries(backup) = {} /\ backupDir' = FALSE
  \/ pc \in Faults /\ Entries(backup) # {} /\ UNCHANGED backupDir

RecoverCleaned ==
  /\ pc = "recover_clean" /\ Deleted /\ DropStage
  /\ Goto("prepare")
  /\ UNCHANGED <<live, backup, procs, base>>

\* Resolution, preflight, version and signature checks refuse the payload:
\* the run ends before anything is stopped.
RejectPayload ==
  /\ pc = "prepare"
  /\ Close("aborted")
  /\ UNCHANGED <<files, procs, base>>

\* An accepted payload is extracted into a fresh staging directory.
AcceptPayload ==
  /\ pc = "prepare"
  /\ \E P \in Payloads : todo' = P
  /\ release' = release + 1
  /\ stage' = Empty /\ stageDir' = TRUE
  /\ pc' = "extract"
  /\ UNCHANGED <<live, backup, backupDir, procs, item, failed, rbFailed,
                 result, runs, base>>

ExtractEntry(i) ==
  /\ pc = "extract" /\ i \in todo
  /\ stage' = [stage EXCEPT ![i] = release]
  /\ todo' = todo \ {i}
  /\ UNCHANGED <<live, backup, backupDir, stageDir, procs, pc, item, failed,
                 rbFailed, result, release, runs, base>>

\* A corrupt entry, a full disk, or no micontrol.exe in what was staged.
ExtractFail ==
  /\ pc = "extract"
  /\ "extract" \in Faults \/ (todo = {} /\ stage[Main] = Absent)
  /\ DropStage /\ Close("aborted")
  /\ UNCHANGED <<live, backup, backupDir, procs, base>>

Extracted ==
  /\ pc = "extract" /\ todo = {} /\ stage[Main] # Absent
  /\ Goto("stop")
  /\ UNCHANGED <<files, procs, base>>

-----------------------------------------------------------------------------
(* stop_everything, before the swap and again before a rollback.           *)

\* After the stop the backup directory is created anew; a leftover whose
\* removal failed earlier is removed first.
StopOk ==
  /\ pc = "stop"
  /\ running' = Stopped
  /\ backup' = Empty /\ backupDir' = TRUE
  /\ todo' = Entries(live) \cap Critical
  /\ pc' = "backup"
  /\ UNCHANGED <<live, stage, stageDir, deployed, registered, item, failed,
                 rbFailed, result, release, runs, base>>

\* The leftover cannot be removed entirely, or the directory not created: the
\* backup has failed before its first copy.
BackupBlocked ==
  /\ pc = "stop" /\ "backup" \in Faults
  /\ running' = Stopped
  /\ \E S \in SUBSET Entries(backup) :
       backup' = [i \in Items |-> IF i \in S THEN backup[i] ELSE Absent]
  /\ failed' = TRUE
  /\ todo' = Entries(stage) \ Skipped
  /\ pc' = "swap"
  /\ UNCHANGED <<live, stage, backupDir, stageDir, deployed, registered, item, rbFailed, result, release,
                 runs, base>>

\* Some process outlives its bounded wait.  Before the swap this aborts the
\* run; in a rollback it is only recorded.
SomeSurvive ==
  \E S \in SUBSET {r \in Roles : running[r] # Absent} :
    /\ S # {}
    /\ running' = [r \in Roles |-> IF r \in S THEN running[r] ELSE Absent]

StopFail ==
  /\ pc = "stop" /\ "stop" \in Faults
  /\ SomeSurvive /\ DropStage /\ Close("aborted")
  /\ UNCHANGED <<live, backup, backupDir, deployed, registered, base>>

RollbackWithoutStop ==
  /\ pc = "rb_stop"
  /\ pc' = "rb_restore"
  /\ todo' = Entries(backup) \ Skipped
  /\ UNCHANGED <<files, procs, item, failed, rbFailed, result, release, runs,
                 base>>

RollbackStop ==
  /\ pc = "rb_stop"
  /\ \/ running' = Stopped /\ UNCHANGED rbFailed
     \/ "rb_stop" \in Faults /\ SomeSurvive /\ rbFailed' = TRUE
  /\ pc' = "rb_restore"
  /\ todo' = Entries(backup) \ Skipped
  /\ UNCHANGED <<files, deployed, registered, item, failed, result, release,
                 runs, base>>

-----------------------------------------------------------------------------
(* backup_critical: copy each installed critical entry.                    *)

CopyBegin(i) ==
  /\ pc = "backup" /\ item = None /\ i \in todo
  /\ item' = i /\ todo' = todo \ {i}
  /\ backup' = [backup EXCEPT ![i] = Torn]
  /\ UNCHANGED <<live, stage, backupDir, stageDir, procs, pc, failed,
                 rbFailed, result, release, runs, base>>

CopyEnd ==
  /\ pc = "backup" /\ item # None
  /\ backup' = [backup EXCEPT ![item] = live[item]]
  /\ item' = None
  /\ UNCHANGED <<live, stage, backupDir, stageDir, procs, pc, todo, failed,
                 rbFailed, result, release, runs, base>>

\* The step's error is recorded, and the swap runs all the same: StepReport
\* does not short-circuit.
BackupDone ==
  /\ pc = "backup"
  /\ \/ todo = {} /\ item = None /\ UNCHANGED failed
     \/ "backup" \in Faults /\ failed' = TRUE
  /\ pc' = "swap" /\ item' = None
  /\ todo' = Entries(stage) \ Skipped
  /\ UNCHANGED <<files, procs, rbFailed, result, release, runs, base>>

-----------------------------------------------------------------------------
(* The loop of swap_staged and restore_backup: per entry remove the live   *)
(* one, then rename the new one into its place.                            *)

Moving == pc \in {"swap", "recover", "rb_restore"}
Source == IF pc = "swap" THEN stage ELSE backup

\* The image of a running executable cannot be removed.  IoTSvc runs the copy
\* in the DriverStore, so ecram_service.exe itself is never in use.
Locked(i) == i \in Roles \ {Ecram} /\ running[i] # Absent

MoveBegin(i) ==
  /\ Moving /\ item = None /\ i \in todo
  /\ item' = i /\ todo' = todo \ {i}
  /\ live' = [live EXCEPT ![i] = IF i \in Dirs /\ @ # Absent THEN Torn ELSE @]
  /\ UNCHANGED <<backup, stage, backupDir, stageDir, procs, pc, failed,
                 rbFailed, result, release, runs, base>>

MoveRemove ==
  /\ Moving /\ item # None /\ live[item] # Absent /\ ~Locked(item)
  /\ live' = [live EXCEPT ![item] = Absent]
  /\ UNCHANGED <<backup, stage, backupDir, stageDir, procs, shell, base>>

MoveRename ==
  /\ Moving /\ item # None /\ live[item] = Absent
  /\ live' = [live EXCEPT ![item] = Source[item]]
  /\ IF pc = "swap"
       THEN stage' = [stage EXCEPT ![item] = Absent] /\ UNCHANGED backup
       ELSE backup' = [backup EXCEPT ![item] = Absent] /\ UNCHANGED stage
  /\ item' = None
  /\ UNCHANGED <<backupDir, stageDir, procs, pc, todo, failed, rbFailed,
                 result, release, runs, base>>

\* A removal or a rename fails: the rest of the loop is skipped.  A rollback
\* also fails when there is no backup directory to read.
NoBackup == pc = "rb_restore" /\ ~backupDir

MoveError == \/ NoBackup
             \/ /\ item # None
                /\ pc \in Faults \/ (live[item] # Absent /\ Locked(item))

MoveOk == todo = {} /\ item = None /\ ~NoBackup

SwapDone ==
  /\ pc = "swap"
  /\ \/ MoveOk /\ UNCHANGED failed
     \/ MoveError /\ failed' = TRUE
  /\ stageDir' = (Entries(stage) # {})
  /\ pc' = "drivers" /\ todo' = {} /\ item' = None
  /\ UNCHANGED <<live, backup, stage, backupDir, procs, rbFailed, result,
                 release, runs, base>>

\* A failed restore is a warning; the backup is deleted either way.
RecoverDone ==
  /\ pc = "recover" /\ (MoveOk \/ MoveError)
  /\ pc' = "recover_clean" /\ todo' = {} /\ item' = None
  /\ UNCHANGED <<files, procs, failed, rbFailed, result, release, runs, base>>

RestoreWithoutPoints ==
  /\ pc = "rb_restore"
  /\ \/ MoveOk /\ UNCHANGED rbFailed
     \/ MoveError /\ rbFailed' = TRUE
  /\ pc' = "rb_verify" /\ todo' = {} /\ item' = None
  /\ UNCHANGED <<files, procs, failed, result, release, runs, base>>

RestoreDone ==
  /\ pc = "rb_restore"
  /\ \/ MoveOk /\ UNCHANGED rbFailed
     \/ MoveError /\ rbFailed' = TRUE
  /\ pc' = "rb_bridge" /\ todo' = {} /\ item' = None
  /\ UNCHANGED <<files, procs, failed, result, release, runs, base>>

-----------------------------------------------------------------------------
(* Install points.                                                         *)

NextPointMissing ==
  [drivers |-> "ecram", ecram |-> "task", task |-> "bridge", bridge |-> "face",
   rb_bridge |-> "rb_ecram", rb_ecram |-> "rb_face", rb_task |-> "rb_verify"]

NextPoint ==
  [drivers |-> "ecram", ecram |-> "task", task |-> "bridge", bridge |-> "face",
   rb_bridge |-> "rb_ecram", rb_ecram |-> "rb_task", rb_task |-> "rb_verify"]

Record(err) ==
  IF pc \in {"rb_bridge", "rb_ecram", "rb_task", "rb_verify"}
    THEN rbFailed' = (rbFailed \/ err) /\ UNCHANGED failed
    ELSE failed' = (failed \/ err) /\ UNCHANGED rbFailed

Advance(p) == pc' = p /\ UNCHANGED <<todo, item, result, release, runs>>

\* Drivers and the scheduled task: no state of their own here.
StatelessPoint ==
  /\ pc \in {"drivers", "task", "rb_task"}
  /\ Record(FALSE) \/ (pc \in Faults /\ Record(TRUE))
  /\ Advance(NextPoint[pc])
  /\ UNCHANGED <<files, procs, base>>

\* deploy_ecram_service: without the executable it fails and touches nothing;
\* otherwise it stops IoTSvc, copies the executable over its image and creates
\* the service anew.  A failure leaves it stopped, whatever was copied.
EcramPoint ==
  /\ pc \in {"ecram", "rb_ecram"}
  /\ \/ live[Ecram] = Absent /\ UNCHANGED procs /\ Record(TRUE)
     \/ /\ live[Ecram] # Absent
        /\ deployed' = live[Ecram]
        /\ running' = [running EXCEPT ![Ecram] = live[Ecram]]
        /\ UNCHANGED registered
        /\ Record(FALSE)
     \/ /\ pc \in Faults /\ live[Ecram] # Absent
        /\ deployed' \in {deployed, Torn, live[Ecram]}
        /\ running' = [running EXCEPT ![Ecram] = Absent]
        /\ UNCHANGED registered
        /\ Record(TRUE)
  /\ Advance(NextPoint[pc])
  /\ UNCHANGED <<files, base>>

\* install_bridge_service: the service is deleted and created anew.  The
\* fallback through sc.exe is content with a service that does not run; when
\* it fails too the service is gone.
BridgePoint ==
  /\ pc \in {"bridge", "rb_bridge"}
  /\ UNCHANGED deployed
  /\ \/ live[Bridge] = Absent /\ UNCHANGED <<running, registered>> /\ Record(TRUE)
     \/ /\ live[Bridge] # Absent
        /\ running' = [running EXCEPT ![Bridge] = live[Bridge]]
        /\ registered' = TRUE
        /\ Record(FALSE)
     \/ /\ pc \in Faults /\ live[Bridge] # Absent
        /\ running' = [running EXCEPT ![Bridge] = Absent]
        /\ registered' \in BOOLEAN
        /\ Record(~registered')
  /\ Advance(NextPoint[pc])
  /\ UNCHANGED <<files, base>>

\* Face Unlock is optional: its failure is a warning.
FacePoint ==
  /\ pc = "face"
  /\ \/ running' = [running EXCEPT ![Face] = live[Face]]
     \/ "face" \in Faults /\ UNCHANGED running
  /\ Goto("verify")
  /\ UNCHANGED <<files, deployed, registered, base>>

\* verify_services gates on the bridge service being known to the SCM.
VerifyPointOnly ==
  /\ pc \in {"verify", "rb_verify"}
  /\ Record(~registered) \/ (pc \in Faults /\ Record(TRUE))
  /\ Advance(CASE pc = "rb_verify" -> "rb_clean"
               [] pc = "verify" /\ ~registered -> "rb_stop"
               [] OTHER -> "commit")
  /\ base' = IF pc = "verify" /\ registered THEN live ELSE base
  /\ UNCHANGED <<files, procs>>

VerifyPoint ==
  /\ pc \in {"verify", "rb_verify"}
  /\ Record(~registered) \/ (pc \in Faults /\ Record(TRUE))
  /\ Advance(CASE pc = "rb_verify" -> "rb_clean"
               [] pc = "verify" /\ failed' -> "rb_stop"
               [] OTHER -> "commit")
  /\ base' = IF pc = "verify" /\ ~failed' THEN live ELSE base
  /\ UNCHANGED <<files, procs>>

-----------------------------------------------------------------------------
(* End of the run, and the environment.                                    *)

\* Committed: drop the rollback artifacts and relaunch the app, unless asked
\* not to.
FinishKeepingBackup ==
  /\ pc = "commit" /\ DropStage
  /\ Close("ok")
  /\ running' = [running EXCEPT ![Main] = live[Main]]
  /\ UNCHANGED <<live, backup, backupDir, deployed, registered, base>>

Finish ==
  /\ pc = "commit" /\ Deleted /\ DropStage
  /\ Close("ok")
  /\ \/ running' = [running EXCEPT ![Main] = live[Main]]
     \/ UNCHANGED running
  /\ UNCHANGED <<live, backup, deployed, registered, base>>

RolledBack ==
  /\ pc = "rb_clean" /\ Deleted /\ DropStage
  /\ Close(IF rbFailed THEN "partial" ELSE "rolledback")
  /\ UNCHANGED <<live, backup, procs, base>>

\* Power is lost, and every process with it, or the shell alone is killed; the
\* disk is as it is.
PowerLoss ==
  /\ pc \in CrashPoints
  /\ Close("crashed")
  /\ running' = Stopped
  /\ UNCHANGED <<files, deployed, registered, base>>

ShellKilled ==
  /\ pc \in KillPoints
  /\ Close("crashed")
  /\ UNCHANGED <<files, procs, base>>

\* The user, the Run key or the service manager starts an executable.
Image(r) == IF r = Ecram THEN deployed ELSE live[r]

Launch(r) ==
  /\ pc \in LaunchPoints
  /\ running[r] = Absent /\ Image(r) \notin {Absent, Torn}
  /\ (r = Bridge => registered)
  /\ running' = [running EXCEPT ![r] = Image(r)]
  /\ UNCHANGED <<files, deployed, registered, shell, base>>

Next ==
  \/ StartRun \/ RecoverCleaned \/ RejectPayload \/ AcceptPayload
  \/ ExtractFail \/ Extracted
  \/ StopOk \/ BackupBlocked \/ StopFail \/ RollbackStop
  \/ CopyEnd \/ BackupDone
  \/ MoveRemove \/ MoveRename \/ SwapDone \/ RecoverDone \/ RestoreDone
  \/ StatelessPoint \/ EcramPoint \/ BridgePoint \/ FacePoint \/ VerifyPoint
  \/ Finish \/ RolledBack \/ PowerLoss \/ ShellKilled
  \/ \E i \in Items : \/ DeleteTear(i) \/ DeleteEntry(i) \/ ExtractEntry(i)
                      \/ CopyBegin(i) \/ MoveBegin(i)
  \/ \E r \in Roles : Launch(r)

Spec == Init /\ [][Next]_vars

-----------------------------------------------------------------------------
(* What the shell promises.                                                *)

TypeOK ==
  /\ live \in [Items -> Content] /\ backup \in [Items -> Content]
  /\ stage \in [Items -> Content] /\ base \in [Items -> Content]
  /\ backupDir \in BOOLEAN /\ stageDir \in BOOLEAN
  /\ running \in [Roles -> Content]
  /\ deployed \in Content /\ registered \in BOOLEAN
  /\ pc \in Phases /\ todo \subseteq Items /\ item \in Items \cup {None}
  /\ failed \in BOOLEAN /\ rbFailed \in BOOLEAN
  /\ result \in Results
  /\ runs \in 0..MaxRuns /\ release \in 1..(runs + 1)

\* The critical files of the installation in force are the live ones.
Intact == \A i \in Critical : base[i] # Absent => live[i] = base[i]

\* A critical file of the installation in force is never lost: from the first
\* moved entry to the verification, and across power losses in between, it is
\* live or it is in the backup.
Recoverable ==
  \A i \in Critical : base[i] # Absent => base[i] \in {live[i], backup[i]}

\* Once recovery is over, and whenever a run has ended other than by a power
\* loss, the installation in force is the live one (install.rs: "A crash
\* between backup and commit is repaired on the next launch").
RecoveryRepairs ==
  \/ pc \in {"recover_clean", "prepare"}
  \/ pc = "idle" /\ result # "crashed"
  => Intact

\* A release is committed only whole: nothing staged is left behind, except
\* what the name filter keeps out, and no live file is torn.
CommitIsWhole ==
  pc = "commit" => /\ Entries(stage) \subseteq Skipped
                   /\ \A i \in Items : live[i] # Torn

\* The backup directory is the mark of an undecided run: outside a run it is
\* there only after a power loss, so that no later run undoes a decided one.
MarkIsUndecided ==
  pc = "idle" /\ backupDir => result = "crashed"

\* Between runs no process executes a release other than the installed one,
\* and a run that commits or completes its rollback leaves the bridge service
\* registered and IoTSvc running the installed ecram_service.exe.
ServicesMatchFiles ==
  pc = "idle" =>
    /\ \A r \in Roles : running[r] \in {Absent, live[r]}
    /\ result \in {"ok", "rolledback"} =>
         /\ registered
         /\ live[Ecram] # Absent
         /\ running[Ecram] = live[Ecram] /\ deployed = live[Ecram]

\* Whatever fails, is interrupted or is started, a run that reports success
\* has left one consistent installation, the one in force: a release is never
\* committed half configured.
OkIsTrue ==
  pc = "idle" /\ result = "ok" =>
    /\ Intact /\ registered
    /\ live[Ecram] # Absent
    /\ running[Ecram] = live[Ecram] /\ deployed = live[Ecram]

\* No step changes the shell's own directory or a file no payload names ("the
\* permanent setup shell is never staged, backed up, swapped or restored").
Others == {Setup} \cup (Items \ (Critical \cup UNION Payloads))
KeepsOthers == [][\A i \in Others : live'[i] = live[i]]_vars

\* The abstract transaction: see InstallPromise.
Promise == INSTANCE InstallPromise WITH
  inForce <- base,
  intact  <- Intact,
  phase   <- CASE pc = "idle" -> "closed"
               [] pc \in {"recover", "recover_clean"} -> "repairing"
               [] OTHER -> "open",
  outcome <- result

ImplementsPromise == Promise!Spec
=============================================================================
