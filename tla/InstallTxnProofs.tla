--------------------------- MODULE InstallTxnProofs ---------------------------
(***************************************************************************)
(* Proofs about InstallTxn.  In every environment: type correctness, that  *)
(* a reported success is true and that what no payload names is kept.  In  *)
(* an environment that spares the backup: that no file of the installation *)
(* in force is lost, that recovery puts it back, that releases are         *)
(* committed whole, and that the transaction implements InstallPromise.    *)
(***************************************************************************)
EXTENDS InstallTxn, TLAPS

\* The release a run stages is new: its number is bumped at most once a run.
Fresh == pc \in {"recover", "recover_clean", "prepare"} => release <= runs

TypeInv == TypeOK /\ Fresh

-----------------------------------------------------------------------------
(* The environment that spares the backup.                                 *)

InForcePhases == {"swap", "drivers", "ecram", "task", "bridge", "face",
                  "verify", "rb_stop"}

\* The backup, the two restores, the stop before a rollback and the removal of
\* the backup do not fail; the run is not interrupted while the backup is
\* written or removed, nor killed with executables running and the backup
\* still needed; nothing starts before recovery or during a restore.
SafeEnvironment ==
  /\ Faults \cap {"backup", "recover", "rb_restore", "rb_stop", "commit"} = {}
  /\ CrashPoints \cap {"backup", "commit"} = {}
  /\ KillPoints \cap ({"backup", "commit"} \cup InForcePhases) = {}
  /\ LaunchPoints \cap {"idle", "recover", "rb_restore"} = {}

-----------------------------------------------------------------------------
(* Where the critical files of the installation in force are.              *)

Gone == \A i \in Items : backup[i] = Absent

\* Each is in the backup, or live with nothing in the backup to replace it.
Held == \A i \in Critical : base[i] # Absent =>
          \/ backup[i] = base[i]
          \/ backup[i] = Absent /\ live[i] = base[i]

\* Each is in the backup.
Full == \A i \in Critical : base[i] # Absent => backup[i] = base[i]

\* Each is live, and copied unless its turn is still to come.
Copying == \A i \in Critical : base[i] # Absent =>
             /\ live[i] = base[i]
             /\ i \in todo \/ i = item \/ backup[i] = base[i]

Unlocked == \A r \in Roles : running[r] = Absent

QuietPhases == {"recover_clean", "prepare", "extract", "stop", "rb_bridge",
                "rb_ecram", "rb_task", "rb_verify", "rb_clean"}

SafeInv ==
  /\ \A i \in Items \ Critical : backup[i] = Absent
  /\ backupDir \/ Gone
  /\ pc \notin {"backup", "swap", "recover", "rb_restore"} => item = None
  /\ pc = "idle" => /\ Held
                    /\ result = "crashed" \/ Gone
                    /\ Gone \/ Unlocked
  /\ pc \in {"recover", "rb_restore"} =>
       /\ Held /\ backupDir
       /\ \A i \in Items : backup[i] # Absent <=> (i \in todo \/ i = item)
       /\ item \notin todo
       /\ Gone \/ Unlocked
  /\ pc \in QuietPhases => Held /\ Gone
  /\ pc = "backup" => /\ Copying /\ backupDir
                      /\ todo \subseteq Critical /\ item \in Critical \cup {None}
  /\ pc \in InForcePhases => Full /\ backupDir
  /\ pc = "commit" => Intact

-----------------------------------------------------------------------------

USE InstallAssumption DEF InstallAssumption, Phases, Results

\* Every release of the bounded number of runs is a content of a file.
LEMMA ContentFacts ==
  /\ Absent \in Content /\ Torn \in Content
  /\ \A k \in 1..(MaxRuns + 1) : k \in Content
BY DEF Content, Absent, Torn

\* What one install point records, and where it goes.
LEMMA RecordType ==
  ASSUME failed \in BOOLEAN, rbFailed \in BOOLEAN, NEW err \in BOOLEAN, Record(err)
  PROVE  failed' \in BOOLEAN /\ rbFailed' \in BOOLEAN
BY Zenon DEF Record

\* An install point is followed by the next one, and by nothing else.
LEMMA PointType ==
  ASSUME pc \in {"drivers", "ecram", "task", "bridge", "rb_bridge", "rb_ecram",
                 "rb_task"},
         Advance(NextPoint[pc])
  PROVE  /\ pc' \in {"ecram", "task", "bridge", "face", "rb_ecram", "rb_task",
                     "rb_verify"}
         /\ UNCHANGED <<todo, item, result, release, runs>>
BY DEF Advance, NextPoint

\* The bookkeeping of a run stays in its types.
LEMMA TypeInvInductive ==
  TypeInv /\ [Next]_vars => TypeInv'
<1> SUFFICES ASSUME TypeInv, [Next]_vars PROVE TypeInv'
  OBVIOUS
<1> USE ContentFacts DEF TypeInv, TypeOK, Fresh
<1>r. release \in Content /\ release \in 1..(MaxRuns + 1)
  BY DEF Content
<1>0. CASE UNCHANGED vars
  BY <1>0 DEF vars, files, procs, shell
<1>1. CASE StartRun
  <2>1. runs' \in 0..MaxRuns /\ release' \in 1..(runs' + 1) /\ release' <= runs'
    BY <1>1 DEF StartRun
  <2>2. todo' \subseteq Items /\ pc' \in Phases
    BY <1>1 DEF StartRun, Entries
  <2> QED
    BY <1>1, <2>1, <2>2 DEF StartRun, files, procs
<1>2. CASE RecoverCleaned
  BY <1>2 DEF RecoverCleaned, Deleted, DropStage, Goto, Empty, files, procs, shell
<1>3. CASE RejectPayload
  BY <1>3 DEF RejectPayload, Close, files, procs, shell
<1>4. CASE AcceptPayload
  BY <1>4, <1>r DEF AcceptPayload, Empty, files, procs, shell
<1>5. CASE ExtractFail
  BY <1>5 DEF ExtractFail, DropStage, Close, Empty, files, procs, shell
<1>6. CASE Extracted
  BY <1>6 DEF Extracted, Goto, files, procs, shell
<1>7. CASE StopOk
  BY <1>7 DEF StopOk, Empty, Stopped, Entries, files, procs, shell
<1>8. CASE BackupBlocked
  BY <1>8 DEF BackupBlocked, Stopped, Entries, Skipped, files, procs, shell
<1>9. CASE StopFail
  <2>1. running' \in [Roles -> Content]
    BY <1>9 DEF StopFail, SomeSurvive
  <2> QED
    BY <1>9, <2>1 DEF StopFail, DropStage, Close, Empty
<1>10. CASE RollbackStop
  <2>1. running' \in [Roles -> Content]
    BY <1>10 DEF RollbackStop, SomeSurvive, Stopped
  <2>2. rbFailed' \in BOOLEAN /\ todo' \subseteq Items
    BY <1>10 DEF RollbackStop, Entries
  <2> QED
    BY <1>10, <2>1, <2>2 DEF RollbackStop, files
<1>11. CASE CopyEnd
  BY <1>11 DEF CopyEnd, files, procs, shell
<1>12. CASE BackupDone
  BY <1>12 DEF BackupDone, Entries, Skipped, files, procs, shell
<1>13. CASE MoveRemove
  BY <1>13 DEF MoveRemove, files, procs, shell
<1>14. CASE MoveRename
  BY <1>14 DEF MoveRename, Moving, Source, files, procs, shell
<1>15. CASE SwapDone
  BY <1>15 DEF SwapDone, files, procs, shell
<1>16. CASE RecoverDone
  BY <1>16 DEF RecoverDone, files, procs, shell
<1>17. CASE RestoreDone
  BY <1>17 DEF RestoreDone, files, procs, shell
<1>18. CASE StatelessPoint
  <2>1. failed' \in BOOLEAN /\ rbFailed' \in BOOLEAN
    BY <1>18, RecordType, Zenon DEF StatelessPoint
  <2>2. pc' \in Phases /\ pc' \notin {"recover", "recover_clean", "prepare"}
        /\ UNCHANGED <<todo, item, result, release, runs>>
    BY <1>18, PointType DEF StatelessPoint
  <2> QED
    BY <1>18, <2>1, <2>2 DEF StatelessPoint, files, procs
<1>19. CASE EcramPoint
  <2>1. failed' \in BOOLEAN /\ rbFailed' \in BOOLEAN
    BY <1>19, RecordType, Zenon DEF EcramPoint
  <2>2. pc' \in Phases /\ pc' \notin {"recover", "recover_clean", "prepare"}
        /\ UNCHANGED <<todo, item, result, release, runs>>
    BY <1>19, PointType DEF EcramPoint
  <2>3. Ecram \in Roles /\ live[Ecram] \in Content
    BY DEF Roles
  <2>4. running' \in [Roles -> Content] /\ deployed' \in Content
    <3>1. /\ \/ running' = running
             \/ running' = [running EXCEPT ![Ecram] = live[Ecram]]
             \/ running' = [running EXCEPT ![Ecram] = Absent]
          /\ deployed' \in {deployed, Torn, live[Ecram]}
      BY <1>19 DEF EcramPoint, procs, Record
    <3> QED
      BY <2>3, <3>1
  <2>5. registered' \in BOOLEAN
    BY <1>19 DEF EcramPoint, procs
  <2> QED
    BY <1>19, <2>1, <2>2, <2>4, <2>5 DEF EcramPoint, files
<1>20. CASE BridgePoint
  <2>1. failed' \in BOOLEAN /\ rbFailed' \in BOOLEAN
    BY <1>20, RecordType, Zenon DEF BridgePoint
  <2>2. pc' \in Phases /\ pc' \notin {"recover", "recover_clean", "prepare"}
        /\ UNCHANGED <<todo, item, result, release, runs>>
    BY <1>20, PointType DEF BridgePoint
  <2>3. Bridge \in Roles /\ live[Bridge] \in Content
    BY DEF Roles
  <2>4. running' \in [Roles -> Content] /\ deployed' \in Content
    <3>1. /\ \/ running' = running
             \/ running' = [running EXCEPT ![Bridge] = live[Bridge]]
             \/ running' = [running EXCEPT ![Bridge] = Absent]
          /\ deployed' = deployed
      BY <1>20 DEF BridgePoint, procs, Record
    <3> QED
      BY <2>3, <3>1
  <2>5. registered' \in BOOLEAN
    BY <1>20 DEF BridgePoint, procs
  <2> QED
    BY <1>20, <2>1, <2>2, <2>4, <2>5 DEF BridgePoint, files
<1>21. CASE FacePoint
  BY <1>21 DEF FacePoint, Goto, files, procs, shell
<1>22. CASE VerifyPoint
  <2>1. failed' \in BOOLEAN /\ rbFailed' \in BOOLEAN
    BY <1>22, RecordType, Zenon DEF VerifyPoint
  <2>2. pc' \in {"rb_clean", "rb_stop", "commit"} /\ UNCHANGED <<todo, item, result, release, runs>>
    BY <1>22 DEF VerifyPoint, Advance
  <2>3. UNCHANGED <<files, procs>> /\ base' \in [Items -> Content]
    BY <1>22 DEF VerifyPoint
  <2> QED
    BY <2>1, <2>2, <2>3 DEF files, procs
<1>23. CASE Finish
  BY <1>23 DEF Finish, Deleted, DropStage, Close, Empty, files, procs, shell
<1>24. CASE RolledBack
  BY <1>24 DEF RolledBack, Deleted, DropStage, Close, Empty, files, procs, shell
<1>25. CASE PowerLoss
  BY <1>25 DEF PowerLoss, Close, Stopped, files, procs, shell
<1>26. CASE ShellKilled
  BY <1>26 DEF ShellKilled, Close, files, procs, shell
<1>27. ASSUME NEW i \in Items, DeleteTear(i) PROVE TypeInv'
  BY <1>27 DEF DeleteTear, files, procs, shell
<1>28. ASSUME NEW i \in Items, DeleteEntry(i) PROVE TypeInv'
  BY <1>28 DEF DeleteEntry, files, procs, shell
<1>29. ASSUME NEW i \in Items, ExtractEntry(i) PROVE TypeInv'
  BY <1>29, <1>r DEF ExtractEntry, files, procs, shell
<1>30. ASSUME NEW i \in Items, CopyBegin(i) PROVE TypeInv'
  BY <1>30 DEF CopyBegin, files, procs, shell
<1>31. ASSUME NEW i \in Items, MoveBegin(i) PROVE TypeInv'
  BY <1>31 DEF MoveBegin, files, procs, shell
<1>32. ASSUME NEW r \in Roles, Launch(r) PROVE TypeInv'
  BY <1>32 DEF Launch, Image, files, procs, shell
<1> QED
  BY <1>0, <1>1, <1>2, <1>3, <1>4, <1>5, <1>6, <1>7, <1>8, <1>9, <1>10,
     <1>11, <1>12, <1>13, <1>14, <1>15, <1>16, <1>17, <1>18, <1>19, <1>20,
     <1>21, <1>22, <1>23, <1>24, <1>25, <1>26, <1>27, <1>28, <1>29, <1>30,
     <1>31, <1>32 DEF Next

\* Every installation a machine may start with is well typed.
LEMMA TypeInvInit ==
  Init => TypeInv
<1> SUFFICES ASSUME Init PROVE TypeInv
  OBVIOUS
<1>1. live \in [Items -> Content]
  BY ContentFacts DEF Init
<1>2. Roles \subseteq Items /\ Ecram \in Items
  BY DEF Roles
<1>3. running \in [Roles -> Content] /\ deployed \in Content
  BY ContentFacts, <1>1, <1>2 DEF Init
<1>4. registered \in BOOLEAN
  <2>1. PICK S \in Installs : registered = (Bridge \in S)
    BY DEF Init
  <2>2. CASE Bridge \in S
    BY <2>1, <2>2
  <2>3. CASE Bridge \notin S
    BY <2>1, <2>3
  <2> QED
    BY <2>2, <2>3
<1>5. base \in [Items -> Content] /\ Empty \in [Items -> Content]
  BY ContentFacts, <1>1 DEF Init, Empty
<1>6. backup \in [Items -> Content] /\ stage \in [Items -> Content]
  BY <1>5 DEF Init
<1>7. runs \in 0..MaxRuns /\ release \in 1..(runs + 1) /\ pc = "idle"
  BY DEF Init
<1>8. /\ backupDir \in BOOLEAN /\ stageDir \in BOOLEAN
      /\ failed \in BOOLEAN /\ rbFailed \in BOOLEAN
      /\ result \in Results /\ todo \subseteq Items /\ item \in Items \cup {None}
  BY DEF Init
<1> QED
  BY <1>1, <1>3, <1>4, <1>5, <1>6, <1>7, <1>8 DEF TypeInv, TypeOK, Fresh

\* Type correctness: in every environment the variables stay in their types,
\* and the release in flight is at most one ahead of the runs.
THEOREM TypeCorrect == Spec => []TypeOK
<1>1. TypeInv => TypeOK
  BY DEF TypeInv
<1> QED
  BY <1>1, TypeInvInit, TypeInvInductive, PTL DEF Spec

-----------------------------------------------------------------------------

\* With nothing in the backup to replace it, what is in force is live.
LEMMA HeldAndGone ==
  ASSUME Held, Gone  PROVE Intact
BY DEF Held, Gone, Intact

\* At first there is no backup and the installation in force is live.
LEMMA SafeInvInit ==
  ASSUME Init  PROVE SafeInv
BY DEF Init, SafeInv, Held, Gone, Empty, QuietPhases, InForcePhases

\* In a safe environment no step of the shell breaks what SafeInv says.
LEMMA SafeInvInductive ==
  ASSUME SafeEnvironment, TypeInv, SafeInv, [Next]_vars
  PROVE  SafeInv'
<1> USE DEF SafeEnvironment, SafeInv, Held, Gone, Full, Copying, Unlocked,
            QuietPhases, InForcePhases, files, procs, shell
<1>t. /\ live \in [Items -> Content] /\ backup \in [Items -> Content]
      /\ running \in [Roles -> Content]
      /\ pc \in Phases /\ todo \subseteq Items /\ item \in Items \cup {None}
  BY DEF TypeInv, TypeOK
<1>0. CASE UNCHANGED vars
  BY <1>0 DEF vars, Intact
<1>1. CASE StartRun
  BY <1>1, <1>t DEF StartRun, Entries, Skipped
<1>2. CASE RecoverCleaned
  BY <1>2, <1>t DEF RecoverCleaned, Deleted, Goto, Entries
<1>3. CASE RejectPayload
  BY <1>3, <1>t DEF RejectPayload, Close
<1>4. CASE AcceptPayload
  BY <1>4, <1>t DEF AcceptPayload
<1>5. CASE ExtractFail
  BY <1>5, <1>t DEF ExtractFail, Close
<1>6. CASE Extracted
  BY <1>6, <1>t DEF Extracted, Goto
<1>7. CASE StopOk
  BY <1>7, <1>t DEF StopOk, Empty, Entries
<1>8. CASE BackupBlocked
  BY <1>8, <1>t DEF BackupBlocked
<1>9. CASE StopFail
  BY <1>9, <1>t DEF StopFail, Close
<1>10. CASE RollbackStop
  BY <1>10, <1>t DEF RollbackStop, Stopped, Entries, Skipped
<1>11. CASE CopyEnd
  BY <1>11, <1>t DEF CopyEnd
<1>12. CASE BackupDone
  BY <1>12, <1>t DEF BackupDone
<1>13. CASE MoveRemove
  BY <1>13, <1>t DEF MoveRemove, Moving
<1>14. CASE MoveRename
  BY <1>14, <1>t DEF MoveRename, Moving, Source
<1>15. CASE SwapDone
  BY <1>15, <1>t DEF SwapDone
<1>16. CASE RecoverDone
  BY <1>16, <1>t DEF RecoverDone, MoveOk, MoveError, NoBackup, Locked
<1>17. CASE RestoreDone
  BY <1>17, <1>t DEF RestoreDone, MoveOk, MoveError, NoBackup, Locked
<1>18. CASE StatelessPoint
  <2>1. /\ pc' \in {"ecram", "task", "bridge", "face", "rb_ecram", "rb_task",
                     "rb_verify"}
        /\ UNCHANGED <<todo, item, result>>
    BY <1>18, PointType DEF StatelessPoint
  <2>2. pc' \in InForcePhases <=> pc \in InForcePhases
    BY <1>18 DEF StatelessPoint, Advance, NextPoint
  <2> QED
    BY <1>18, <1>t, <2>1, <2>2 DEF StatelessPoint
<1>19. CASE EcramPoint
  <2>1. /\ pc' \in {"ecram", "task", "bridge", "face", "rb_ecram", "rb_task",
                     "rb_verify"}
        /\ UNCHANGED <<todo, item, result>>
    BY <1>19, PointType DEF EcramPoint
  <2>2. pc' \in InForcePhases <=> pc \in InForcePhases
    BY <1>19 DEF EcramPoint, Advance, NextPoint
  <2> QED
    BY <1>19, <1>t, <2>1, <2>2 DEF EcramPoint
<1>20. CASE BridgePoint
  <2>1. /\ pc' \in {"ecram", "task", "bridge", "face", "rb_ecram", "rb_task",
                     "rb_verify"}
        /\ UNCHANGED <<todo, item, result>>
    BY <1>20, PointType DEF BridgePoint
  <2>2. pc' \in InForcePhases <=> pc \in InForcePhases
    BY <1>20 DEF BridgePoint, Advance, NextPoint
  <2> QED
    BY <1>20, <1>t, <2>1, <2>2 DEF BridgePoint
<1>21. CASE FacePoint
  BY <1>21, <1>t DEF FacePoint, Goto
<1>22. CASE VerifyPoint
  BY <1>22, <1>t DEF VerifyPoint, Advance, Intact
<1>23. CASE Finish
  BY <1>23, <1>t DEF Finish, Deleted, Close, Intact, Entries
<1>24. CASE RolledBack
  BY <1>24, <1>t DEF RolledBack, Deleted, Close, Entries
<1>25. CASE PowerLoss
  BY <1>25, <1>t DEF PowerLoss, Close, Stopped
<1>26. CASE ShellKilled
  BY <1>26, <1>t DEF ShellKilled, Close
<1>27. ASSUME NEW i \in Items, DeleteTear(i) PROVE SafeInv'
  BY <1>27, <1>t DEF DeleteTear, Deleting, Intact
<1>28. ASSUME NEW i \in Items, DeleteEntry(i) PROVE SafeInv'
  BY <1>28, <1>t DEF DeleteEntry, Deleting, Intact
<1>29. ASSUME NEW i \in Items, ExtractEntry(i) PROVE SafeInv'
  BY <1>29, <1>t DEF ExtractEntry
<1>30. ASSUME NEW i \in Items, CopyBegin(i) PROVE SafeInv'
  BY <1>30, <1>t DEF CopyBegin
<1>31. ASSUME NEW i \in Items, MoveBegin(i) PROVE SafeInv'
  BY <1>31, <1>t DEF MoveBegin, Moving
<1>32. ASSUME NEW r \in Roles, Launch(r) PROVE SafeInv'
  BY <1>32, <1>t DEF Launch, Intact
<1> QED
  BY <1>0, <1>1, <1>2, <1>3, <1>4, <1>5, <1>6, <1>7, <1>8, <1>9, <1>10,
     <1>11, <1>12, <1>13, <1>14, <1>15, <1>16, <1>17, <1>18, <1>19, <1>20,
     <1>21, <1>22, <1>23, <1>24, <1>25, <1>26, <1>27, <1>28, <1>29, <1>30,
     <1>31, <1>32 DEF Next

\* SafeInv holds throughout every behaviour in a safe environment.
LEMMA SafeInvariant ==
  ASSUME SafeEnvironment  PROVE Spec => [](TypeInv /\ SafeInv)
<1>1. Init => TypeInv /\ SafeInv
  BY TypeInvInit, SafeInvInit
<1>2. (TypeInv /\ SafeInv) /\ [Next]_vars => (TypeInv /\ SafeInv)'
  BY TypeInvInductive, SafeInvInductive
<1> QED
  BY <1>1, <1>2, PTL DEF Spec

\* Nothing is lost: while the backup is spared, every critical file of the
\* installation in force is live or in the backup, whatever fails or crashes.
THEOREM NothingLost ==
  ASSUME SafeEnvironment  PROVE Spec => []Recoverable
<1>1. TypeInv /\ SafeInv => Recoverable
  <2> SUFFICES ASSUME TypeInv, SafeInv PROVE Recoverable
    OBVIOUS
  <2>1. pc \in {"idle", "recover", "rb_restore", "backup", "commit"}
               \cup QuietPhases \cup InForcePhases
    BY DEF TypeInv, TypeOK, QuietPhases, InForcePhases
  <2> QED
    BY <2>1 DEF SafeInv, Recoverable, Held, Full, Copying, Intact
<1> QED
  BY <1>1, SafeInvariant, PTL

\* Recovery repairs: while the backup is spared, recovery ends, and every run
\* not cut short ends, with the installation in force live.
THEOREM RecoveryCorrect ==
  ASSUME SafeEnvironment  PROVE Spec => []RecoveryRepairs
<1>1. TypeInv /\ SafeInv => RecoveryRepairs
  BY HeldAndGone DEF SafeInv, RecoveryRepairs, QuietPhases
<1> QED
  BY <1>1, SafeInvariant, PTL

-----------------------------------------------------------------------------
(* A reported success, in any environment.                                 *)

Deployed ==
  live[Ecram] # Absent /\ running[Ecram] = live[Ecram] /\ deployed = live[Ecram]

LatePhases == {"task", "bridge", "face", "verify"}

OkInv ==
  /\ pc \in LatePhases /\ failed = FALSE => Deployed
  /\ pc = "commit" \/ (pc = "idle" /\ result = "ok") =>
       Deployed /\ registered = TRUE /\ base = live

\* Most steps lead neither to the late phases nor to a success.
LEMMA OtherStepsAreNotOk ==
  ASSUME TypeInv,
         \/ StartRun \/ RecoverCleaned \/ RejectPayload \/ AcceptPayload
         \/ ExtractFail \/ Extracted \/ StopOk \/ BackupBlocked \/ StopFail \/ RollbackStop
         \/ CopyEnd \/ BackupDone \/ MoveRemove \/ MoveRename \/ SwapDone \/ RecoverDone
         \/ RestoreDone \/ RolledBack \/ PowerLoss \/ ShellKilled
         \/ \E i \in Items : ExtractEntry(i) \/ CopyBegin(i) \/ MoveBegin(i)
  PROVE  OkInv'
<1>1. /\ pc' \notin LatePhases \cup {"commit"}
      /\ pc' = "idle" => result' # "ok"
  BY DEF StartRun, RecoverCleaned, RejectPayload, AcceptPayload, ExtractFail, Extracted, StopOk,
     BackupBlocked, StopFail, RollbackStop, CopyEnd, BackupDone, MoveRemove, MoveRename, Moving,
     SwapDone, RecoverDone, RestoreDone, RolledBack, PowerLoss, ShellKilled, ExtractEntry,
     CopyBegin, MoveBegin, Close, Goto, shell, LatePhases
<1> QED
  BY <1>1 DEF OkInv

LEMMA OkInvInductive ==
  ASSUME Bridge # Ecram, TypeInv, OkInv, [Next]_vars PROVE OkInv'
<1> USE DEF OkInv, Deployed, LatePhases, files, procs, shell
<1>t. /\ Roles \subseteq Items /\ Ecram \in Roles /\ running \in [Roles -> Content]
      /\ pc \in Phases /\ failed \in BOOLEAN /\ registered \in BOOLEAN
  BY DEF TypeInv, TypeOK, Roles
<1>0. CASE UNCHANGED vars
  BY <1>0 DEF vars
<1>1. CASE StatelessPoint
  <2>1. pc' \in LatePhases => pc \in LatePhases /\ (failed' = FALSE => failed = FALSE)
    BY <1>1, <1>t DEF StatelessPoint, Advance, NextPoint, Record
  <2> QED
    BY <1>1, <2>1, PointType DEF StatelessPoint
<1>2. CASE EcramPoint
  <2>1. pc' \in {"task", "rb_task"} /\ UNCHANGED <<live, base>>
    BY <1>2 DEF EcramPoint, Advance, NextPoint
  <2>2. pc' = "task" /\ failed' = FALSE => Deployed'
    <3> SUFFICES ASSUME pc' = "task", failed' = FALSE PROVE Deployed'
      OBVIOUS
    <3>1. pc = "ecram" /\ live' = live
      BY <1>2 DEF EcramPoint, Advance, NextPoint
    <3>2. Record(TRUE) => failed' # FALSE
      BY <3>1, <1>t DEF Record
    <3>3. /\ live[Ecram] # Absent /\ deployed' = live[Ecram]
          /\ running' = [running EXCEPT ![Ecram] = live[Ecram]]
      BY <1>2, <3>2 DEF EcramPoint
    <3>4. running'[Ecram] = live[Ecram]
      BY <3>3, <1>t
    <3> QED
      BY <3>1, <3>3, <3>4
  <2> QED
    BY <2>1, <2>2
<1>3. CASE BridgePoint
  <2>1. /\ pc' = "face" => pc = "bridge" /\ (failed' = FALSE => failed = FALSE)
        /\ pc' \in {"face", "rb_ecram"} /\ UNCHANGED <<live, base, deployed>>
    BY <1>3, <1>t DEF BridgePoint, Advance, NextPoint, Record
  <2>2. running'[Ecram] = running[Ecram]
    BY <1>3, <1>t DEF BridgePoint
  <2> QED
    BY <2>1, <2>2
<1>4. CASE FacePoint
  BY <1>4, <1>t DEF FacePoint, Goto
<1>5. CASE VerifyPoint
  <2>1. /\ UNCHANGED <<live, running, deployed, registered>>
        /\ pc' \in {"rb_clean", "rb_stop", "commit"}
    BY <1>5 DEF VerifyPoint, Advance
  <2>2. pc' = "commit" => pc = "verify" /\ failed' = FALSE /\ base' = live
    BY <1>5, <1>t DEF VerifyPoint, Advance, Record
  <2>3. pc' = "commit" => failed = FALSE /\ registered = TRUE
    BY <1>5, <1>t, <2>2 DEF VerifyPoint, Advance, Record
  <2> QED
    BY <2>1, <2>2, <2>3
<1>6. CASE Finish
  BY <1>6, <1>t DEF Finish, Close
<1>7. ASSUME NEW i \in Items, DeleteTear(i) \/ DeleteEntry(i) PROVE OkInv'
  BY <1>7 DEF DeleteTear, DeleteEntry
<1>8. ASSUME NEW r \in Roles, Launch(r) PROVE OkInv'
  BY <1>8, <1>t DEF Launch
<1> QED
  BY <1>0, <1>1, <1>2, <1>3, <1>4, <1>5, <1>6, <1>7, <1>8, OtherStepsAreNotOk DEF Next

\* In every environment, whatever fails, is interrupted or is started, a run that
\* reports success has left one consistent and fully configured installation.
THEOREM SuccessIsTrue ==
  ASSUME Bridge # Ecram  PROVE Spec => []OkIsTrue
<1>1. Init => OkInv
  BY DEF Init, OkInv, LatePhases
<1>2. OkInv => OkIsTrue
  BY DEF OkInv, OkIsTrue, Deployed, Intact
<1> QED
  BY <1>1, <1>2, TypeInvInit, TypeInvInductive, OkInvInductive, PTL DEF Spec

-----------------------------------------------------------------------------
(* The mark of an undecided run.                                           *)

\* From the end of recovery to the stop there is no backup directory, and a
\* run that was not cut short leaves none.
MarkInv ==
  /\ pc \in {"prepare", "extract", "stop"} => backupDir = FALSE
  /\ pc = "idle" => backupDir = FALSE \/ result = "crashed"

\* While the backup is spared, only steps that empty its directory or find it
\* gone let a run end other than by a crash.
LEMMA MarkInvInductive ==
  ASSUME SafeEnvironment, TypeInv, SafeInv, MarkInv, [Next]_vars PROVE MarkInv'
<1> USE DEF MarkInv, files, shell
<1>0. CASE UNCHANGED vars
  BY <1>0 DEF vars
<1>1. CASE RecoverCleaned \/ RolledBack
  <2>1. backupDir' = FALSE
    BY <1>1 DEF SafeInv, QuietPhases, Gone, RecoverCleaned, RolledBack, Deleted, Entries
  <2> QED
    BY <2>1
<1>2. CASE Finish
  <2>1. backupDir' = FALSE
    BY <1>2 DEF SafeEnvironment, Finish, Deleted
  <2> QED
    BY <2>1
<1>3. CASE PowerLoss \/ ShellKilled
  <2>1. pc' = "idle" /\ result' = "crashed"
    BY <1>3 DEF PowerLoss, ShellKilled, Close
  <2> QED
    BY <2>1
<1>4. CASE RejectPayload \/ AcceptPayload \/ ExtractFail \/ Extracted \/ StopFail
  BY <1>4 DEF RejectPayload, AcceptPayload, ExtractFail, Extracted, StopFail, Close, Goto
<1>5. CASE StatelessPoint \/ EcramPoint \/ BridgePoint
  <2>1. pc' \notin {"prepare", "extract", "stop", "idle"}
    BY <1>5, PointType DEF StatelessPoint, EcramPoint, BridgePoint
  <2> QED
    BY <2>1
<1>6. CASE \/ StartRun \/ StopOk \/ BackupBlocked \/ RollbackStop \/ BackupDone
           \/ SwapDone \/ RecoverDone \/ RestoreDone \/ FacePoint \/ VerifyPoint
  <2>1. pc' \notin {"prepare", "extract", "stop", "idle"}
    BY <1>6 DEF StartRun, StopOk, BackupBlocked, RollbackStop, BackupDone, SwapDone,
       RecoverDone, RestoreDone, FacePoint, VerifyPoint, Goto, Advance
  <2> QED
    BY <2>1
<1>7. CASE CopyEnd \/ MoveRemove \/ MoveRename
  BY <1>7 DEF CopyEnd, MoveRemove, MoveRename
<1>8. ASSUME NEW i \in Items, \/ DeleteTear(i) \/ DeleteEntry(i) \/ ExtractEntry(i)
                              \/ CopyBegin(i) \/ MoveBegin(i)
      PROVE  MarkInv'
  BY <1>8 DEF DeleteTear, DeleteEntry, ExtractEntry, CopyBegin, MoveBegin
<1>9. ASSUME NEW r \in Roles, Launch(r) PROVE MarkInv'
  BY <1>9 DEF Launch
<1> QED
  BY <1>0, <1>1, <1>2, <1>3, <1>4, <1>5, <1>6, <1>7, <1>8, <1>9 DEF Next

\* A decided run is never undone: while the backup is spared, a backup directory
\* found outside a run is that of an interrupted one.
THEOREM MarkIsTrue ==
  ASSUME SafeEnvironment  PROVE Spec => []MarkIsUndecided
<1>1. Init => MarkInv
  BY DEF Init, MarkInv
<1>2. MarkInv => MarkIsUndecided
  BY DEF MarkInv, MarkIsUndecided
<1>3. (TypeInv /\ SafeInv) /\ MarkInv /\ [Next]_vars => MarkInv'
  BY MarkInvInductive
<1> QED
  BY <1>1, <1>2, <1>3, SafeInvariant, PTL DEF Spec

-----------------------------------------------------------------------------
(* What the transaction never touches, in any environment.                 *)

Staged == UNION Payloads

OthersInv ==
  /\ \A i \in Items \ Critical : backup[i] = Absent
  /\ \A i \in Items \ Staged : stage[i] = Absent
  /\ pc = "extract" => todo \subseteq Staged
  /\ pc = "backup" => todo \subseteq Critical /\ item \in Critical \cup {None}
  /\ Moving => \A i \in Others : i \notin todo /\ i # item
  /\ pc # "backup" /\ ~Moving => item = None

\* The backup holds critical entries only, the staging directory entries of a
\* payload only, and no loop that moves entries visits the shell's own.
LEMMA OthersInvInductive ==
  ASSUME TypeInv, OthersInv, [Next]_vars PROVE OthersInv'
<1> USE DEF OthersInv, Others, Staged, Moving, files, shell
<1>t. /\ backup \in [Items -> Content] /\ stage \in [Items -> Content]
      /\ todo \subseteq Items /\ item \in Items \cup {None} /\ pc \in Phases
  BY DEF TypeInv, TypeOK
<1>e. \A i \in Items : Empty[i] = Absent
  BY DEF Empty
<1>b. Entries(backup) \ Skipped \subseteq Critical \ {Setup}
  BY DEF Entries, Skipped
<1>s. Entries(stage) \ Skipped \subseteq Staged \ {Setup}
  BY DEF Entries, Skipped
<1>0. CASE UNCHANGED vars
  BY <1>0 DEF vars
<1>1. CASE StartRun
  BY <1>1, <1>b DEF StartRun
<1>2. CASE RecoverCleaned \/ RolledBack \/ Finish \/ RejectPayload \/ ExtractFail \/ StopFail
  BY <1>2, <1>e DEF RecoverCleaned, RolledBack, Finish, RejectPayload, ExtractFail, StopFail,
     DropStage, Close, Goto
<1>3. CASE AcceptPayload
  BY <1>3, <1>e DEF AcceptPayload
<1>4. CASE StopOk
  <2>1. Entries(live) \cap Critical \subseteq Critical
    OBVIOUS
  <2> QED
    BY <1>4, <1>e, <2>1 DEF StopOk
<1>5. CASE BackupBlocked
  BY <1>5, <1>s DEF BackupBlocked
<1>6. CASE RollbackStop
  BY <1>6, <1>b DEF RollbackStop
<1>7. CASE CopyEnd
  BY <1>7, <1>t DEF CopyEnd
<1>8. CASE BackupDone
  BY <1>8, <1>s DEF BackupDone
<1>9. CASE MoveRename
  BY <1>9, <1>t DEF MoveRename
<1>10. CASE MoveRemove \/ Extracted \/ SwapDone \/ RecoverDone \/ RestoreDone \/ FacePoint
  BY <1>10 DEF MoveRemove, Extracted, SwapDone, RecoverDone, RestoreDone, FacePoint, Goto
<1>11. CASE StatelessPoint \/ EcramPoint \/ BridgePoint
  BY <1>11, PointType DEF StatelessPoint, EcramPoint, BridgePoint
<1>12. CASE VerifyPoint
  BY <1>12 DEF VerifyPoint, Advance
<1>13. CASE PowerLoss \/ ShellKilled
  BY <1>13 DEF PowerLoss, ShellKilled, Close
<1>14. ASSUME NEW i \in Items, DeleteTear(i) \/ DeleteEntry(i) PROVE OthersInv'
  BY <1>14, <1>t DEF DeleteTear, DeleteEntry
<1>15. ASSUME NEW i \in Items, ExtractEntry(i) PROVE OthersInv'
  BY <1>15, <1>t DEF ExtractEntry
<1>16. ASSUME NEW i \in Items, CopyBegin(i) \/ MoveBegin(i) PROVE OthersInv'
  BY <1>16, <1>t DEF CopyBegin, MoveBegin
<1>17. ASSUME NEW r \in Roles, Launch(r) PROVE OthersInv'
  BY <1>17 DEF Launch
<1> QED
  BY <1>0, <1>1, <1>2, <1>3, <1>4, <1>5, <1>6, <1>7, <1>8, <1>9, <1>10, <1>11, <1>12, <1>13,
     <1>14, <1>15, <1>16, <1>17 DEF Next

\* Only the loop that moves entries writes a live one, and only its own.
LEMMA OnlyMovesWrite ==
  ASSUME TypeInv, OthersInv, [Next]_vars, NEW i \in Others PROVE live'[i] = live[i]
<1>t. i \in Items /\ live \in [Items -> Content]
  BY DEF TypeInv, TypeOK, Others
<1>1. CASE MoveRemove \/ MoveRename
  BY <1>1, <1>t DEF MoveRemove, MoveRename, OthersInv
<1>2. ASSUME NEW j \in Items, MoveBegin(j) PROVE live'[i] = live[i]
  <2>1. i # j /\ live' = [live EXCEPT ![j] = IF j \in Dirs /\ @ # Absent THEN Torn ELSE @]
    BY <1>2 DEF MoveBegin, OthersInv
  <2> QED
    BY <2>1, <1>t
<1>3. CASE live' = live
  BY <1>3
<1>4. [Next]_vars => \/ live' = live \/ MoveRemove \/ MoveRename
                     \/ \E j \in Items : MoveBegin(j)
  BY DEF Next, vars, files, StartRun, RecoverCleaned, RejectPayload, AcceptPayload,
     ExtractFail, Extracted, StopOk, BackupBlocked, StopFail, RollbackStop, CopyEnd,
     BackupDone, SwapDone, RecoverDone, RestoreDone, StatelessPoint, EcramPoint,
     BridgePoint, FacePoint, VerifyPoint, Finish, RolledBack, PowerLoss, ShellKilled,
     DeleteTear, DeleteEntry, ExtractEntry, CopyBegin, Launch
<1> QED
  BY <1>1, <1>2, <1>3, <1>4

\* In every environment, no step of the shell changes its own directory or an
\* entry that neither the backup list nor a payload names.
THEOREM OthersAreKept == Spec => KeepsOthers
<1>1. Init => OthersInv
  BY DEF Init, OthersInv, Empty, Moving
<1>2. TypeInv /\ OthersInv /\ [Next]_vars => OthersInv'
  BY OthersInvInductive
<1>3. TypeInv /\ OthersInv /\ [Next]_vars => [\A i \in Others : live'[i] = live[i]]_vars
  BY OnlyMovesWrite
<1> QED
  BY <1>1, <1>2, <1>3, TypeInvInit, TypeInvInductive, PTL DEF Spec, KeepsOthers

-----------------------------------------------------------------------------
(* The transaction implements InstallPromise.                              *)

\* Nothing "interrupts" the shell while no run is going on.
OnlyRunsEnd == "idle" \notin CrashPoints \cup KillPoints

PromisePhase == CASE pc = "idle" -> "closed"
                  [] pc \in {"recover", "recover_clean"} -> "repairing"
                  [] OTHER -> "open"

\* In a safe environment every step of the shell is one of the promise or a
\* stutter of it.
LEMMA PromiseStep ==
  ASSUME SafeEnvironment, OnlyRunsEnd, TypeInv, SafeInv, [Next]_vars
  PROVE  [Promise!Next]_Promise!vars
<1> USE DEF files, shell
<1>d. /\ Promise!vars = <<base, Intact, PromisePhase, result>>
      /\ Promise!Next = (\/ Promise!Begin \/ Promise!Repair \/ Promise!Open \/ Promise!Disturb
                         \/ Promise!PutInForce \/ Promise!Close \/ Promise!Interrupt)
  BY DEF Promise!vars, Promise!Next, PromisePhase
<1>p. /\ pc = "idle" => PromisePhase = "closed"
      /\ pc \in {"recover", "recover_clean"} => PromisePhase = "repairing"
      /\ pc \notin {"idle", "recover", "recover_clean"} => PromisePhase = "open"
  BY DEF PromisePhase
<1>q. /\ pc' = "idle" => PromisePhase' = "closed"
      /\ pc' \in {"recover", "recover_clean"} => PromisePhase' = "repairing"
      /\ pc' \notin {"idle", "recover", "recover_clean"} => PromisePhase' = "open"
  BY DEF PromisePhase
<1>b. Intact' \in BOOLEAN /\ Intact \in BOOLEAN
  BY DEF Intact
<1>i. live' = live /\ base' = base => Intact' = Intact
  BY DEF Intact
<1>m. \/ pc' = pc
      \/ /\ pc \notin {"idle", "recover", "recover_clean"}
         /\ pc' \notin {"idle", "recover", "recover_clean"}
      \/ pc = "recover" /\ pc' = "recover_clean"
      => PromisePhase' = PromisePhase
  BY <1>p, <1>q
<1>u. /\ base' = base /\ result' = result
      /\ (Intact' = Intact) /\ (PromisePhase' = PromisePhase)
      => UNCHANGED Promise!vars
  BY DEF Promise!vars, PromisePhase
\* A run begins, opens, ends, or is cut short.
<1>1. CASE StartRun
  BY <1>1, <1>d, <1>p, <1>q, <1>i DEF StartRun, Promise!Begin, PromisePhase
<1>2. CASE RecoverCleaned
  <2>1. Intact
    BY <1>2, HeldAndGone DEF RecoverCleaned, SafeInv, QuietPhases
  <2> QED
    BY <1>2, <2>1, <1>d, <1>p, <1>q, <1>i DEF RecoverCleaned, Goto, Promise!Open, PromisePhase
<1>3. CASE RejectPayload \/ ExtractFail \/ StopFail \/ RolledBack \/ Finish
  <2>1. Intact
    BY <1>3, HeldAndGone DEF SafeInv, QuietPhases, RejectPayload, ExtractFail, StopFail,
       RolledBack, Finish
  <2>2. pc \notin {"idle", "recover", "recover_clean"} /\ pc' = "idle"
        /\ result' \in {"ok", "aborted", "rolledback", "partial"} /\ live' = live /\ base' = base
    BY <1>3 DEF RejectPayload, ExtractFail, StopFail, RolledBack, Finish, Close
  <2> QED
    BY <2>1, <2>2, <1>d, <1>p, <1>q, <1>i DEF Promise!Close, Promise!Outcomes, PromisePhase
<1>4. CASE PowerLoss \/ ShellKilled
  <2>1. pc # "idle" /\ pc' = "idle" /\ result' = "crashed" /\ live' = live /\ base' = base
    BY <1>4 DEF OnlyRunsEnd, PowerLoss, ShellKilled, Close
  <2>2. PromisePhase # "closed" /\ PromisePhase' = "closed" /\ Intact' = Intact
    BY <2>1, <1>q, <1>i DEF PromisePhase
  <2> QED
    BY <2>1, <2>2, <1>d DEF Promise!Interrupt, PromisePhase
\* Files are moved, and a release is put in force.
<1>5. CASE MoveRemove \/ MoveRename \/ \E i \in Items : MoveBegin(i)
  <2>1. Moving /\ pc' = pc /\ base' = base /\ result' = result
    BY <1>5 DEF MoveRemove, MoveRename, MoveBegin
  <2>2. PromisePhase' = PromisePhase /\ PromisePhase \in {"repairing", "open"}
    BY <2>1, <1>p, <1>m DEF Moving
  <2> QED
    BY <2>1, <2>2, <1>d, <1>b DEF Promise!Repair, Promise!Disturb, PromisePhase
<1>6. CASE VerifyPoint
  <2>1. /\ pc \notin {"idle", "recover", "recover_clean"}
        /\ pc' \notin {"idle", "recover", "recover_clean"} /\ result' = result
        /\ live' = live /\ (base' = live \/ base' = base)
    BY <1>6 DEF VerifyPoint, Advance
  <2>2. PromisePhase' = PromisePhase /\ PromisePhase = "open"
    BY <2>1, <1>p, <1>m
  <2>3. CASE base' = base
    BY <2>1, <2>2, <2>3, <1>i, <1>u
  <2>4. CASE base' = live
    <3>1. Intact'
      BY <2>1, <2>4 DEF Intact
    <3> QED
      BY <2>1, <2>2, <3>1, <1>b, <1>d DEF Promise!PutInForce, PromisePhase
  <2> QED
    BY <2>1, <2>3, <2>4
\* Everything else is a stutter.
<1>7. CASE \/ UNCHANGED vars
           \/ AcceptPayload \/ Extracted \/ StopOk \/ BackupBlocked \/ RollbackStop \/ CopyEnd
           \/ BackupDone \/ SwapDone \/ RecoverDone \/ RestoreDone \/ FacePoint
           \/ \E i \in Items : \/ DeleteTear(i) \/ DeleteEntry(i) \/ ExtractEntry(i)
                               \/ CopyBegin(i)
           \/ \E r \in Roles : Launch(r)
  <2>1. /\ live' = live /\ base' = base /\ result' = result
        /\ \/ pc' = pc
           \/ /\ pc \notin {"idle", "recover", "recover_clean"}
              /\ pc' \notin {"idle", "recover", "recover_clean"}
           \/ pc = "recover" /\ pc' = "recover_clean"
    BY <1>7 DEF vars, AcceptPayload, Extracted, StopOk, BackupBlocked, RollbackStop, CopyEnd,
       BackupDone, SwapDone, RecoverDone, RestoreDone, FacePoint, DeleteTear, DeleteEntry,
       ExtractEntry, CopyBegin, Launch, Goto
  <2> QED
    BY <2>1, <1>i, <1>m, <1>u
<1>8. CASE StatelessPoint \/ EcramPoint \/ BridgePoint
  <2>1. /\ pc \notin {"idle", "recover", "recover_clean"}
        /\ pc' \notin {"idle", "recover", "recover_clean"}
        /\ live' = live /\ base' = base /\ result' = result
    BY <1>8, PointType DEF StatelessPoint, EcramPoint, BridgePoint
  <2> QED
    BY <2>1, <1>i, <1>m, <1>u
<1> QED
  BY <1>1, <1>2, <1>3, <1>4, <1>5, <1>6, <1>7, <1>8 DEF Next

\* While the backup is spared and only runs are interrupted, the transaction keeps
\* the abstract promise: a run opens and closes only with the installation in
\* force intact, and changes which one that is only by a verified commit.
THEOREM TxnRefinement ==
  ASSUME SafeEnvironment, OnlyRunsEnd  PROVE Spec => ImplementsPromise
<1>1. Init => Promise!Init
  BY DEF Init, Intact, Promise!Init
<1>2. (TypeInv /\ SafeInv) /\ [Next]_vars => [Promise!Next]_Promise!vars
  BY PromiseStep
<1> QED
  BY <1>1, <1>2, SafeInvariant, PTL DEF Spec, ImplementsPromise, Promise!Spec

-----------------------------------------------------------------------------
(* A release is committed whole.                                           *)

PointPhases == {"drivers", "ecram", "task", "bridge", "face", "verify"}

Clean == \A i \in Items : live[i] # Torn /\ (stage[i] # Absent => i = Setup)

\* A torn live directory has a whole backup, and a swap that reports no failure
\* has none left: it has moved every staged entry but those it still has to.
WholeInv ==
  /\ \A i \in Items : stage[i] # Torn
  /\ \A i \in Items : live[i] = Torn => backup[i] # Absent
  /\ pc \notin {"backup", "commit"} => \A i \in Items : backup[i] # Torn
  /\ pc = "backup" => \A i \in Items :
       /\ live[i] # Torn /\ (backup[i] = Torn => i = item)
       /\ i \in Critical /\ live[i] # Absent => i \in todo \/ backup[i] # Absent
       /\ i \in todo \/ i = item => live[i] # Absent
  /\ pc = "swap" => \A i \in Items : i \in todo =>
       i # item /\ (i \in Critical /\ live[i] # Absent => backup[i] # Absent)
  /\ pc = "swap" /\ failed = FALSE => \A i \in Items :
       /\ live[i] = Torn => i = item
       /\ stage[i] # Absent => i = Setup \/ i \in todo \/ i = item
  /\ pc \in PointPhases /\ failed = FALSE => Clean
  /\ pc = "commit" => Clean

\* With no backup there is no torn live directory.
LEMMA NothingTorn ==
  ASSUME WholeInv, Gone  PROVE \A i \in Items : live[i] # Torn
BY DEF WholeInv, Gone

\* While the backup is spared, no step breaks what WholeInv says.
LEMMA WholeInvInductive ==
  ASSUME SafeEnvironment, Dirs \subseteq Critical, TypeInv, SafeInv, WholeInv, [Next]_vars
  PROVE  WholeInv'
<1> USE DEF WholeInv, Clean, PointPhases, files, procs, shell
<1>t. /\ live \in [Items -> Content] /\ backup \in [Items -> Content]
      /\ stage \in [Items -> Content] /\ failed \in BOOLEAN
      /\ pc \in Phases /\ todo \subseteq Items /\ item \in Items \cup {None}
  BY DEF TypeInv, TypeOK
<1>f. Faults \cap {"backup", "recover", "rb_restore", "rb_stop", "commit"} = {}
  BY DEF SafeEnvironment
<1>a. Absent # Torn /\ release # Torn
  BY DEF TypeInv, TypeOK, Absent, Torn
<1>e. \A i \in Items : Empty[i] = Absent
  BY DEF Empty
<1>g. pc \in QuietPhases => (\A i \in Items : backup[i] = Absent /\ live[i] # Torn)
  BY NothingTorn DEF SafeInv, Gone
<1>0. CASE UNCHANGED vars
  BY <1>0 DEF vars
<1>1. CASE StartRun
  BY <1>1 DEF StartRun
<1>2. CASE RecoverCleaned \/ RolledBack \/ RejectPayload \/ ExtractFail \/ StopFail
  <2>1. \A i \in Items : stage'[i] # Torn
    BY <1>2, <1>a, <1>e DEF RecoverCleaned, RolledBack, RejectPayload, ExtractFail, StopFail, DropStage
  <2>2. pc' \in {"idle", "prepare"} /\ live' = live /\ backup' = backup
        /\ pc \notin {"backup", "commit"}
    BY <1>2 DEF RecoverCleaned, RolledBack, RejectPayload, ExtractFail, StopFail, Close, Goto
  <2> QED
    BY <2>1, <2>2
<1>3. CASE Finish
  BY <1>3, <1>a, <1>e, <1>f DEF Finish, Deleted, Entries, DropStage, Close
<1>4. CASE AcceptPayload
  BY <1>4, <1>a, <1>e DEF AcceptPayload
<1>5. CASE Extracted
  BY <1>5 DEF Extracted, Goto
<1>6. CASE StopOk
  <2>1. item' = None
    BY <1>6 DEF StopOk, SafeInv
  <2> QED
    BY <1>6, <1>a, <1>e, <1>g, <2>1 DEF StopOk, QuietPhases, Entries
<1>7. CASE BackupBlocked
  BY <1>7, <1>f DEF BackupBlocked
<1>8. CASE RollbackStop \/ RecoverDone \/ RestoreDone
  BY <1>8 DEF RollbackStop, RecoverDone, RestoreDone
<1>9. CASE CopyEnd
  BY <1>9, <1>t DEF CopyEnd
<1>10. CASE BackupDone
  BY <1>10, <1>t, <1>f DEF BackupDone, Entries, Skipped, SafeInv
<1>11. CASE MoveRemove
  BY <1>11, <1>t, <1>a DEF MoveRemove, Moving
<1>12. CASE MoveRename
  <2>1. CASE pc = "swap"
    BY <1>12, <1>t, <1>a, <2>1 DEF MoveRename, Moving, Source
  <2>2. CASE pc # "swap"
    BY <1>12, <1>t, <1>a, <2>2 DEF MoveRename, Moving, Source
  <2> QED
    BY <2>1, <2>2
<1>13. CASE SwapDone
  BY <1>13 DEF SwapDone, MoveOk, MoveError
<1>14. CASE StatelessPoint \/ EcramPoint \/ BridgePoint
  <2>1. /\ pc' \in {"ecram", "task", "bridge", "face", "rb_ecram", "rb_task", "rb_verify"}
        /\ live' = live /\ backup' = backup /\ stage' = stage
        /\ pc \notin {"backup", "commit"}
    BY <1>14, PointType DEF StatelessPoint, EcramPoint, BridgePoint
  <2>2. pc' \in PointPhases => pc \in PointPhases /\ (failed' = FALSE => failed = FALSE)
    BY <1>14, <1>t DEF StatelessPoint, EcramPoint, BridgePoint, Advance, NextPoint, Record
  <2> QED
    BY <2>1, <2>2
<1>15. CASE FacePoint
  BY <1>15 DEF FacePoint, Goto
<1>16. CASE VerifyPoint
  <2>1. /\ live' = live /\ backup' = backup /\ stage' = stage
        /\ pc' \in {"rb_clean", "rb_stop", "commit"}
    BY <1>16 DEF VerifyPoint, Advance
  <2>2. pc' = "commit" => pc = "verify" /\ failed' = FALSE
    BY <1>16, <1>t DEF VerifyPoint, Advance, Record
  <2>3. pc' = "commit" => pc = "verify" /\ failed = FALSE
    BY <1>16, <1>t, <2>2 DEF VerifyPoint, Record
  <2>4. pc \notin {"backup", "commit"}
    BY <1>16 DEF VerifyPoint
  <2> QED
    BY <2>1, <2>3, <2>4
<1>17. CASE PowerLoss \/ ShellKilled
  BY <1>17 DEF PowerLoss, ShellKilled, Close, SafeEnvironment
<1>18. ASSUME NEW i \in Items, DeleteTear(i) \/ DeleteEntry(i) PROVE WholeInv'
  BY <1>18, <1>t, <1>g DEF DeleteTear, DeleteEntry, Deleting, QuietPhases
<1>19. ASSUME NEW i \in Items, ExtractEntry(i) PROVE WholeInv'
  BY <1>19, <1>t, <1>a DEF ExtractEntry
<1>20. ASSUME NEW i \in Items, CopyBegin(i) PROVE WholeInv'
  BY <1>20, <1>t, <1>a DEF CopyBegin
<1>21. ASSUME NEW i \in Items, MoveBegin(i) PROVE WholeInv'
  <2>1. pc # "swap" => backup[i] # Absent
    BY <1>21 DEF MoveBegin, Moving, SafeInv
  <2> QED
    BY <1>21, <1>t, <1>a, <2>1 DEF MoveBegin, Moving
<1>22. ASSUME NEW r \in Roles, Launch(r) PROVE WholeInv'
  BY <1>22 DEF Launch
<1> QED
  BY <1>0, <1>1, <1>2, <1>3, <1>4, <1>5, <1>6, <1>7, <1>8, <1>9, <1>10, <1>11, <1>12, <1>13,
     <1>14, <1>15, <1>16, <1>17, <1>18, <1>19, <1>20, <1>21, <1>22 DEF Next

\* While the backup is spared, and if the backup list covers the directories a
\* payload replaces, a release is committed only whole.
THEOREM CommittedWhole ==
  ASSUME SafeEnvironment, Dirs \subseteq Critical  PROVE Spec => []CommitIsWhole
<1>1. Init => WholeInv
  BY DEF Init, WholeInv, Empty, PointPhases, Absent, Torn
<1>2. WholeInv => CommitIsWhole
  BY DEF WholeInv, CommitIsWhole, Clean, Entries, Skipped
<1>3. (TypeInv /\ SafeInv) /\ WholeInv /\ [Next]_vars => WholeInv'
  BY WholeInvInductive
<1> QED
  BY <1>1, <1>2, <1>3, SafeInvariant, PTL DEF Spec

-----------------------------------------------------------------------------
(* Processes run what is installed.                                        *)

\* Outside the part of a run in which the new release goes in, nothing starts an
\* executable but the shell.
NoLateStarts == LaunchPoints \subseteq {"backup", "commit"} \cup InForcePhases

NewGoesIn == {"backup", "commit"} \cup InForcePhases

Fits(r) == running[r] \in {Absent, live[r]}

\* Every process runs the installed release, but for IoTSvc while the new release
\* goes in; a rollback that reports no failure has redeployed and registered.
ServiceInv ==
  /\ \A r \in Roles : r # Ecram \/ pc \notin NewGoesIn => Fits(r)
  /\ pc \in {"rb_task", "rb_verify", "rb_clean"} /\ rbFailed = FALSE => Deployed
  /\ pc = "rb_clean" /\ rbFailed = FALSE => registered = TRUE
  /\ pc = "idle" /\ result = "rolledback" => Deployed /\ registered = TRUE

\* In that environment no step breaks what ServiceInv says.
LEMMA ServiceInvInductive ==
  ASSUME SafeEnvironment, NoLateStarts, TypeInv, SafeInv, OkInv, ServiceInv, [Next]_vars
  PROVE  ServiceInv'
<1> USE DEF ServiceInv, NewGoesIn, InForcePhases, Fits, Deployed, files, procs, shell
<1>t. /\ Roles \subseteq Items /\ Ecram \in Roles /\ Dirs \cap Roles = {}
      /\ live \in [Items -> Content] /\ running \in [Roles -> Content]
      /\ pc \in Phases /\ todo \subseteq Items /\ item \in Items \cup {None}
      /\ failed \in BOOLEAN /\ rbFailed \in BOOLEAN /\ registered \in BOOLEAN
  BY DEF TypeInv, TypeOK, Roles
<1>s. \A r \in Roles : Stopped[r] = Absent
  BY DEF Stopped
<1>0. CASE UNCHANGED vars
  BY <1>0 DEF vars
<1>1. CASE \/ StartRun \/ RecoverCleaned \/ RejectPayload \/ AcceptPayload \/ ExtractFail
           \/ Extracted \/ CopyEnd \/ RecoverDone \/ ShellKilled
  <2>1. /\ UNCHANGED <<live, procs>>
        /\ pc' \in NewGoesIn => pc \in NewGoesIn
        /\ pc \in NewGoesIn => pc' \in NewGoesIn
    BY <1>1 DEF StartRun, RecoverCleaned, RejectPayload, AcceptPayload, ExtractFail,
       Extracted, CopyEnd, RecoverDone, ShellKilled, SafeEnvironment, Close, Goto
  <2>2. /\ pc' \notin {"rb_task", "rb_verify", "rb_clean"}
        /\ pc' = "idle" => result' # "rolledback"
    BY <1>1 DEF StartRun, RecoverCleaned, RejectPayload, AcceptPayload, ExtractFail,
       Extracted, CopyEnd, RecoverDone, ShellKilled, Close, Goto
  <2> QED
    BY <2>1, <2>2
<1>2. CASE StopOk \/ PowerLoss \/ RollbackStop \/ StopFail \/ BackupBlocked
  <2>1. \A r \in Roles : running'[r] = Absent \/ (pc = "stop" /\ running'[r] = running[r])
    BY <1>2, <1>s DEF StopOk, PowerLoss, RollbackStop, StopFail, BackupBlocked, SomeSurvive,
       SafeEnvironment
  <2>2. /\ live' = live /\ pc' \notin {"rb_task", "rb_verify", "rb_clean"}
        /\ pc' = "idle" => result' # "rolledback"
    BY <1>2 DEF StopOk, PowerLoss, RollbackStop, StopFail, BackupBlocked, Close
  <2> QED
    BY <2>1, <2>2
<1>3. CASE BackupDone \/ SwapDone \/ RestoreDone
  <2>1. /\ UNCHANGED <<live, procs>>
        /\ pc' \in {"swap", "drivers", "rb_bridge"}
        /\ pc' \notin NewGoesIn => pc \notin NewGoesIn
    BY <1>3 DEF BackupDone, SwapDone, RestoreDone
  <2> QED
    BY <2>1
<1>4. CASE MoveRemove \/ MoveRename
  <2>1. /\ Moving /\ item \in Items /\ UNCHANGED <<procs, pc, rbFailed, result>>
        /\ \A i \in Items : i # item => live'[i] = live[i]
    BY <1>4, <1>t DEF MoveRemove, MoveRename
  <2>2. pc # "swap" => \A r \in Roles : running[r] = Absent
    BY <2>1 DEF SafeInv, Moving, Gone, Unlocked
  <2>3. pc = "swap" /\ item \in Roles /\ item # Ecram => running[item] = Absent
    BY <1>4, <1>t DEF MoveRemove, MoveRename, Locked
  <2> QED
    BY <2>1, <2>2, <2>3, <1>t DEF Moving
<1>5. CASE StatelessPoint
  <2>1. /\ UNCHANGED <<live, procs>>
        /\ pc' \in {"ecram", "bridge", "rb_verify"} /\ (pc' = "rb_verify" => pc = "rb_task")
        /\ pc' \notin NewGoesIn => pc \notin NewGoesIn
        /\ pc = "rb_task" /\ rbFailed' = FALSE => rbFailed = FALSE
    BY <1>5, <1>t DEF StatelessPoint, Advance, NextPoint, Record
  <2> QED
    BY <2>1
<1>6. CASE EcramPoint
  <2>1. /\ live' = live /\ pc' \in {"task", "rb_task"}
        /\ pc' \notin NewGoesIn => pc = "rb_ecram"
    BY <1>6 DEF EcramPoint, Advance, NextPoint
  <2>2. /\ \A r \in Roles : r # Ecram => running'[r] = running[r]
        /\ running'[Ecram] \in {running[Ecram], live[Ecram], Absent}
    BY <1>6, <1>t DEF EcramPoint
  <2>3. pc' = "rb_task" /\ rbFailed' = FALSE => Deployed'
    <3> SUFFICES ASSUME pc' = "rb_task", rbFailed' = FALSE PROVE Deployed'
      OBVIOUS
    <3>1. pc = "rb_ecram"
      BY <2>1
    <3>2. Record(TRUE) => rbFailed' # FALSE
      BY <3>1, <1>t DEF Record
    <3>3. /\ live[Ecram] # Absent /\ deployed' = live[Ecram]
          /\ running' = [running EXCEPT ![Ecram] = live[Ecram]]
      BY <1>6, <3>2 DEF EcramPoint
    <3>4. running'[Ecram] = live[Ecram]
      BY <3>3, <1>t
    <3> QED
      BY <2>1, <3>3, <3>4
  <2> QED
    BY <2>1, <2>2, <2>3
<1>7. CASE BridgePoint
  <2>1. /\ live' = live /\ pc' \in {"face", "rb_ecram"}
        /\ pc' \notin NewGoesIn => pc \notin NewGoesIn
    BY <1>7 DEF BridgePoint, Advance, NextPoint
  <2>2. \A r \in Roles : running'[r] \in {running[r], live[r], Absent}
    BY <1>7, <1>t DEF BridgePoint
  <2> QED
    BY <2>1, <2>2
<1>8. CASE FacePoint
  <2>1. live' = live /\ pc' = "verify" /\ pc = "face"
    BY <1>8 DEF FacePoint, Goto
  <2>2. \A r \in Roles : running'[r] \in {running[r], live[r], Absent}
    BY <1>8, <1>t DEF FacePoint
  <2> QED
    BY <2>1, <2>2
<1>9. CASE VerifyPoint
  <2>1. /\ UNCHANGED <<live, procs>> /\ pc' \in {"rb_clean", "rb_stop", "commit"}
        /\ pc' = "rb_clean" => pc = "rb_verify"
    BY <1>9 DEF VerifyPoint, Advance
  <2>2. pc = "rb_verify" /\ rbFailed' = FALSE => rbFailed = FALSE /\ registered = TRUE
    BY <1>9, <1>t DEF VerifyPoint, Record
  <2> QED
    BY <2>1, <2>2
<1>10. CASE Finish
  <2>1. /\ pc = "commit" /\ pc' = "idle" /\ result' = "ok" /\ live' = live
    BY <1>10 DEF Finish, Close
  <2>2. \A r \in Roles : running'[r] \in {running[r], live[r]}
    BY <1>10, <1>t DEF Finish
  <2> QED
    BY <2>1, <2>2 DEF OkInv
<1>11. CASE RolledBack
  <2>1. /\ pc = "rb_clean" /\ pc' = "idle" /\ UNCHANGED <<live, procs>>
        /\ result' = "rolledback" => rbFailed = FALSE
    BY <1>11, <1>t DEF RolledBack, Close
  <2> QED
    BY <2>1
<1>12. ASSUME NEW i \in Items, \/ DeleteTear(i) \/ DeleteEntry(i) \/ ExtractEntry(i)
                               \/ CopyBegin(i)
       PROVE  ServiceInv'
  BY <1>12 DEF DeleteTear, DeleteEntry, ExtractEntry, CopyBegin
<1>13. ASSUME NEW i \in Items, MoveBegin(i) PROVE ServiceInv'
  <2>1. \A r \in Roles : live'[r] = live[r]
    BY <1>13, <1>t DEF MoveBegin
  <2>2. UNCHANGED <<procs, pc, rbFailed, result>>
    BY <1>13 DEF MoveBegin
  <2> QED
    BY <2>1, <2>2, <1>t
<1>14. ASSUME NEW r \in Roles, Launch(r) PROVE ServiceInv'
  <2>1. pc \in NewGoesIn /\ UNCHANGED <<live, pc>>
    BY <1>14 DEF Launch, NoLateStarts
  <2>2. running' = [running EXCEPT ![r] = Image(r)] /\ (r # Ecram => Image(r) = live[r])
    BY <1>14 DEF Launch, Image
  <2> QED
    BY <2>1, <2>2, <1>t
<1> QED
  BY <1>0, <1>1, <1>2, <1>3, <1>4, <1>5, <1>6, <1>7, <1>8, <1>9, <1>10, <1>11, <1>12, <1>13,
     <1>14 DEF Next

\* While the backup is spared and nothing starts at the wrong time, between runs no
\* process executes another release than the installed one, and a run that commits
\* or rolls back leaves IoTSvc and the bridge service running and registered.
THEOREM ServicesFit ==
  ASSUME SafeEnvironment, NoLateStarts, Bridge # Ecram  PROVE Spec => []ServicesMatchFiles
<1>1. Init => OkInv /\ ServiceInv
  <2>1. Roles \subseteq Items
    BY DEF Roles
  <2>2. Init => \A r \in Roles : Fits(r)
    BY <2>1 DEF Init, Fits
  <2>3. Init => pc = "idle" /\ result = "none"
    BY DEF Init
  <2> QED
    BY <2>2, <2>3 DEF OkInv, LatePhases, ServiceInv
<1>2. OkInv /\ ServiceInv => ServicesMatchFiles
  BY DEF OkInv, ServiceInv, ServicesMatchFiles, Fits, Deployed, NewGoesIn, InForcePhases
<1>3. (TypeInv /\ SafeInv) /\ OkInv /\ ServiceInv /\ [Next]_vars => OkInv' /\ ServiceInv'
  BY OkInvInductive, ServiceInvInductive
<1> QED
  BY <1>1, <1>2, <1>3, SafeInvariant, PTL DEF Spec

=============================================================================
