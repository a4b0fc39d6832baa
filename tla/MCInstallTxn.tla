----------------------------- MODULE MCInstallTxn -----------------------------
(* Small instances of InstallTxn.  "drivers" stands for the two directories *)
(* of the backup list, "extra" for a payload entry outside that list, and   *)
(* "user" for a file of the user.                                           *)
EXTENDS InstallTxn

MCItems    == {"app", "ecram", "bridge", "face", "drivers", "extra", "setup", "user"}
MCCritical == {"app", "ecram", "bridge", "face", "drivers"}

Quiet == {"setup", "user"}
MCInstalls == {Quiet, Quiet \cup {"app", "ecram", "bridge", "drivers"}}
MCPayloads == {{"app", "ecram", "bridge", "drivers", "extra", "setup"},
               {"app", "ecram", "bridge", "face"}}

\* The environment in which the documented guarantee holds: the backup, the
\* stop before a rollback, the restore and the removal of the backup do not
\* fail; power is not lost while the backup is written or removed; nothing
\* starts between a power loss and the recovery, or during a restore.
SafeFaults  == {"extract", "stop", "swap", "drivers", "ecram", "bridge", "verify",
                "rb_bridge", "rb_ecram", "rb_task", "rb_verify", "rb_clean"}
SafeCrashes == {"recover", "extract", "swap", "verify", "rb_restore"}
SafeKills   == {"prepare", "rb_bridge"}
SafeLaunch  == {"swap", "bridge"}

\* Any environment: every phase may fail; power is lost, the shell is killed
\* and executables are started at the worst moments.
AnyPhase     == Phases
WorstCrashes == {"backup", "swap"}
WorstKills   == {"verify"}
WorstLaunch  == {"idle"}

FewCritical == {"app", "ecram", "bridge", "face"}
FewItems    == FewCritical \cup {"setup"}
OneInstall  == {{"setup", "app", "ecram", "bridge"}}
OnePayload  == {{"app", "ecram", "bridge"}}

\* The environment install.rs describes for recovery: power lost between the
\* backup and the commit.  At the next boot the service manager starts the
\* registered services and the Run key starts the app.
BootCrashes == {"swap", "drivers", "ecram", "verify"}
BootLaunch  == {"idle"}
NoFaults    == {}
BackupFault == {"backup", "bridge"}
=============================================================================
