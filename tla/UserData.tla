--------------------------------- MODULE UserData -------------------------------
(***************************************************************************)
(* What the program leaves on the disk: the rotated logs (util/            *)
(* log_rotation.rs, util/error_log.rs), crash reports, the alerts of the   *)
(* leak monitor, and the commands that export and delete the user's data   *)
(* (commands/privacy.rs, util/data_deletion.rs).                           *)
(***************************************************************************)
EXTENDS Integers

CONSTANTS
  LogThreads,    \* threads that write lines
  OldFiles,      \* rotated files kept: 3, and 5 for the error log
  MaxLogFiles,   \* bound on files ever begun
  MaxDataMoves   \* bound on writes of user data, exports and deletions

ASSUME UserDataAssumption ==
  /\ OldFiles \in Nat \ {0} /\ MaxLogFiles \in Nat /\ MaxDataMoves \in Nat
  /\ "free" \notin LogThreads

\* The app's or the bridge's log, rotated under a lock, and errors.log, rotated without.
Logs == {"rotating", "errors"}
\* These, the user's data and the leak monitor share no state: one behaviour is about one.
Areas == Logs \cup {"data", "leaks"}
Missing == 0                                 \* files are numbered as they are begun
\* The user's data by how delete_all_user_data treats it: reported by what came of it,
\* reported as deleted whatever came of it, not reported, not deleted at all.
Data == {"reported", "forced", "silent", "left"}
DeletionOrder == <<"reported", "forced", "silent">>

VARIABLES
  area,
  slots,        \* the file in each place of the log, 0 for the live one
  tooBig,       \* the live file has reached its size
  logLock,      \* rotation_lock
  appender,     \* per thread: its step, the place it shifts next
  begun,        \* files begun
  errorsOn,     \* error_log's switch
  data,         \* the user's data that is there
  deleting,     \* classes gone through, 0 when idle
  report, deletionFailed,
  exported,     \* the last export: none, partial, whole
  crashSink,    \* where a crash goes: unset, off, file, http
  leak,         \* the monitor: samples (3 are enough), leaking, silent after an alert
  dataMoves

logVars == <<area, slots, tooBig, logLock, appender, begun, errorsOn>>
deleteVars == <<data, deleting, report, deletionFailed, exported>>
userVars == <<logVars, deleteVars, crashSink, leak, dataMoves>>

UserDataTypeOK ==
  /\ area \in Areas /\ slots \in [0..OldFiles -> 0..MaxLogFiles] /\ tooBig \in BOOLEAN
  /\ logLock \in LogThreads \cup {"free"}
  /\ appender \in [LogThreads -> [at : {"idle", "size", "shift", "write"}, place : 0..OldFiles]]
  /\ begun \in 0..MaxLogFiles /\ errorsOn \in BOOLEAN
  /\ data \subseteq Data /\ deleting \in 0..3 /\ report \subseteq Data /\ deletionFailed \in BOOLEAN
  /\ exported \in {"none", "partial", "whole"} /\ crashSink \in {"unset", "off", "file", "http"}
  /\ leak \in [samples : 0..3, leaking : BOOLEAN, silent : BOOLEAN]
  /\ dataMoves \in 0..MaxDataMoves

UserDataStart ==
  /\ slots = [i \in 0..OldFiles |-> Missing] /\ tooBig = FALSE /\ logLock = "free" /\ begun = 0
  /\ appender = [t \in LogThreads |-> [at |-> "idle", place |-> 0]]
  /\ errorsOn = TRUE /\ data = {} /\ deleting = 0 /\ report = {} /\ deletionFailed = FALSE
  /\ exported = "none" /\ crashSink = "unset"
  /\ leak = [samples |-> 0, leaking |-> FALSE, silent |-> FALSE] /\ dataMoves = 0
UserDataInit == area \in Areas /\ UserDataStart

LogIdle == area \in Logs /\ UNCHANGED <<area, deleteVars, crashSink, leak, dataMoves>>
LogGoes(t, at) == appender' = [appender EXCEPT ![t].at = at]

\* append_line and log_error begin with the question whether the live file is too big.
Appends(t) ==
  /\ appender[t].at = "idle" /\ (area = "errors" => errorsOn)
  /\ appender' = [appender EXCEPT ![t] = [at |-> "size", place |-> OldFiles]]
  /\ UNCHANGED <<slots, tooBig, logLock, begun, errorsOn>> /\ LogIdle

\* Mutant: the lock is taken without waiting for it.
NeedNotWait == TRUE
\* rotate_if_needed takes the lock first, rotate_log of the error log does not.
MayRotate == area = "errors" \/ logLock = "free"
Sizes(t) ==
  /\ appender[t].at = "size" /\ MayRotate
  /\ IF tooBig
     THEN LogGoes(t, "shift") /\ logLock' = IF area = "rotating" THEN t ELSE logLock
     ELSE LogGoes(t, "write") /\ UNCHANGED logLock
  /\ UNCHANGED <<slots, tooBig, begun, errorsOn>> /\ LogIdle

\* The oldest file is removed, every other moves one place on, the live one last; a rename
\* replaces what is in its way.
Shifts(t) ==
  /\ appender[t].at = "shift"
  /\ LET i == appender[t].place IN
     /\ slots' = IF i = OldFiles THEN [slots EXCEPT ![i] = Missing]
                 ELSE IF slots[i] = Missing THEN slots
                 ELSE [slots EXCEPT ![i + 1] = slots[i], ![i] = Missing]
     /\ appender' = IF i = 0 THEN [appender EXCEPT ![t].at = "write"]
                    ELSE [appender EXCEPT ![t].place = i - 1]
     /\ tooBig' = (tooBig /\ i > 0)
     /\ logLock' = IF i = 0 /\ logLock = t THEN "free" ELSE logLock
  /\ UNCHANGED <<begun, errorsOn>> /\ LogIdle

\* The line is added to the live file, which is begun if it is not there and may become
\* too big.
WritesLine(t) ==
  /\ appender[t].at = "write" /\ LogGoes(t, "idle")
  /\ \/ slots[0] # Missing /\ UNCHANGED <<slots, begun>>
     \/ /\ slots[0] = Missing /\ begun < MaxLogFiles
        /\ begun' = begun + 1 /\ slots' = [slots EXCEPT ![0] = begun + 1]
  /\ tooBig' \in {tooBig, TRUE}
  /\ UNCHANGED <<logLock, errorsOn>> /\ LogIdle
\* set_enabled.
SwitchErrors ==
  /\ area = "errors" /\ errorsOn' = ~errorsOn
  /\ UNCHANGED <<slots, tooBig, logLock, appender, begun>> /\ LogIdle

Still == area = "data" /\ UNCHANGED <<logVars, crashSink, leak>>
DataMove == dataMoves < MaxDataMoves /\ dataMoves' = dataMoves + 1
\* The rest of the program writes its data, whatever the commands below are doing.
WritesData(d) ==
  /\ DataMove /\ data' = data \cup {d}
  /\ UNCHANGED <<deleting, report, deletionFailed, exported>> /\ Still

\* delete_all_user_data, class by class; a file that is not there counts as deleted, one
\* that cannot be removed as an error.
StartsDeletion ==
  /\ DataMove /\ deleting = 0 /\ deleting' = 1 /\ report' = {} /\ deletionFailed' = FALSE
  /\ UNCHANGED <<data, exported>> /\ Still
Deletes(d, removed) ==
  /\ data' = IF removed THEN data \ {d} ELSE data
  /\ deletionFailed' = (deletionFailed \/ ~removed)
  /\ report' = IF d = "forced" \/ (d = "reported" /\ removed) THEN report \cup {d} ELSE report
DeletesClass ==
  /\ deleting > 0 /\ deleting' = (deleting + 1) % 4
  /\ \E removed \in BOOLEAN : (~removed => DeletionOrder[deleting] \in data)
                              /\ Deletes(DeletionOrder[deleting], removed)
  /\ UNCHANGED <<exported, dataMoves>> /\ Still
\* export_user_data: the files that are there at the time; a read that fails ends it and
\* leaves the archive as it is.
Exports ==
  /\ DataMove /\ exported' \in {"partial", "whole"}
  /\ UNCHANGED <<data, deleting, report, deletionFailed>> /\ Still

\* init_crash_reporting, by the registry; a crash before it goes nowhere.
StartsCrashReports ==
  /\ area = "data" /\ crashSink' \in {"off", "file", "http"}
  /\ UNCHANGED <<logVars, deleteVars, leak, dataMoves>>
ReportsCrash ==
  /\ data' = IF crashSink \in {"file", "http"} THEN data \cup {"left"} ELSE data
  /\ UNCHANGED <<deleting, report, deletionFailed, exported, dataMoves>> /\ Still
\* The leak monitor: a verdict from 3 samples of the last 15 minutes on, an alert at most
\* every 30 minutes. A sleep makes the old samples leave the window.
LeakSample ==
  /\ area = "leaks"
  /\ \E samples \in {1} \cup {leak.samples, IF leak.samples < 3 THEN leak.samples + 1 ELSE 3},
        leaking \in BOOLEAN :
       leak' = [samples |-> samples, leaking |-> leaking /\ samples = 3,
                silent |-> leak.silent \/ (leaking /\ samples = 3)]
  /\ UNCHANGED <<logVars, deleteVars, crashSink, dataMoves>>
AlertsAgain ==
  /\ leak.silent /\ leak' = [leak EXCEPT !.silent = FALSE]
  /\ UNCHANGED <<logVars, deleteVars, crashSink, dataMoves>>

UserDataNext ==
  \/ \E t \in LogThreads : Appends(t) \/ Sizes(t) \/ Shifts(t) \/ WritesLine(t)
  \/ SwitchErrors \/ StartsDeletion \/ DeletesClass \/ Exports \/ StartsCrashReports \/ ReportsCrash
  \/ LeakSample \/ AlertsAgain
  \/ \E d \in Data : WritesData(d)

UserDataSpec == UserDataInit /\ [][UserDataNext]_userVars

-----------------------------------------------------------------------------
(* Properties.                                                             *)

\* The log keeps its newest files, in order: whatever the threads do, no file is lost while
\* an older one is kept (rotation_lock). errors.log, rotated without a lock, keeps no such
\* promise.
NewestFilesAreKept ==
  LET kept == {slots[i] : i \in 0..OldFiles} \ {Missing} IN
  area = "rotating" =>
    /\ \A f \in kept : f..begun \subseteq kept
    /\ \A i, j \in 0..OldFiles :
         i < j /\ slots[i] # Missing => slots[j] < slots[i]
==================================================================================
