--------------------------------- MODULE Updates ---------------------------------
(***************************************************************************)
(* App and driver updates: the downloads (commands/system.rs, the bridge's *)
(* command line), install_update in the bridge or the helper (elevated.rs) *)
(* with the bootstrap of the setup shell (bootstrap.rs), and the check of  *)
(* the vendor's driver page (hw/driver_update.rs).                         *)
(***************************************************************************)
EXTENDS Naturals, Sequences

CONSTANTS
  Handlers,         \* runs of install_update at a time: a request, its retry, its task
  MaxAsks,          \* bound on update flows begun and driver checks made
  MaxUpdateFaults   \* bound on crashes, failed downloads, failed copies

ASSUME UpdatesAssumption == MaxAsks \in Nat /\ MaxUpdateFaults \in Nat

Flows == {"ui", "auto", "cli"}      \* find_latest_…, trigger_auto_update, relay_auto_update
FileOf == [f \in Flows |-> IF f = "ui" THEN "local" ELSE "updates"]
UpdateFiles == {"local", "updates"}
FileStates == {"none", "torn", "whole"}

VARIABLES
  feed,         \* a beta feed URL is stored
  flow,         \* per flow: where it is
  updateFile,   \* the installer in LOCALAPPDATA\MiControl, in TEMP\MiControl\updates
  handler,      \* per handler: where it is, and the file it was given
  shellFile,    \* setup\micontrol_setup.exe
  partFile,     \* micontrol_setup.exe.part
  launched,     \* how the shell was when it was last launched; "none" before
  offers,       \* driver updates offered
  updateAsks, updateFaults

updateVars == <<feed, flow, updateFile, handler, shellFile, partFile, launched, offers, updateAsks,
                updateFaults>>

IdleHandler == [at |-> "idle", file |-> "local"]

(* The vendor's page: lines of links, of the CDN or not, each with a version.  *)
Link(cdn, version) == [cdn |-> cdn, version |-> version]
Pages == {<< <<Link(TRUE, <<2, 1>>), Link(FALSE, <<3>>)>> >>,   \* two links on a line
          << <<Link(TRUE, <<2, 1>>)>>, <<Link(TRUE, <<2>>)>> >>}  \* one link a line
FirstCdn(line) == CHOOSE i \in 1..Len(line) :
                    line[i].cdn /\ \A j \in 1..i - 1 : ~line[j].cdn

\* The text searched for "http" begins at the host of the first CDN link of the
\* line, so the link taken is the one after it, if the line has one.
OfficialDrivers(page) ==
  {page[l][FirstCdn(page[l]) + 1] : l \in {k \in 1..Len(page) :
     (\E i \in 1..Len(page[k]) : page[k][i].cdn) /\ FirstCdn(page[k]) < Len(page[k])}}

\* Numeric parts in order; of two equal prefixes the longer is the newer.
VersionIsNewer(official, installed) ==
  /\ official # <<>> /\ installed # <<>>
  /\ LET common == {i \in 1..Len(official) : i <= Len(installed) /\ official[i] # installed[i]}
     IN  IF common = {} THEN Len(official) > Len(installed)
         ELSE \E i \in common : official[i] > installed[i] /\ \A j \in common : i <= j

HandlerStates == [at : {"idle", "look", "fetch", "write", "written", "launch", "failed"},
                  file : UpdateFiles]
\* The update itself; the offers of the driver check beside it.
InstallTypeOK ==
  /\ feed \in BOOLEAN /\ flow \in [Flows -> {"idle", "writing", "asked", "error"}]
  /\ updateFile \in [UpdateFiles -> FileStates]
  /\ handler \in [Handlers -> HandlerStates]
  /\ shellFile \in FileStates /\ partFile \in FileStates /\ launched \in FileStates
  /\ updateAsks \in 0..MaxAsks /\ updateFaults \in 0..MaxUpdateFaults
UpdatesTypeOK == InstallTypeOK /\ offers \subseteq {<<2>>, <<2, 1>>, <<3>>}

\* An NSIS install, which has no setup shell yet.
UpdatesInit ==
  /\ feed = FALSE /\ flow = [f \in Flows |-> "idle"]
  /\ updateFile = [p \in UpdateFiles |-> "none"]
  /\ handler = [h \in Handlers |-> IdleHandler]
  /\ shellFile = "none" /\ partFile = "none" /\ launched = "none" /\ offers = {}
  /\ updateAsks = 0 /\ updateFaults = 0

Ask == updateAsks < MaxAsks /\ updateAsks' = updateAsks + 1
UpdateFault == updateFaults < MaxUpdateFaults /\ updateFaults' = updateFaults + 1
FlowGoes(f, to) == flow' = [flow EXCEPT ![f] = to]
HandlerGoes(h, to) == handler' = [handler EXCEPT ![h].at = to]
bootstrapVars == <<handler, shellFile, partFile, launched>>

SetFeed(on) ==
  /\ feed # on /\ feed' = on /\ Ask
  /\ UNCHANGED <<flow, updateFile, offers, updateFaults, bootstrapVars>>

\* The newest file the updater plugin left in TEMP is copied under its canonical
\* name, over what is there; the stale installers are deleted before the copy.
FindLatest ==
  /\ flow["ui"] \in {"idle", "error"} /\ Ask /\ FlowGoes("ui", "writing")
  /\ updateFile' = [updateFile EXCEPT !["local"] = "torn"]
  /\ UNCHANGED <<feed, offers, updateFaults, bootstrapVars>>

\* A URL given or the stored one, named as an installer; the file is downloaded
\* whole and then written.
Download(f) ==
  /\ f # "ui" /\ flow[f] \in {"idle", "error"} /\ Ask
  /\ \/ /\ (f = "auto" => feed) /\ FlowGoes(f, "writing")
        /\ updateFile' = [updateFile EXCEPT !["updates"] = "torn"] /\ UNCHANGED updateFaults
     \/ UpdateFault /\ FlowGoes(f, "error") /\ UNCHANGED updateFile
  /\ UNCHANGED <<feed, offers, bootstrapVars>>

\* The copy or the write ends; one that fails leaves what it wrote.
WriteEnds(f) ==
  /\ flow[f] = "writing"
  /\ \/ updateFile' = [updateFile EXCEPT ![FileOf[f]] = "whole"] /\ FlowGoes(f, "asked")
        /\ UNCHANGED updateFaults
     \/ UpdateFault /\ FlowGoes(f, "error") /\ UNCHANGED updateFile
  /\ UNCHANGED <<feed, updateAsks, offers, bootstrapVars>>

\* install_update reaches a handler: by the pipe, by its retry, or by the task.
BeginInstall(f, h) ==
  /\ flow[f] = "asked" /\ handler[h].at \in {"idle", "failed"}
  /\ updateFile[FileOf[f]] # "none"
  /\ handler' = [handler EXCEPT ![h] = [at |-> "look", file |-> FileOf[f]]]
  /\ UNCHANGED <<feed, flow, updateFile, shellFile, partFile, launched, offers, updateAsks,
                 updateFaults>>

\* The answer, or the end of the client's patience: 15 s of the app, 8 s of the CLI.
FlowEnds(f) ==
  /\ flow[f] = "asked" /\ \E h \in Handlers : handler[h].file = FileOf[f] /\ handler[h].at # "idle"
  /\ FlowGoes(f, "idle")
  /\ UNCHANGED <<feed, updateFile, offers, updateAsks, updateFaults, bootstrapVars>>

\* A shell that is there is launched; else the .part of an earlier try goes.
LookForShell(h) ==
  /\ handler[h].at = "look"
  /\ IF shellFile # "none" THEN HandlerGoes(h, "launch") /\ UNCHANGED partFile
                           ELSE HandlerGoes(h, "fetch") /\ partFile' = "none"
  /\ UNCHANGED <<feed, flow, updateFile, shellFile, launched, offers, updateAsks, updateFaults>>

\* The download, of a plausible size or refused, and the write of the .part.
FetchShell(h) ==
  /\ handler[h].at = "fetch"
  /\ \/ partFile' = "torn" /\ HandlerGoes(h, "write") /\ UNCHANGED updateFaults
     \/ UpdateFault /\ HandlerGoes(h, "failed") /\ UNCHANGED partFile
  /\ UNCHANGED <<feed, flow, updateFile, shellFile, launched, offers, updateAsks>>

PartWritten(h) ==
  /\ handler[h].at = "write"
  /\ \/ /\ partFile' = "whole" /\ HandlerGoes(h, "written") /\ UNCHANGED updateFaults
     \/ UpdateFault /\ HandlerGoes(h, "failed") /\ UNCHANGED partFile
  /\ UNCHANGED <<feed, flow, updateFile, shellFile, launched, offers, updateAsks>>

\* Mutant: the .part becomes the shell before it is written out.
RenamePartTooEarly(h) ==
  /\ handler[h].at \in {"write", "written"}
  /\ shellFile' = partFile /\ partFile' = "none" /\ HandlerGoes(h, "launch")
  /\ UNCHANGED <<feed, flow, updateFile, launched, offers, updateAsks, updateFaults>>
\* The .part becomes the shell; one that is gone is an error.
RenamePart(h) ==
  /\ handler[h].at = "written"
  /\ IF partFile = "none" THEN HandlerGoes(h, "failed") /\ UNCHANGED <<shellFile, partFile>>
     ELSE shellFile' = partFile /\ partFile' = "none" /\ HandlerGoes(h, "launch")
  /\ UNCHANGED <<feed, flow, updateFile, launched, offers, updateAsks, updateFaults>>

\* The shell is spawned with the file it is to apply and runs on its own.
Launch(h) ==
  /\ handler[h].at = "launch" /\ launched' = shellFile /\ HandlerGoes(h, "idle")
  /\ UNCHANGED <<feed, flow, updateFile, shellFile, partFile, offers, updateAsks, updateFaults>>

\* The bridge or the whole machine stops; the files stay as they are.
UpdateCrash ==
  /\ UpdateFault /\ handler' = [h \in Handlers |-> IdleHandler]
  /\ flow' = [f \in Flows |-> IF flow[f] = "idle" THEN "idle" ELSE "error"]
  /\ UNCHANGED <<feed, updateFile, shellFile, partFile, launched, offers, updateAsks>>

CheckDrivers ==
  /\ Ask /\ \E page \in Pages, installed \in {<<>>, <<2>>, <<3>>} :
       offers' = {v \in {d.version : d \in OfficialDrivers(page)} : VersionIsNewer(v, installed)}
  /\ UNCHANGED <<feed, flow, updateFile, updateFaults, bootstrapVars>>

UpdatesNext ==
  \/ \E on \in BOOLEAN : SetFeed(on)
  \/ FindLatest \/ CheckDrivers \/ UpdateCrash
  \/ \E f \in Flows : Download(f) \/ WriteEnds(f) \/ FlowEnds(f)
  \/ \E f \in Flows, h \in Handlers : BeginInstall(f, h)
  \/ \E h \in Handlers : \/ LookForShell(h) \/ FetchShell(h) \/ PartWritten(h)
                         \/ RenamePart(h) \/ Launch(h)

UpdatesSpec == UpdatesInit /\ [][UpdatesNext]_updateVars

-----------------------------------------------------------------------------
(* Properties.                                                             *)

\* With one run of install_update at a time, the shell that is launched was put in
\* place whole, whatever download, write or crash came before (ensure_shell's .part).
ShellIsWhole == shellFile # "torn" /\ launched # "torn"
==================================================================================
