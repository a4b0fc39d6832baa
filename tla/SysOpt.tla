---------------------------------- MODULE SysOpt ---------------------------------
(***************************************************************************)
(* The system optimizations (hw/sys_opt.rs): a tweak is a program of       *)
(* writes, a flag and a kept value, which may fail or be cut short at every *)
(* write. Tweaks share no setting, so one of them is followed at a time.   *)
(***************************************************************************)
EXTENDS Integers, Sequences

CONSTANTS
  MaxTweakCommands,   \* bound on commands
  MaxTweakFaults      \* bound on writes that fail and on crashes

ASSUME SysOptAssumption == MaxTweakCommands \in Nat /\ MaxTweakFaults \in Nat

Tweaks == {"telemetry", "diagtrack", "ceip", "appraiser", "dword", "activity", "search",
           "consumer", "delivery", "appx", "onedrive", "copilot", "edge", "widgets", "cortana",
           "services"}
Slots == 1..3                        \* the settings of a tweak, as many as its program writes
Settings == {"absent", "off", "on"}  \* "on": what an applied tweak sets

(* Steps: a write that must succeed, one that may fail and is counted, the     *)
(* flag, the value kept. "ifWritten" are for members whose write succeeded.    *)
Step(do, i) == [do |-> do, slot |-> i]
Must(i) == Step("must", i)
May(i) == Step("may", i)
Flag == Step("flag", 0)
Keep(i) == Step("keep", i)

\* mark_applied sets the flag and then keeps the value, mark_restored clears the flag.
Marked(on, kept) == IF on THEN <<Flag>> \o kept ELSE <<Flag>>

\* The programs, each as its function runs it.
TelemetryLevel(on) == <<Must(1), Must(2)>> \o Marked(on, <<Keep(1)>>)
Diagtrack(on) == <<Must(1)>> \o Marked(on, <<Keep(1)>>)
CeipTasks(on) == <<May(1), May(2)>> \o Marked(on, <<>>)
CompatAppraiser(on) == <<Must(1)>> \o Marked(on, <<>>)
DwordTweak(on) == <<Must(1)>> \o Marked(on, <<Keep(1)>>)
ActivityHistory(on) == DwordTweak(on) \o <<Must(2), Must(3)>>
WebSearchStart(on) == DwordTweak(on) \o <<Must(2)>>
ConsumerFeatures(on) == <<Must(1), Must(2)>> \o Marked(on, <<>>)
DeliveryOptUpload(on) == <<Must(1)>> \o Marked(on, <<Keep(1)>>)
AppxGroup(on) == <<May(1), May(2)>> \o Marked(on, <<>>)
Onedrive(on) == (IF on THEN <<Must(1), Must(2)>> ELSE <<Must(2), Must(1)>>) \o Marked(on, <<>>)
Copilot(on) == (IF on THEN <<Must(1), May(2)>> ELSE <<Must(1)>>) \o Marked(on, <<>>)
EdgePreinstall(on) == <<Must(1), Must(2), Must(3)>> \o Marked(on, <<>>)
Widgets(on) == (IF on THEN <<May(1), May(2), May(3)>> ELSE <<May(1), May(2)>>) \o Marked(on, <<>>)
CortanaRelics(on) == <<May(1), May(2)>> \o Marked(on, <<>>)
\* A service that could be disabled is flagged and kept at once.
UnusedServices(on) ==
  IF on THEN <<May(1), Step("flagIfWritten", 1), Step("keepIfWritten", 1),
               May(2), Step("flagIfWritten", 2), Step("keepIfWritten", 2)>>
  ELSE <<May(1), May(2), Flag>>

\* set_tweak's dispatch.
Program(id, on) ==
  [telemetry |-> TelemetryLevel(on), diagtrack |-> Diagtrack(on), ceip |-> CeipTasks(on),
   appraiser |-> CompatAppraiser(on), dword |-> DwordTweak(on), activity |-> ActivityHistory(on),
   search |-> WebSearchStart(on), consumer |-> ConsumerFeatures(on),
   delivery |-> DeliveryOptUpload(on), appx |-> AppxGroup(on), onedrive |-> Onedrive(on),
   copilot |-> Copilot(on), edge |-> EdgePreinstall(on), widgets |-> Widgets(on),
   cortana |-> CortanaRelics(on), services |-> UnusedServices(on)][id]

VARIABLES
  tweak,       \* the tweak this behaviour is about
  setting,     \* what its slots hold
  appliedFlag, \* SysOpt\<id>\Applied
  previous,    \* SysOpt\<id>\Prev, per slot; "none" before it is written
  command,     \* the command under way: what it is to be, its step (0: none), what it read
  answer,      \* what the last command reported
  tweakCommands, tweakFaults

tweakVars == <<tweak, setting, appliedFlag, previous, command, answer, tweakCommands, tweakFaults>>

NoCommand == [on |-> FALSE, at |-> 0, read |-> [i \in Slots |-> "absent"], failed |-> {}]
Steps == Program(tweak, command.on)

SysOptTypeOK ==
  /\ tweak \in Tweaks /\ setting \in [Slots -> Settings] /\ appliedFlag \in BOOLEAN
  /\ previous \in [Slots -> Settings \cup {"none"}]
  /\ command \in [on : BOOLEAN, at : 0..7, read : [Slots -> Settings], failed : SUBSET Slots]
  /\ answer \in {"none", "applied", "undone", "error"}
  /\ tweakCommands \in 0..MaxTweakCommands /\ tweakFaults \in 0..MaxTweakFaults

SysOptInit ==
  /\ tweak \in Tweaks /\ \E s \in {"absent", "off"} : setting = [i \in Slots |-> s]
  /\ appliedFlag = FALSE /\ previous = [i \in Slots |-> "none"]
  /\ command = NoCommand /\ answer = "none" /\ tweakCommands = 0 /\ tweakFaults = 0

TweakFault == tweakFaults < MaxTweakFaults /\ tweakFaults' = tweakFaults + 1
RunningFix == command.at \in 1..Len(Steps)
Now == Steps[command.at]
Begins(on) ==
  /\ command.at = 0 /\ tweakCommands < MaxTweakCommands /\ tweakCommands' = tweakCommands + 1
  /\ command' = [NoCommand EXCEPT !.on = on, !.at = 1, !.read = setting]
  /\ answer' = "none" /\ UNCHANGED <<tweak, setting, appliedFlag, previous, tweakFaults>>
Advance == command' = [command EXCEPT !.at = @ + 1] /\ UNCHANGED answer
Refused == command' = NoCommand /\ answer' = "error"

SetTweak(on) == Begins(on)
\* restore_all applies anew what is flagged; its results are only logged.
RestoreAll == appliedFlag /\ Begins(TRUE)

\* Undone, telemetry_level takes the kept value, and with no number kept the value it was
\* applied with. The prelaunch policy of Edge is written the other way round.
RestoredTelemetry == IF previous[1] \in {"none", "absent"} THEN "on" ELSE previous[1]
Target(i) ==
  IF tweak = "telemetry" /\ ~command.on THEN RestoredTelemetry
  ELSE IF command.on # (tweak = "edge" /\ i = 3) THEN "on" ELSE "off"

WriteSlot ==
  /\ RunningFix /\ Now.do \in {"must", "may"}
  /\ setting' = [setting EXCEPT ![Now.slot] = Target(Now.slot)] /\ Advance
  /\ UNCHANGED <<tweak, appliedFlag, previous, tweakCommands, tweakFaults>>

\* A write that fails ends the command, or is counted where members may fail.
SlotFails ==
  /\ RunningFix /\ Now.do \in {"must", "may"} /\ TweakFault
  /\ IF Now.do = "must" THEN Refused
     ELSE /\ command' = [command EXCEPT !.at = @ + 1, !.failed = @ \cup {Now.slot}]
          /\ UNCHANGED answer
  /\ UNCHANGED <<tweak, setting, appliedFlag, previous, tweakCommands>>

Skipped == Now.do \in {"flagIfWritten", "keepIfWritten"} /\ Now.slot \in command.failed
SkipMark ==
  /\ RunningFix /\ Skipped /\ Advance
  /\ UNCHANGED <<tweak, setting, appliedFlag, previous, tweakCommands, tweakFaults>>

MarkFlag ==
  /\ RunningFix /\ Now.do \in {"flag", "flagIfWritten"} /\ ~Skipped
  /\ appliedFlag' = command.on /\ Advance
  /\ UNCHANGED <<tweak, setting, previous, tweakCommands, tweakFaults>>

\* The DWORD tweaks read the value to keep after their write, the others before theirs.
Kept(i) == IF tweak \in {"dword", "activity", "search"} THEN setting[i] ELSE command.read[i]
KeepPrevious ==
  /\ RunningFix /\ Now.do \in {"keep", "keepIfWritten"} /\ ~Skipped
  /\ previous' = [previous EXCEPT ![Now.slot] = Kept(Now.slot)] /\ Advance
  /\ UNCHANGED <<tweak, setting, appliedFlag, tweakCommands, tweakFaults>>

\* Mutant: the error of mark_applied or mark_restored is dropped, as those of sc.exe are.
MarkIgnored == Advance
MarkRefused == Refused
MarkFails ==
  /\ RunningFix /\ Now.do \notin {"must", "may"} /\ ~Skipped /\ TweakFault /\ MarkRefused
  /\ UNCHANGED <<tweak, setting, appliedFlag, previous, tweakCommands>>

\* Tasks and services that all failed are an error, whatever was flagged; a group never is.
Members == {Steps[k].slot : k \in {j \in 1..Len(Steps) : Steps[j].do = "may"}}
AllFailed == tweak \in {"ceip", "services"} /\ Members \subseteq command.failed
CommandDone ==
  /\ command.at = Len(Steps) + 1 /\ command' = NoCommand
  /\ answer' = IF AllFailed THEN "error" ELSE IF command.on THEN "applied" ELSE "undone"
  /\ UNCHANGED <<tweak, setting, appliedFlag, previous, tweakCommands, tweakFaults>>

\* The helper or the service ends in the middle of a command.
TweakCutShort ==
  /\ command.at # 0 /\ TweakFault /\ command' = NoCommand
  /\ UNCHANGED <<tweak, setting, appliedFlag, previous, answer, tweakCommands>>

SysOptNext ==
  \/ \E on \in BOOLEAN : SetTweak(on)
  \/ RestoreAll \/ WriteSlot \/ SlotFails \/ SkipMark \/ MarkFlag \/ KeepPrevious \/ MarkFails
  \/ CommandDone \/ TweakCutShort

SysOptSpec == SysOptInit /\ [][SysOptNext]_tweakVars

-----------------------------------------------------------------------------
(* Properties.                                                             *)

\* A command that reported success did what it reports: the flag tells it, every write
\* that must succeed is in force, and of counted members at least one. (Edge's prelaunch
\* policy is in force the wrong way round.)
Written(do) == {Program(tweak, TRUE)[k].slot :
                  k \in {j \in 1..Len(Program(tweak, TRUE)) : Program(tweak, TRUE)[j].do = do}}
OkIsDone ==
  /\ answer = "applied" =>
       /\ appliedFlag
       /\ \A i \in Written("must") : (tweak = "edge" /\ i = 3) \/ setting[i] = "on"
       /\ tweak \in {"ceip", "services"} => \E i \in Written("may") : setting[i] = "on"
  /\ answer = "undone" => ~appliedFlag
==================================================================================
