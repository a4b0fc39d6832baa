------------------------------- MODULE PadSettings -------------------------------
(***************************************************************************)
(* The settings of the touchpad (hw/touchpad.rs): stored in the registry,  *)
(* then sent to the pad as a write frame and a commit frame over a handle  *)
(* that all commands share and each of them closes.                        *)
(***************************************************************************)
EXTENDS Naturals

CONSTANTS PadReports,   \* reports 0x59, 0x5B and 0x5D; one command of each at a time
          MaxPadSets    \* bound on settings made and on frames the pad refuses

ASSUME PadAssumption == MaxPadSets \in Nat

PadValues == {"low", "high"}

VARIABLES
  stored, written, committed, \* per report: in the registry, in the pad, in force
  padCommand,    \* per report: where its command is
  hapticsOpen,   \* HAPTICS_HANDLE
  holders,       \* commands that hold the handle that is open
  padSets

padVars == <<stored, written, committed, padCommand, hapticsOpen, holders, padSets>>

\* Where a command is: its step, the frame it sends, its answer.
Command(step, frame, result) == [at |-> step, frame |-> frame, result |-> result]

PadCommands == [at : {"idle", "get", "send", "reget", "resend"},
                frame : {"write", "commit"}, result : {"none", "ok", "error"}]

PadTypeOK ==
  /\ stored \in [PadReports -> PadValues] /\ written \in [PadReports -> PadValues]
  /\ committed \in [PadReports -> PadValues]
  /\ padCommand \in [PadReports -> PadCommands]
  /\ hapticsOpen \in BOOLEAN /\ holders \subseteq PadReports /\ padSets \in 0..MaxPadSets

PadInit ==
  /\ stored = [s \in PadReports |-> "low"] /\ written = stored /\ committed = stored
  /\ padCommand = [s \in PadReports |-> Command("idle", "write", "none")]
  /\ hapticsOpen = FALSE /\ holders = {} /\ padSets = 0

CommandAt(s, from) == padCommand[s].at = from
CommandEnds(s, result) ==
  padCommand' = [padCommand EXCEPT ![s] = Command("idle", "write", result)]
CommandGoes(s, step, frame) ==
  padCommand' = [padCommand EXCEPT ![s] = Command(step, frame, "none")]
PadFault == padSets < MaxPadSets /\ padSets' = padSets + 1

\* persist_reg_dword, which the app reads its settings back from.
StorePad(s, v) == stored' = [stored EXCEPT ![s] = v]
\* The registry first; then the write frame.
SetPad(s, v) ==
  /\ CommandAt(s, "idle") /\ PadFault /\ StorePad(s, v)
  /\ CommandGoes(s, "get", "write")
  /\ UNCHANGED <<written, committed, hapticsOpen, holders>>

\* get_haptics_handle: the open one, whoever opened it, or a new one, or an error.
GetHandle(s) ==
  /\ padCommand[s].at \in {"get", "reget"}
  /\ \/ /\ hapticsOpen' = TRUE /\ holders' = holders \cup {s}
        /\ CommandGoes(s, IF CommandAt(s, "get") THEN "send" ELSE "resend", padCommand[s].frame)
        /\ UNCHANGED padSets
     \/ ~hapticsOpen /\ PadFault /\ CommandEnds(s, "error") /\ UNCHANGED <<hapticsOpen, holders>>
  /\ UNCHANGED <<stored, written, committed>>

CloseHandle == hapticsOpen' = FALSE /\ holders' = {}
CommitNext(s) == CommandGoes(s, "get", "commit")

\* A frame goes through a handle nobody has closed meanwhile; the handle is closed.
SendFrame(s) ==
  /\ padCommand[s].at \in {"send", "resend"} /\ s \in holders /\ CloseHandle
  /\ \/ /\ padCommand[s].frame = "write" /\ CommitNext(s)
        /\ written' = [written EXCEPT ![s] = stored[s]] /\ UNCHANGED committed
     \/ /\ padCommand[s].frame = "commit" /\ CommandEnds(s, "ok")
        /\ committed' = [committed EXCEPT ![s] = written[s]] /\ UNCHANGED written
  /\ UNCHANGED <<stored, padSets>>

\* Mutant: the second refusal is taken for a success.
SecondRefusalIgnored(s) ==
  IF padCommand[s].frame = "write" THEN CommitNext(s) ELSE CommandEnds(s, "ok")
\* A refused frame is sent once more; twice refused is an error.
SecondRefusal(s) == CommandEnds(s, "error")
SendFails(s) ==
  /\ padCommand[s].at \in {"send", "resend"} /\ CloseHandle
  /\ IF s \in holders THEN PadFault ELSE UNCHANGED padSets
  /\ IF CommandAt(s, "send") THEN CommandGoes(s, "reget", padCommand[s].frame)
                              ELSE SecondRefusal(s)
  /\ UNCHANGED <<stored, written, committed>>

PadNext ==
  \E s \in PadReports : \/ \E v \in PadValues : SetPad(s, v)
                        \/ GetHandle(s) \/ SendFrame(s) \/ SendFails(s)

PadSpec == PadInit /\ [][PadNext]_padVars

-----------------------------------------------------------------------------
(* Properties.                                                             *)

\* A command that succeeded left the pad with what is stored, though other commands
\* close the handle under it (send_touchpad_output_report's second attempt).
PadHasSetting ==
  \A s \in PadReports :
    CommandAt(s, "idle") /\ padCommand[s].result = "ok" => committed[s] = stored[s]
==================================================================================
