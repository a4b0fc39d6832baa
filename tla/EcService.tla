------------------------------- MODULE EcService -------------------------------
(***************************************************************************)
(* Access to the embedded controller (EC): the pipe server of             *)
(* bin/ecram_service.rs and its EC commands, the pipe clients of           *)
(* hw/ecram.rs and hw/iotservice.rs, and the repair of the service by      *)
(* hw/ecram_service_mgmt.rs.  The mailbox of the EC is one record; its     *)
(* firmware is external.                                                   *)
(***************************************************************************)
EXTENDS Naturals

CONSTANTS EcClients,   \* threads of the app that ask the service
          Repairers,   \* requests that run ensure_service_running
          MaxFaults    \* bound on failing ioctls, service kills and refusals

ASSUME EcAssumption == MaxFaults \in Nat

Kinds == {"query", "store", "raw", "limit"}
NoOne == "none"
Gone  == "gone"

VARIABLES
  client,      \* per client: idle, probed, open, sent, ok, failed
  asks,        \* per client: the kind of its request
  server,      \* down, create, connect, listen, read, the steps of a request, answer, refuse
  pipe,        \* the one instance: none, free, a client, or a client that is gone
  signalled,   \* the event of the pending ConnectNamedPipe
  stopping,    \* the service was told to stop
  mailbox,     \* the EC: st is idle, busy or fault; stage is cmd, ack or ret
  limits,      \* care bit and threshold as last written
  repair,      \* per repairer: off, probe, again, stop, copy, start, wait
  recent,      \* LAST_RECREATION_MS is less than 15 min ago
  faults,
  stale        \* history: the command in hand found a mailbox it could not reset

clientVars  == <<client, asks>>
serverVars  == <<server, pipe, signalled>>
ecVars      == <<mailbox, limits, stale>>
repairVars  == <<repair, recent>>
ecServiceVars == <<clientVars, serverVars, stopping, ecVars, repairVars, faults>>

Idle == [st |-> "idle", stage |-> "cmd"]
Working == {"payload", "reset", "ready", "write", "go", "ack", "ret", "clear",
            "sensor", "care", "level", "ioctl"}

EcTypeOK ==
  /\ client \in [EcClients -> {"idle", "probed", "open", "sent", "ok", "failed"}]
  /\ asks \in [EcClients -> Kinds]
  /\ server \in {"down", "create", "connect", "listen", "read", "answer", "refuse"} \cup Working
  /\ pipe \in EcClients \cup {NoOne, "free", Gone}
  /\ {signalled, stopping, recent, stale} \subseteq BOOLEAN
  /\ mailbox \in [st : {"idle", "busy", "fault"}, stage : {"cmd", "ack", "ret"}]
  /\ limits \in [care : BOOLEAN, level : {"old", "new"}]
  /\ repair \in [Repairers -> {"off", "probe", "again", "stop", "copy", "start", "wait"}]
  /\ faults \in 0..MaxFaults

\* The service runs and the EC is idle.
EcInit ==
  /\ client = [c \in EcClients |-> "idle"] /\ asks = [c \in EcClients |-> "raw"]
  /\ server = "create" /\ pipe = NoOne /\ signalled = FALSE /\ stopping = FALSE
  /\ mailbox = Idle
  /\ limits = [care |-> FALSE, level |-> "old"]
  /\ repair = [r \in Repairers |-> "off"] /\ recent = FALSE
  /\ faults = 0 /\ stale = FALSE

-----------------------------------------------------------------------------
(* The clients.                                                            *)

\* A connection is made at once when an instance is free; the pending
\* ConnectNamedPipe of the server is told.
Connect(who) ==
  /\ pipe = "free"
  /\ pipe' = who /\ signalled' = (server = "listen")

\* ec_pipe_active: open the pipe and close it.
ProbePipe(c) ==
  /\ client[c] = "idle"
  /\ \/ Connect(Gone) /\ client' = [client EXCEPT ![c] = "probed"]
     \/ /\ pipe # "free" /\ client' = [client EXCEPT ![c] = "failed"]
        /\ UNCHANGED <<pipe, signalled>>
  /\ UNCHANGED <<asks, server, stopping, ecVars, repairVars, faults>>

\* send_pipe_request, read_ecram_via_pipe: a missing or busy pipe is an error.
OpenPipe(c) ==
  /\ client[c] = "probed"
  /\ \/ Connect(c) /\ client' = [client EXCEPT ![c] = "open"]
     \/ /\ pipe # "free" /\ client' = [client EXCEPT ![c] = "failed"]
        /\ UNCHANGED <<pipe, signalled>>
  /\ UNCHANGED <<asks, server, stopping, ecVars, repairVars, faults>>

SendRequest(c) ==
  /\ client[c] = "open" /\ pipe = c
  /\ client' = [client EXCEPT ![c] = "sent"]
  /\ \E kind \in Kinds : asks' = [asks EXCEPT ![c] = kind]
  /\ UNCHANGED <<serverVars, stopping, ecVars, repairVars, faults>>

\* The read mode is refused, or five seconds pass without an answer: the handle
\* is closed.
GiveUp(c) ==
  /\ client[c] \in {"open", "sent"} /\ pipe = c /\ faults < MaxFaults
  /\ client' = [client EXCEPT ![c] = "failed"]
  /\ pipe' = Gone /\ faults' = faults + 1
  /\ UNCHANGED <<asks, server, signalled, stopping, ecVars, repairVars>>

\* The caller goes on.
ClientReturns(c) ==
  /\ client[c] \in {"ok", "failed"}
  /\ client' = [client EXCEPT ![c] = "idle"]
  /\ asks' = [asks EXCEPT ![c] = "raw"]
  /\ UNCHANGED <<serverVars, stopping, ecVars, repairVars, faults>>

-----------------------------------------------------------------------------
(* The pipe server.                                                        *)

CreateInstance ==
  /\ server = "create"
  /\ IF stopping THEN server' = "down" /\ pipe' = NoOne
     ELSE server' = "connect" /\ pipe' = "free"
  /\ signalled' = FALSE
  /\ UNCHANGED <<clientVars, stopping, ecVars, repairVars, faults>>

\* ERROR_PIPE_CONNECTED: the client came before ConnectNamedPipe.
ConnectNamedPipe ==
  /\ server = "connect"
  /\ server' = IF pipe = "free" THEN "listen" ELSE "read"
  /\ UNCHANGED <<clientVars, pipe, signalled, stopping, ecVars, repairVars, faults>>

ListenWakes ==
  /\ server = "listen"
  /\ \/ signalled /\ server' = "read" /\ UNCHANGED pipe
     \/ ~signalled /\ stopping /\ server' = "down" /\ pipe' = NoOne
  /\ signalled' = FALSE
  /\ UNCHANGED <<clientVars, stopping, ecVars, repairVars, faults>>

\* Close the instance; the next pass makes another one.
Recycle == server' = "create" /\ pipe' = NoOne

FirstStep(kind) == CASE kind = "query" -> "reset" [] kind = "store" -> "payload"
                     [] kind = "raw" -> "ioctl" [] kind = "limit" -> "care"

\* handle_client reads until the request is whole; a client that is gone ends it.
ReadRequest ==
  /\ server = "read"
  /\ \/ /\ pipe \in EcClients /\ client[pipe] = "sent"
        /\ server' = FirstStep(asks[pipe]) /\ UNCHANGED pipe
     \/ pipe = Gone /\ Recycle
  /\ UNCHANGED <<clientVars, signalled, stopping, ecVars, repairVars, faults>>

\* WriteFile and FlushFileBuffers, then the instance is closed.
Answer ==
  /\ server \in {"answer", "refuse"}
  /\ client' = [c \in EcClients |-> IF c # pipe THEN client[c]
                                    ELSE IF server = "answer" THEN "ok" ELSE "failed"]
  /\ Recycle
  /\ UNCHANGED <<asks, signalled, stopping, ecVars, repairVars, faults>>

StopService ==
  /\ server # "down" /\ ~stopping
  /\ stopping' = TRUE
  /\ UNCHANGED <<clientVars, serverVars, ecVars, repairVars, faults>>

-----------------------------------------------------------------------------
(* The steps of a request.  An ioctl may fail while faults are left.       *)

\* One ioctl: what it does, where the server goes, or the error.
Ioctl(at, next, effect) ==
  /\ server = at
  /\ \/ /\ effect
        /\ server' = next /\ UNCHANGED faults
     \/ /\ faults < MaxFaults /\ faults' = faults + 1
        /\ UNCHANGED ecVars /\ server' = "refuse"
  /\ UNCHANGED <<clientVars, pipe, signalled, stopping, repairVars>>

\* write_wifi_item, delete_wifi_item, get_wifi_by_index: the payload comes first.
WritePayload == Ioctl("payload", "reset", UNCHANGED ecVars)

\* Mutant: the command does not clear what the one before left.
ResetSkipped ==
  /\ server = "reset" /\ server' = "ready"
  /\ stale' = FALSE
  /\ UNCHANGED <<clientVars, pipe, signalled, mailbox, limits, stopping, repairVars, faults>>

\* execute_command: clear the status left by the command before; an error is ignored.
ResetStatus ==
  /\ server = "reset" /\ server' = "ready"
  /\ \/ /\ mailbox' = Idle /\ stale' = FALSE /\ UNCHANGED faults
     \/ /\ faults < MaxFaults /\ faults' = faults + 1 /\ UNCHANGED mailbox
        /\ stale' = TRUE
  /\ UNCHANGED <<clientVars, pipe, signalled, limits, stopping, repairVars>>

\* ram_is_ready, ten times.
AwaitReady ==
  /\ server = "ready"
  /\ \/ mailbox.st = "idle" /\ server' = "write" /\ UNCHANGED <<faults>>
     \/ mailbox.st # "idle" /\ server' = "refuse" /\ UNCHANGED faults
     \/ faults < MaxFaults /\ faults' = faults + 1 /\ server' = "refuse"
  /\ stale' = FALSE
  /\ UNCHANGED <<clientVars, pipe, signalled, mailbox, limits, stopping, repairVars>>

\* write_command: the command's bytes, then the status that starts it.
WriteBytes == Ioctl("write", "go", UNCHANGED ecVars)
WriteGo == Ioctl("go", "ack", /\ mailbox' = [st |-> "busy", stage |-> "cmd"]
                              /\ UNCHANGED <<limits, stale>>)

\* read_cmd_ack, read_cmd_ret: wait for the stage; anything else resets the EC.
AwaitStage(at, wanted, next) ==
  /\ server = at
  /\ \/ /\ mailbox.st = "busy" /\ mailbox.stage = wanted
        /\ server' = next /\ UNCHANGED <<mailbox, faults>>
     \/ /\ mailbox.st # "busy" \/ (at = "ack" /\ mailbox.stage = "ret")
        /\ mailbox' = Idle /\ server' = "refuse" /\ UNCHANGED faults
     \/ /\ faults < MaxFaults /\ faults' = faults + 1
        /\ server' = "refuse" /\ UNCHANGED mailbox
  /\ UNCHANGED <<clientVars, pipe, signalled, limits, stale, stopping, repairVars>>
ReadCmdAck == AwaitStage("ack", "ack", "ret")
ReadCmdRet == AwaitStage("ret", "ret", "clear")

\* The final reset; its error is ignored.  A query then reads the sensor block.
FinishCommand ==
  /\ server = "clear"
  /\ \/ mailbox' = Idle /\ UNCHANGED faults
     \/ faults < MaxFaults /\ faults' = faults + 1 /\ UNCHANGED mailbox
  /\ IF pipe \in EcClients /\ asks[pipe] = "query"
     THEN server' = "sensor" ELSE server' = "answer"
  /\ UNCHANGED <<clientVars, pipe, signalled, limits, stale, stopping, repairVars>>
ReadSensor == Ioctl("sensor", "answer", UNCHANGED ecVars)

\* op read, write, read_region.
RawAccess == Ioctl("ioctl", "answer", UNCHANGED ecVars)

\* set_charging_threshold: the care bit, then the threshold.
WriteCare == Ioctl("care", "level", /\ limits' = [limits EXCEPT !.care = TRUE]
                                    /\ UNCHANGED <<mailbox, stale>>)
WriteLevel == Ioctl("level", "answer", /\ limits' = [limits EXCEPT !.level = "new"]
                                       /\ UNCHANGED <<mailbox, stale>>)

RequestStep ==
  \/ WritePayload \/ ResetStatus \/ AwaitReady \/ WriteBytes \/ WriteGo
  \/ ReadCmdAck \/ ReadCmdRet \/ FinishCommand \/ ReadSensor \/ RawAccess
  \/ WriteCare \/ WriteLevel

\* The EC takes a command one stage further, or reports an error.
EcWorks ==
  /\ mailbox.st = "busy" /\ mailbox.stage # "ret"
  /\ \/ mailbox' = [mailbox EXCEPT !.stage = IF @ = "cmd" THEN "ack" ELSE "ret"]
        /\ UNCHANGED faults
     \/ faults < MaxFaults /\ faults' = faults + 1 /\ mailbox' = [mailbox EXCEPT !.st = "fault"]
  /\ UNCHANGED <<clientVars, serverVars, limits, stale, stopping, repairVars>>

-----------------------------------------------------------------------------
(* ensure_service_running.                                                 *)

\* A probe opens the instance and closes it; the second one comes after 250 ms.
\* With the pipe there and our binary in place nothing is to be done.
RepairProbe(r) ==
  /\ repair[r] \in {"probe", "again"}
  /\ \/ Connect(Gone) /\ repair' = [repair EXCEPT ![r] = "off"]
     \/ /\ pipe # "free" /\ UNCHANGED <<pipe, signalled>>
        /\ repair' = [repair EXCEPT ![r] =
              IF @ = "probe" THEN "again" ELSE IF recent THEN "off" ELSE "stop"]
  /\ UNCHANGED <<clientVars, server, stopping, ecVars, recent, faults>>

AskRepair(r) ==
  /\ repair[r] = "off"
  /\ repair' = [repair EXCEPT ![r] = "probe"]
  /\ UNCHANGED <<clientVars, serverVars, stopping, ecVars, recent, faults>>

\* Every client of a process that dies sees its pipe break.
ServiceDies ==
  /\ server' = "down" /\ pipe' = NoOne /\ signalled' = FALSE
  /\ client' = [c \in EcClients |-> IF c = pipe THEN "failed" ELSE client[c]]
  /\ UNCHANGED <<asks>>

\* sc stop, taskkill, and the copy of the binary, which may fail.
RepairStop(r) ==
  /\ repair[r] = "stop"
  /\ ServiceDies /\ stopping' = TRUE
  /\ repair' = [repair EXCEPT ![r] = "copy"]
  /\ UNCHANGED <<ecVars, recent, faults>>
RepairCopy(r) ==
  /\ repair[r] = "copy"
  /\ \/ repair' = [repair EXCEPT ![r] = "start"] /\ UNCHANGED faults
     \/ faults < MaxFaults /\ faults' = faults + 1 /\ repair' = [repair EXCEPT ![r] = "off"]
  /\ UNCHANGED <<clientVars, serverVars, stopping, ecVars, recent>>

\* sc start (1056, it runs already, is no error); only then is the attempt noted.
RepairStart(r) ==
  /\ repair[r] = "start"
  /\ \/ /\ IF server = "down" THEN server' = "create" /\ stopping' = FALSE
           ELSE UNCHANGED <<server, stopping>>
        /\ recent' = TRUE /\ repair' = [repair EXCEPT ![r] = "wait"] /\ UNCHANGED faults
     \/ /\ faults < MaxFaults /\ faults' = faults + 1
        /\ repair' = [repair EXCEPT ![r] = "off"] /\ UNCHANGED <<server, stopping, recent>>
  /\ UNCHANGED <<clientVars, pipe, signalled, ecVars>>

\* Twenty probes; the answer says whether one of them opened the pipe.
RepairWait(r) ==
  /\ repair[r] = "wait"
  /\ \/ Connect(Gone)
     \/ pipe # "free" /\ UNCHANGED <<pipe, signalled>>
  /\ repair' = [repair EXCEPT ![r] = "off"]
  /\ UNCHANGED <<clientVars, server, stopping, ecVars, recent, faults>>

CooldownEnds ==
  /\ recent /\ recent' = FALSE
  /\ UNCHANGED <<clientVars, serverVars, stopping, ecVars, repair, faults>>

-----------------------------------------------------------------------------
ServerStep == CreateInstance \/ ConnectNamedPipe \/ ListenWakes \/ ReadRequest \/ Answer

EcNext ==
  \/ \E c \in EcClients : ProbePipe(c) \/ OpenPipe(c) \/ SendRequest(c) \/ GiveUp(c)
                          \/ ClientReturns(c)
  \/ ServerStep \/ StopService \/ RequestStep \/ EcWorks \/ CooldownEnds
  \/ \E r \in Repairers : AskRepair(r) \/ RepairProbe(r) \/ RepairStop(r) \/ RepairCopy(r)
                          \/ RepairStart(r) \/ RepairWait(r)

EcSpec == EcInit /\ [][EcNext]_ecServiceVars

-----------------------------------------------------------------------------
(* Properties.                                                             *)

\* A command is refused with "EC not ready" only when this command's own reset
\* failed: what a killed service or a failed command left in the mailbox does not
\* outlive the next command's reset (execute_command).
LeftoverIsCleared == server = "ready" /\ ~stale => mailbox.st = "idle"
=============================================================================
