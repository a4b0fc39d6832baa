------------------------------- MODULE MachineProofs ---------------------------
(***************************************************************************)
(* What is proved of the services that drive the machine: the mailbox of   *)
(* the EC, OS Turbo, the performance modes, the power events, the pools of *)
(* queries and the channel to the vendor's service.                        *)
(***************************************************************************)
EXTENDS EcService, EcRegisters, Thermal, OsTurbo, PerfModes, PowerEvents, WmiPool,
        IotChannel, TLAPS

-----------------------------------------------------------------------------
(* The mailbox of the EC.                                                  *)

\* With the kinds of request the server can begin.
MailboxInv == LeftoverIsCleared /\ asks \in [EcClients -> Kinds]

\* A command found the mailbox idle, or its own reset failed: for any number of clients,
\* repairs and faults (execute_command).
THEOREM MailboxIsCleared == EcSpec => []LeftoverIsCleared
<1>1. EcInit => MailboxInv
  BY DEF EcInit, LeftoverIsCleared, MailboxInv, Kinds
<1>2. MailboxInv /\ [EcNext]_ecServiceVars => MailboxInv'
  <2> SUFFICES ASSUME MailboxInv, [EcNext]_ecServiceVars PROVE MailboxInv'
    OBVIOUS
  <2>0. asks' \in [EcClients -> Kinds] => (LeftoverIsCleared' => MailboxInv') /\ LeftoverIsCleared
    BY DEF MailboxInv
  \* A step that leaves the mailbox, the history and the server, or takes the server elsewhere.
  <2>1. ASSUME asks' \in [EcClients -> Kinds],
               server' # "ready" \/ UNCHANGED <<server, mailbox, stale>>
        PROVE  MailboxInv'
    BY <2>0, <2>1 DEF LeftoverIsCleared
  <2>9. CASE UNCHANGED asks /\ (server' # "ready" \/ UNCHANGED <<server, mailbox, stale>>)
    BY <2>1, <2>9 DEF MailboxInv
  <2>2. CASE \E c \in EcClients : ProbePipe(c) \/ OpenPipe(c) \/ SendRequest(c) \/ GiveUp(c)
                                 \/ ClientReturns(c)
    <3>1. asks' \in [EcClients -> Kinds]
      BY <2>2 DEF ProbePipe, OpenPipe, SendRequest, GiveUp, ClientReturns, MailboxInv, Kinds
    <3>2. UNCHANGED <<server, mailbox, stale>>
      BY <2>2 DEF ProbePipe, OpenPipe, SendRequest, GiveUp, ClientReturns, Connect, ecVars, serverVars
    <3> QED
      BY <2>1, <3>1, <3>2
  <2>3. CASE ServerStep
    <3>1. CASE ReadRequest
      <4>1. \A kind \in Kinds : FirstStep(kind) # "ready"
        BY DEF FirstStep, Kinds
      <4>2. pipe \in EcClients => asks[pipe] \in Kinds
        BY DEF MailboxInv
      <4>3. server' # "ready"
        BY <3>1, <4>1, <4>2 DEF ReadRequest, Recycle
      <4> QED
        BY <2>9, <3>1, <4>3 DEF ReadRequest, clientVars
    <3>2. CASE CreateInstance \/ ConnectNamedPipe \/ ListenWakes \/ Answer
      BY <2>9, <3>2 DEF CreateInstance, ConnectNamedPipe, ListenWakes, Answer, Recycle, ecVars, clientVars
    <3> QED
      BY <2>3, <3>1, <3>2 DEF ServerStep
  <2>4. CASE StopService \/ CooldownEnds
    BY <2>9, <2>4 DEF StopService, CooldownEnds, serverVars, ecVars, clientVars
  <2>5. CASE RequestStep
    <3>1. CASE ResetStatus
      BY <3>1 DEF ResetStatus, LeftoverIsCleared, Idle, MailboxInv, clientVars
    <3>2. CASE AwaitReady
      BY <2>9, <3>2 DEF AwaitReady, clientVars
    <3>3. CASE WritePayload \/ WriteBytes \/ WriteGo \/ ReadSensor \/ RawAccess \/ WriteCare \/ WriteLevel
      BY <2>9, <3>3 DEF WritePayload, WriteBytes, WriteGo, ReadSensor, RawAccess, WriteCare,
         WriteLevel, Ioctl, clientVars
    <3>4. CASE ReadCmdAck \/ ReadCmdRet \/ FinishCommand
      BY <2>9, <3>4 DEF ReadCmdAck, ReadCmdRet, FinishCommand, AwaitStage, clientVars
    <3> QED
      BY <2>5, <3>1, <3>2, <3>3, <3>4 DEF RequestStep
  \* A working EC was not idle.
  <2>6. CASE EcWorks
    BY <2>6 DEF EcWorks, LeftoverIsCleared, serverVars, MailboxInv, clientVars
  <2>7. CASE \E r \in Repairers : AskRepair(r) \/ RepairProbe(r) \/ RepairStop(r) \/ RepairCopy(r)
                                 \/ RepairStart(r) \/ RepairWait(r)
    BY <2>9, <2>7 DEF AskRepair, RepairProbe, RepairStop, RepairCopy, RepairStart, RepairWait,
       ServiceDies, Connect, serverVars, ecVars, clientVars
  <2>8. CASE UNCHANGED ecServiceVars
    BY <2>9, <2>8 DEF ecServiceVars, serverVars, ecVars, clientVars
  <2> QED
    BY <2>2, <2>3, <2>4, <2>5, <2>6, <2>7, <2>8 DEF EcNext
<1>3. MailboxInv => LeftoverIsCleared
  BY DEF MailboxInv
<1> QED
  BY <1>1, <1>2, <1>3, PTL DEF EcSpec

ClientPlaces == {"idle", "probed", "open", "sent", "ok", "failed"}
ServerPlaces == {"down", "create", "connect", "listen", "read", "answer", "refuse"} \cup Working
Repairs == {"off", "probe", "again", "stop", "copy", "start", "wait"}
Mailboxes == [st : {"idle", "busy", "fault"}, stage : {"cmd", "ack", "ret"}]
Limits == [care : BOOLEAN, level : {"old", "new"}]
PipeTypes ==
  /\ client \in [EcClients -> ClientPlaces] /\ asks \in [EcClients -> Kinds]
  /\ server \in ServerPlaces /\ pipe \in EcClients \cup {NoOne, "free", Gone}
  /\ signalled \in BOOLEAN
EcTypes ==
  /\ PipeTypes /\ stopping \in BOOLEAN /\ recent \in BOOLEAN /\ stale \in BOOLEAN
  /\ mailbox \in Mailboxes /\ limits \in Limits
  /\ repair \in [Repairers -> Repairs] /\ faults \in 0..MaxFaults

LEMMA Connecting ==
  ASSUME PipeTypes, NEW who \in EcClients \cup {Gone}, Connect(who)
  PROVE  pipe' \in EcClients \cup {NoOne, "free", Gone} /\ signalled' \in BOOLEAN
BY DEF Connect

\* A fault is one more, or none.
OneFault == faults' = faults \/ (faults < MaxFaults /\ faults' = faults + 1)
LEMMA FaultCounted ==
  ASSUME faults \in 0..MaxFaults, OneFault PROVE faults' \in 0..MaxFaults
BY EcAssumption DEF OneFault

LEMMA ClientStep ==
  ASSUME EcTypes, NEW c \in EcClients,
         ProbePipe(c) \/ OpenPipe(c) \/ SendRequest(c) \/ GiveUp(c) \/ ClientReturns(c)
  PROVE  EcTypes'
<1>1. OneFault /\ UNCHANGED <<server, stopping, mailbox, limits, stale, repair, recent>>
  BY Zenon DEF ProbePipe, OpenPipe, SendRequest, GiveUp, ClientReturns, ecVars, repairVars, serverVars,
     OneFault
<1>2. client' \in [EcClients -> ClientPlaces]
  <2>1. \E at \in ClientPlaces : client' = [client EXCEPT ![c] = at]
    BY Zenon DEF ProbePipe, OpenPipe, SendRequest, GiveUp, ClientReturns, ClientPlaces
  <2> QED
    BY <2>1 DEF EcTypes, PipeTypes
<1>3. asks' \in [EcClients -> Kinds]
  <2>1. asks' = asks \/ \E kind \in Kinds : asks' = [asks EXCEPT ![c] = kind]
    BY Zenon DEF ProbePipe, OpenPipe, SendRequest, GiveUp, ClientReturns, Kinds
  <2> QED
    BY <2>1 DEF EcTypes, PipeTypes
<1>4. /\ \/ UNCHANGED <<pipe, signalled>> \/ Connect(c) \/ Connect(Gone)
         \/ pipe' = Gone /\ UNCHANGED signalled
  BY Zenon DEF ProbePipe, OpenPipe, SendRequest, GiveUp, ClientReturns, serverVars
<1>5. pipe' \in EcClients \cup {NoOne, "free", Gone} /\ signalled' \in BOOLEAN
  BY <1>4, Connecting DEF EcTypes, PipeTypes
<1> QED
  BY <1>1, <1>2, <1>3, <1>5, FaultCounted DEF EcTypes, PipeTypes

LEMMA ServerKeeps ==
  ASSUME EcTypes, ServerStep PROVE EcTypes'
<1>1. /\ UNCHANGED <<asks, stopping, mailbox, limits, stale, repair, recent, faults>>
      /\ pipe' \in {pipe, NoOne, "free"} /\ signalled' \in {FALSE, signalled}
  BY Zenon DEF ServerStep, CreateInstance, ConnectNamedPipe, ListenWakes, ReadRequest, Answer, ecVars,
     repairVars, clientVars, Recycle
<1>2. signalled' \in BOOLEAN
  BY <1>1, Zenon DEF EcTypes, PipeTypes
<1>3. client' \in [EcClients -> ClientPlaces]
  BY DEF ServerStep, CreateInstance, ConnectNamedPipe, ListenWakes, ReadRequest, Answer, clientVars,
     EcTypes, PipeTypes, ClientPlaces
<1>4. server' \in ServerPlaces
  <2>1. CASE CreateInstance \/ ConnectNamedPipe \/ ListenWakes \/ Answer
    BY <2>1 DEF CreateInstance, ConnectNamedPipe, ListenWakes, Answer, Recycle, ServerPlaces
  <2>2. CASE ReadRequest
    <3>1. \A kind \in Kinds : FirstStep(kind) \in ServerPlaces
      BY DEF Kinds, FirstStep, ServerPlaces, Working
    <3>2. "create" \in ServerPlaces /\ \A c \in EcClients : asks[c] \in Kinds
      BY DEF ServerPlaces, EcTypes, PipeTypes
    <3> QED
      BY <2>2, <3>1, <3>2 DEF ReadRequest, Recycle
  <2> QED
    BY <2>1, <2>2 DEF ServerStep
<1> QED
  BY <1>1, <1>2, <1>3, <1>4 DEF EcTypes, PipeTypes

LEMMA RequestKeeps ==
  ASSUME EcTypes, RequestStep PROVE EcTypes'
<1>1. /\ OneFault
      /\ UNCHANGED <<client, asks, pipe, signalled, stopping, repair, recent>>
  BY Zenon DEF RequestStep, WritePayload, ResetStatus, AwaitReady, WriteBytes, WriteGo, ReadCmdAck,
     ReadCmdRet, FinishCommand, ReadSensor, RawAccess, WriteCare, WriteLevel, Ioctl, AwaitStage,
     clientVars, repairVars, OneFault
<1>2. server' \in ServerPlaces
  <2>1. server' \in {"refuse", "reset", "ready", "write", "go", "ack", "ret", "clear", "sensor",
                     "answer", "level"}
    BY Zenon DEF RequestStep, WritePayload, ResetStatus, AwaitReady, WriteBytes, WriteGo, ReadCmdAck,
       ReadCmdRet, FinishCommand, ReadSensor, RawAccess, WriteCare, WriteLevel, Ioctl, AwaitStage
  <2> QED
    BY <2>1 DEF ServerPlaces, Working
<1>3. stale' \in BOOLEAN
  BY Zenon DEF RequestStep, WritePayload, ResetStatus, AwaitReady, WriteBytes, WriteGo, ReadCmdAck,
     ReadCmdRet, FinishCommand, ReadSensor, RawAccess, WriteCare, WriteLevel, Ioctl, AwaitStage,
     ecVars, EcTypes
<1>4. mailbox' \in Mailboxes
  <2>1. mailbox' \in {mailbox, Idle, [st |-> "busy", stage |-> "cmd"]}
    BY Zenon DEF RequestStep, WritePayload, ResetStatus, AwaitReady, WriteBytes, WriteGo, ReadCmdAck,
       ReadCmdRet, FinishCommand, ReadSensor, RawAccess, WriteCare, WriteLevel, Ioctl, AwaitStage,
       ecVars
  <2> QED
    BY <2>1 DEF EcTypes, Mailboxes, Idle
<1>5. limits' \in Limits
  <2>1. limits' \in {limits, [limits EXCEPT !.care = TRUE], [limits EXCEPT !.level = "new"]}
    BY Zenon DEF RequestStep, WritePayload, ResetStatus, AwaitReady, WriteBytes, WriteGo, ReadCmdAck,
       ReadCmdRet, FinishCommand, ReadSensor, RawAccess, WriteCare, WriteLevel, Ioctl, AwaitStage,
       ecVars
  <2> QED
    BY <2>1 DEF EcTypes, Limits
<1> QED
  BY <1>1, <1>2, <1>3, <1>4, <1>5, FaultCounted DEF EcTypes, PipeTypes

LEMMA RepairKeeps ==
  ASSUME EcTypes, NEW r \in Repairers,
         \/ AskRepair(r) \/ RepairProbe(r) \/ RepairStop(r) \/ RepairCopy(r) \/ RepairStart(r)
         \/ RepairWait(r)
  PROVE  EcTypes'
<1>1. OneFault /\ UNCHANGED <<asks, mailbox, limits, stale>>
  BY Zenon DEF AskRepair, RepairProbe, RepairStop, RepairCopy, RepairStart, RepairWait, ServiceDies,
     clientVars, ecVars, OneFault
<1>2. repair' \in [Repairers -> Repairs]
  <2>1. \E at \in Repairs : repair' = [repair EXCEPT ![r] = at]
    BY Zenon DEF AskRepair, RepairProbe, RepairStop, RepairCopy, RepairStart, RepairWait, Repairs
  <2> QED
    BY <2>1 DEF EcTypes
<1>3. stopping' \in BOOLEAN /\ recent' \in BOOLEAN
  BY Zenon DEF AskRepair, RepairProbe, RepairStop, RepairCopy, RepairStart, RepairWait, EcTypes
<1>4. server' \in {server, "down", "create"}
  BY Zenon DEF AskRepair, RepairProbe, RepairStop, RepairCopy, RepairStart, RepairWait, ServiceDies,
     serverVars
<1>5. \/ UNCHANGED <<pipe, signalled>> \/ Connect(Gone) \/ (pipe' = NoOne /\ signalled' = FALSE)
  BY Zenon DEF AskRepair, RepairProbe, RepairStop, RepairCopy, RepairStart, RepairWait, ServiceDies,
     serverVars
<1>6. pipe' \in EcClients \cup {NoOne, "free", Gone} /\ signalled' \in BOOLEAN
  BY <1>5, Connecting DEF EcTypes, PipeTypes
<1>7. client' \in [EcClients -> ClientPlaces]
  <2>1. client' = client \/ ServiceDies
    BY Zenon DEF AskRepair, RepairProbe, RepairStop, RepairCopy, RepairStart, RepairWait, clientVars
  <2> QED
    BY <2>1 DEF ServiceDies, EcTypes, PipeTypes, ClientPlaces
<1> QED
  BY <1>1, <1>2, <1>3, <1>4, <1>6, <1>7, FaultCounted DEF EcTypes, PipeTypes, ServerPlaces

\* The types of the EC service, its pipe and the controller's mailbox.
THEOREM EcTypeCorrect == EcSpec => []EcTypeOK
<1>1. EcInit => EcTypes
  <2> SUFFICES ASSUME EcInit PROVE EcTypes
    OBVIOUS
  <2>1. PipeTypes
    BY DEF EcInit, PipeTypes, ClientPlaces, ServerPlaces, Kinds
  <2>2. mailbox \in Mailboxes /\ limits \in Limits /\ faults \in 0..MaxFaults
    BY EcAssumption DEF EcInit, Idle, Mailboxes, Limits
  <2>3. repair \in [Repairers -> Repairs]
    BY DEF EcInit, Repairs
  <2> QED
    BY <2>1, <2>2, <2>3, Zenon DEF EcInit, EcTypes
<1>2. EcTypes /\ [EcNext]_ecServiceVars => EcTypes'
  <2> SUFFICES ASSUME EcTypes, [EcNext]_ecServiceVars PROVE EcTypes'
    OBVIOUS
  <2>1. CASE StopService
    BY <2>1 DEF StopService, clientVars, serverVars, ecVars, repairVars, EcTypes, PipeTypes
  <2>2. CASE EcWorks
    <3>1. UNCHANGED <<client, asks, server, pipe, signalled, limits, stale, stopping, repair, recent>>
      BY <2>2 DEF EcWorks, clientVars, serverVars, repairVars
    <3>2. OneFault
      BY <2>2, Zenon DEF EcWorks, OneFault
    <3>3. mailbox' \in Mailboxes
      BY <2>2 DEF EcWorks, EcTypes, Mailboxes
    <3> QED
      BY <3>1, <3>2, <3>3, FaultCounted DEF EcTypes, PipeTypes
  <2>3. CASE CooldownEnds
    BY <2>3 DEF CooldownEnds, clientVars, serverVars, ecVars, EcTypes, PipeTypes
  <2>4. CASE UNCHANGED ecServiceVars
    BY <2>4 DEF ecServiceVars, clientVars, serverVars, ecVars, repairVars, EcTypes, PipeTypes
  <2> QED
    BY <2>1, <2>2, <2>3, <2>4, ClientStep, ServerKeeps, RequestKeeps, RepairKeeps, Zenon DEF EcNext
<1>3. EcTypes => EcTypeOK
  BY Zenon DEF EcTypes, PipeTypes, ClientPlaces, ServerPlaces, Mailboxes, Limits, Repairs, EcTypeOK
<1> QED
  BY <1>1, <1>2, <1>3, PTL DEF EcSpec

-----------------------------------------------------------------------------
(* OS Turbo and its recovery snapshot.                                     *)

\* What holds as long as nobody deletes the snapshot from outside.
Recoverable ==
  /\ proc \in [Procs -> Identities] /\ scheme \in Schemes
  /\ DOMAIN seen = {"set", "sweep"} /\ todo \in [{"set", "sweep"} -> SUBSET Procs]
  \* The snapshot holds nothing of Turbo's own,
  /\ snap # NoSnap => snap.scheme \in {"mine", "other"}
  /\ DOMAIN snap.procs \subseteq Procs
  /\ \A p \in DOMAIN snap.procs : snap.procs[p].state \in PowerStates \ {"eco"}
  \* and covers what Turbo has changed.
  /\ \A p \in Procs : proc[p].state = "eco" =>
       p \in DOMAIN snap.procs /\ snap.procs[p].gen = proc[p].gen
  /\ scheme = "high" => snap # NoSnap
  /\ enabled => snap # NoSnap
  \* A job works from the snapshot of the disk, and one at a time.
  /\ setJob # "idle" => snap # NoSnap /\ seen["set"] = snap /\ sweepJob = "idle"
  /\ sweepJob # "idle" => seen["sweep"] = snap /\ setJob = "idle"
  /\ sweepJob = "idle" => todo["sweep"] = {}
  /\ todo["sweep"] \subseteq DOMAIN snap.procs
  /\ setJob = "apply" => todo["set"] \subseteq DOMAIN snap.procs
  \* What the disabling has passed is restored, or known not to be.
  /\ setJob = "restore" =>
       \A p \in Procs : proc[p].state = "eco" => p \in todo["set"] \/ failed = TRUE
  /\ setJob \in {"unflag", "remove"} =>
       scheme # "high" /\ \A p \in Procs : proc[p].state # "eco"
  /\ setJob = "remove" => enabled = FALSE

LEMMA NoSnapIsEmpty == DOMAIN NoSnap.procs = {} /\ NoSnap.scheme = "none"
BY DEF NoSnap

LEMMA TurboStepKeeps ==
  ASSUME Overlap = FALSE, Recoverable, TurboNext, lost' = FALSE PROVE Recoverable'
<1> USE NoSnapIsEmpty
<1>1. CASE Enable
  <2>1. /\ setJob = "idle" /\ sweepJob = "idle" /\ snap = NoSnap /\ enabled = FALSE
        /\ setJob' = "flag" /\ seen' = [seen EXCEPT !["set"] = snap']
        /\ UNCHANGED <<enabled, scheme, proc, sweepJob, todo>>
    BY <1>1 DEF Enable
  <2>2. PICK S \in SUBSET Procs :
          snap' = [scheme |-> scheme, procs |-> [p \in S |-> proc[p]]]
    BY <1>1 DEF Enable
  <2>3. \A p \in Procs : proc[p].state \in PowerStates \ {"eco"}
    BY <2>1 DEF Recoverable, Identities
  <2>4. /\ snap'.scheme = scheme /\ DOMAIN snap'.procs = S
        /\ \A p \in S : snap'.procs[p] = proc[p]
    BY <2>2
  <2>5. snap'.scheme \in {"mine", "other"} /\ snap' # NoSnap
    BY <2>1, <2>4 DEF Recoverable, Schemes
  <2> QED
    BY <2>1, <2>3, <2>4, <2>5 DEF Recoverable
<1>2. CASE PersistOn
  BY <1>2 DEF PersistOn, Recoverable
<1>3. CASE RaiseScheme
  <2>1. /\ setJob = "raise" /\ setJob' \in {"apply", "idle"} /\ scheme' \in {scheme, "high"}
        /\ UNCHANGED <<enabled, snap, proc, sweepJob, seen, failed>>
    BY <1>3 DEF RaiseScheme
  <2>2. scheme' \in Schemes /\ DOMAIN snap.procs \subseteq Procs
    BY <2>1 DEF Recoverable, Schemes
  <2>3. \/ setJob' = "apply" /\ todo' = [todo EXCEPT !["set"] = DOMAIN snap.procs]
        \/ setJob' = "idle" /\ todo' = todo
    BY <1>3 DEF RaiseScheme, Recoverable
  <2>4. /\ todo' \in [{"set", "sweep"} -> SUBSET Procs] /\ todo'["sweep"] = todo["sweep"]
        /\ setJob' = "apply" => todo'["set"] \subseteq DOMAIN snap.procs
    BY <2>2, <2>3 DEF Recoverable
  <2> QED
    BY <2>1, <2>2, <2>4 DEF Recoverable
<1>4. CASE Enabled
  BY <1>4 DEF Enabled, Recoverable
<1>5. CASE Disable
  <2>1. /\ setJob = "idle" /\ sweepJob = "idle" /\ snap # NoSnap /\ setJob' = "restore"
        /\ seen' = [seen EXCEPT !["set"] = snap]
        /\ todo' = [todo EXCEPT !["set"] = DOMAIN snap.procs]
        /\ UNCHANGED <<enabled, snap, scheme, proc, sweepJob>>
    BY <1>5 DEF Disable
  <2>2. /\ todo' \in [{"set", "sweep"} -> SUBSET Procs] /\ todo'["sweep"] = todo["sweep"]
        /\ todo'["set"] = DOMAIN snap.procs
    BY <2>1 DEF Recoverable
  <2> QED
    BY <2>1, <2>2 DEF Recoverable
<1>6. CASE LowerScheme
  BY <1>6 DEF LowerScheme, Recoverable, Schemes
<1>7. CASE PersistOff
  BY <1>7 DEF PersistOff, Recoverable
<1>8. CASE RemoveSnapshot
  BY <1>8 DEF RemoveSnapshot, Recoverable
<1>9. ASSUME NEW p \in Procs, RestoreOne(p) PROVE Recoverable'
  <2>1. /\ setJob = "restore" /\ p \in todo["set"] /\ todo' = [todo EXCEPT !["set"] = @ \ {p}]
        /\ UNCHANGED <<enabled, snap, scheme, setJob, sweepJob, seen>>
    BY <1>9 DEF RestoreOne
  <2>2. todo' \in [{"set", "sweep"} -> SUBSET Procs] /\ todo'["sweep"] = todo["sweep"]
        /\ todo'["set"] = todo["set"] \ {p}
    BY <2>1 DEF Recoverable
  <2>3. CASE proc[p].state = "eco"
    <3>1. /\ p \in DOMAIN snap.procs /\ seen["set"] = snap /\ SameProcess("set", p)
          /\ snap.procs[p].state # "eco"
      BY <2>1, <2>3 DEF Recoverable, SameProcess
    <3>2. CASE failed' = TRUE /\ proc' = proc
      BY <2>1, <2>2, <3>2 DEF Recoverable
    <3>3. CASE UNCHANGED failed /\ proc' = [proc EXCEPT ![p].state = snap.procs[p].state]
      <4>1. /\ snap.procs[p].state \in PowerStates /\ proc' \in [Procs -> Identities]
            /\ proc'[p].state # "eco" /\ \A q \in Procs : q # p => proc'[q] = proc[q]
        BY <3>1, <3>3 DEF Recoverable, Identities
      <4> QED
        BY <2>1, <2>2, <3>3, <4>1 DEF Recoverable
    <3> QED
      BY <1>9, <2>3, <3>1, <3>2, <3>3 DEF RestoreOne
  <2>4. CASE proc[p].state # "eco"
    <3>1. UNCHANGED <<proc, failed>>
      BY <1>9, <2>4 DEF RestoreOne
    <3> QED
      BY <2>1, <2>2, <2>4, <3>1 DEF Recoverable
  <2> QED
    BY <2>3, <2>4
<1>10. CASE SweepSteps
  <2>1. CASE Sweep /\ turboWorker' = "sweep"
    <3>1. /\ setJob = "idle" /\ sweepJob' = "apply" /\ seen' = [seen EXCEPT !["sweep"] = snap]
          /\ todo' = [todo EXCEPT !["sweep"] = DOMAIN snap.procs]
          /\ UNCHANGED <<enabled, snap, scheme, proc, setJob>>
      BY <2>1 DEF Sweep, Recoverable
    <3>2. /\ todo' \in [{"set", "sweep"} -> SUBSET Procs]
          /\ todo'["sweep"] = DOMAIN snap.procs
      BY <3>1 DEF Recoverable
    <3> QED
      BY <3>1, <3>2 DEF Recoverable
  <2>2. CASE RefreshFails
    <3>1. /\ sweepJob' = "idle" /\ todo' = [todo EXCEPT !["sweep"] = {}]
          /\ UNCHANGED <<enabled, snap, scheme, proc, setJob, seen, failed>>
      BY <2>2 DEF RefreshFails
    <3>2. /\ todo' \in [{"set", "sweep"} -> SUBSET Procs] /\ todo'["sweep"] = {}
          /\ todo'["set"] = todo["set"]
      BY <3>1 DEF Recoverable
    <3> QED
      BY <3>1, <3>2 DEF Recoverable
  <2>3. CASE Refreshed
    BY <2>3 DEF Refreshed, Recoverable
  <2>4. CASE \/ Sweep /\ turboWorker' # "sweep"
             \/ BackoffEnds \/ WorkerStops
    <3>1. UNCHANGED <<enabled, snap, scheme, proc, setJob, sweepJob, seen, todo, failed>>
      BY <2>4 DEF Sweep, BackoffEnds, WorkerStops, bridgeJobs
    <3> QED
      BY <3>1 DEF Recoverable
  <2> QED
    BY <1>10, <2>1, <2>2, <2>3, <2>4 DEF SweepSteps
<1>11. ASSUME NEW p \in Procs, NEW job \in {"set", "sweep"}, job = "set" => setJob = "apply",
              ThrottleOne(job, p)
       PROVE  Recoverable'
  BY <1>11 DEF ThrottleOne, SameProcess, Recoverable, Identities, PowerStates
<1>12. CASE BridgeDies
  BY <1>12 DEF BridgeDies, Recoverable
<1>13. CASE Change
  BY <1>13 DEF Change, bridgeJobs, Recoverable, Identities, PowerStates, Schemes
<1>14. CASE LoseSnapshot
  BY <1>14 DEF LoseSnapshot
<1>15. CASE AutoRepair
  BY <1>15 DEF AutoRepair, Recoverable
<1>16. ASSUME NEW p \in Procs, Restart(p) PROVE Recoverable'
  <2>1. /\ proc[p].gen < MaxRestarts
        /\ proc' = [proc EXCEPT ![p] = [gen |-> proc[p].gen + 1, state |-> "own"]]
        /\ UNCHANGED <<enabled, snap, scheme, setJob, sweepJob, seen, todo, failed>>
    BY <1>16 DEF Restart, bridgeJobs
  <2>2. [gen |-> proc[p].gen + 1, state |-> "own"] \in Identities
    <3>1. proc[p].gen \in 0..MaxRestarts
      BY DEF Recoverable, Identities
    <3>2. proc[p].gen + 1 \in 0..MaxRestarts
      BY <2>1, <3>1, TurboAssumption
    <3> QED
      BY <3>2 DEF Identities, PowerStates
  <2>3. /\ proc' \in [Procs -> Identities] /\ proc'[p].state # "eco"
        /\ \A q \in Procs : q # p => proc'[q] = proc[q]
    BY <2>1, <2>2 DEF Recoverable
  <2> QED
    BY <2>1, <2>3 DEF Recoverable
<1> QED
  BY <1>1, <1>2, <1>3, <1>4, <1>5, <1>6, <1>7, <1>8, <1>9, <1>10, <1>11, <1>12, <1>13, <1>14,
     <1>15, <1>16 DEF TurboNext, SetSteps

\* What Turbo has changed can be put back at every moment, for any number of processes,
\* exits and faults, when no refresh runs beside set_os_turbo.
THEOREM TurboCanBeUndone ==
  ASSUME Overlap = FALSE PROVE TurboSpec => []TurboIsReversible
<1> DEFINE Inv == lost \in BOOLEAN /\ (lost = FALSE => Recoverable)
<1>1. TurboInit => Inv
  <2> SUFFICES ASSUME TurboInit PROVE lost \in BOOLEAN /\ Recoverable
    OBVIOUS
  <2>1. /\ snap = NoSnap /\ scheme = "mine" /\ setJob = "idle" /\ sweepJob = "idle"
        /\ enabled = FALSE
    BY DEF TurboInit
  <2>2. proc \in [Procs -> Identities] /\ \A p \in Procs : proc[p].state = "own"
    BY TurboAssumption DEF TurboInit, Identities, PowerStates
  <2>3. /\ DOMAIN seen = {"set", "sweep"} /\ todo \in [{"set", "sweep"} -> SUBSET Procs]
        /\ todo["sweep"] = {} /\ lost \in BOOLEAN
    BY DEF TurboInit
  <2> QED
    BY <2>1, <2>2, <2>3, NoSnapIsEmpty DEF Recoverable, Schemes
<1>2. Inv /\ [TurboNext]_turboVars => Inv'
  <2>1. CASE UNCHANGED turboVars
    BY <2>1 DEF turboVars, workerVars, Recoverable
  <2>2. ASSUME Inv, TurboNext PROVE lost' \in BOOLEAN /\ (lost' = FALSE => lost = FALSE)
    BY <2>2 DEF TurboNext, SetSteps, SweepSteps, Enable, PersistOn, RaiseScheme, Enabled, Disable,
       LowerScheme, PersistOff, RemoveSnapshot, RestoreOne, Sweep, Refreshed, RefreshFails,
       BackoffEnds, WorkerStops, ThrottleOne, BridgeDies, Change, LoseSnapshot, AutoRepair,
       Restart
  <2> QED
    BY <2>1, <2>2, TurboStepKeeps
<1>3. Inv => TurboIsReversible
  BY NoSnapIsEmpty DEF Recoverable, TurboIsReversible
<1> QED
  BY <1>1, <1>2, <1>3, PTL DEF TurboSpec

\* The types of OS Turbo: what is small,
TurboSmall ==
  /\ enabled \in BOOLEAN /\ scheme \in Schemes
  /\ setJob \in {"idle", "flag", "raise", "apply", "restore", "lower", "unflag", "remove"}
  /\ sweepJob \in {"idle", "apply"}
  /\ failed \in BOOLEAN /\ stopAsked \in BOOLEAN /\ backoff \in BOOLEAN /\ lost \in BOOLEAN
  /\ turboWorker \in {"off", "on", "sweep"}
  /\ streak \in 0..WorkerFailureThreshold /\ turboFaults \in 0..MaxTurboFaults

\* and the processes and their snapshots. A disabling restores those of its snapshot.
TurboData ==
  /\ snap \in Snapshots /\ proc \in [Procs -> Identities]
  /\ seen \in [{"set", "sweep"} -> Snapshots] /\ todo \in [{"set", "sweep"} -> SUBSET Procs]
  /\ setJob = "restore" => seen["set"] # NoSnap /\ todo["set"] \subseteq DOMAIN seen["set"].procs

LEMMA SnapshotCovers ==
  ASSUME NEW s \in Snapshots
  PROVE  DOMAIN s.procs \subseteq Procs /\ \A p \in DOMAIN s.procs : s.procs[p] \in Identities
<1>1. CASE s = NoSnap
  BY <1>1, NoSnapIsEmpty
<1>2. CASE s # NoSnap
  BY <1>2 DEF Snapshots
<1> QED
  BY <1>1, <1>2

LEMMA SnapshotOf ==
  ASSUME NEW c \in Schemes, NEW S \in SUBSET Procs, NEW f \in [S -> Identities]
  PROVE  [scheme |-> c, procs |-> f] \in Snapshots
BY DEF Snapshots

LEMMA TurboSmallStep ==
  ASSUME TurboSmall, TurboData, TurboNext PROVE TurboSmall'
<1>1. turboFaults' \in 0..MaxTurboFaults
  <2>1. turboFaults' = turboFaults \/ (turboFaults < MaxTurboFaults /\ turboFaults' = turboFaults + 1)
    <3>1. CASE SetSteps
      BY <3>1, Zenon DEF SetSteps, Enable, PersistOn, RaiseScheme, Enabled, Disable, LowerScheme, PersistOff,
         RemoveSnapshot, RestoreOne, Works, Fault
    <3>2. CASE SweepSteps
      BY <3>2, Zenon DEF SweepSteps, Sweep, Refreshed, RefreshFails, BackoffEnds, WorkerStops
    <3>3. CASE \E p \in Procs, job \in {"set", "sweep"} : ThrottleOne(job, p)
      BY <3>3, Zenon DEF ThrottleOne, Works, Fault
    <3>4. CASE BridgeDies \/ Change \/ LoseSnapshot \/ AutoRepair \/ \E p \in Procs : Restart(p)
      BY <3>4, Zenon DEF BridgeDies, Change, LoseSnapshot, AutoRepair, Restart, Fault
    <3> QED
      BY <3>1, <3>2, <3>3, <3>4, Zenon DEF TurboNext
  <2> QED
    BY <2>1, TurboAssumption DEF TurboSmall
<1>2. streak' \in 0..WorkerFailureThreshold
  <2>1. streak' \in {streak, 0} \/ (streak < WorkerFailureThreshold /\ streak' = streak + 1)
    <3>1. CASE SetSteps
      BY <3>1, Zenon DEF SetSteps, Enable, PersistOn, RaiseScheme, Enabled, Disable, LowerScheme, PersistOff,
         RemoveSnapshot, RestoreOne, workerVars
    <3>2. CASE SweepSteps
      BY <3>2, Zenon DEF SweepSteps, Sweep, Refreshed, RefreshFails, BackoffEnds, WorkerStops
    <3>3. CASE \E p \in Procs, job \in {"set", "sweep"} : ThrottleOne(job, p)
      BY <3>3, Zenon DEF ThrottleOne, workerVars
    <3>4. CASE BridgeDies \/ Change \/ LoseSnapshot \/ AutoRepair \/ \E p \in Procs : Restart(p)
      BY <3>4, Zenon DEF BridgeDies, Change, LoseSnapshot, AutoRepair, Restart, workerVars
    <3> QED
      BY <3>1, <3>2, <3>3, <3>4, Zenon DEF TurboNext
  <2> QED
    BY <2>1 DEF TurboSmall, WorkerFailureThreshold
<1>3. CASE SetSteps
  <2>1. /\ scheme' \in {scheme, "high"} \/ (setJob = "restore" /\ scheme' = seen["set"].scheme)
        /\ setJob' \in {setJob, "idle", "flag", "raise", "apply", "restore", "unflag", "remove"}
        /\ sweepJob' = sweepJob /\ turboWorker' \in {turboWorker, "on"}
    BY <1>3, Zenon DEF SetSteps, Enable, PersistOn, RaiseScheme, Enabled, Disable, LowerScheme, PersistOff,
       RemoveSnapshot, RestoreOne, workerVars
  <2>2. /\ enabled' \in {enabled, TRUE, FALSE} /\ failed' \in {failed, TRUE, FALSE}
        /\ stopAsked' \in {stopAsked, TRUE, FALSE} /\ backoff' = backoff /\ lost' = lost
    BY <1>3, Zenon DEF SetSteps, Enable, PersistOn, RaiseScheme, Enabled, Disable, LowerScheme, PersistOff,
       RemoveSnapshot, RestoreOne, workerVars
  <2>3. setJob = "restore" => seen["set"].scheme \in Schemes
    BY DEF TurboData, Snapshots
  <2>4. /\ scheme' \in Schemes /\ sweepJob' \in {"idle", "apply"} /\ turboWorker' \in {"off", "on", "sweep"}
        /\ setJob' \in {"idle", "flag", "raise", "apply", "restore", "lower", "unflag", "remove"}
    BY <2>1, <2>3 DEF TurboSmall, Schemes
  <2>5. /\ enabled' \in BOOLEAN /\ failed' \in BOOLEAN /\ stopAsked' \in BOOLEAN
        /\ backoff' \in BOOLEAN /\ lost' \in BOOLEAN
    BY <2>2, Zenon DEF TurboSmall
  <2> QED
    BY <1>1, <1>2, <2>4, <2>5, Zenon DEF TurboSmall
<1>4. CASE SweepSteps
  <2>1. /\ UNCHANGED <<scheme, setJob>> /\ sweepJob' \in {sweepJob, "apply", "idle"}
        /\ turboWorker' \in {turboWorker, "on", "off", "sweep"}
    BY <1>4, Zenon DEF SweepSteps, Sweep, Refreshed, RefreshFails, BackoffEnds, WorkerStops, bridgeJobs
  <2>2. /\ UNCHANGED <<enabled, failed, stopAsked, lost>>
        /\ backoff' = backoff \/ backoff' = FALSE \/ backoff' = (streak' >= WorkerFailureThreshold)
    BY <1>4, Zenon DEF SweepSteps, Sweep, Refreshed, RefreshFails, BackoffEnds, WorkerStops, bridgeJobs
  <2>3. sweepJob' \in {"idle", "apply"} /\ turboWorker' \in {"off", "on", "sweep"}
    BY <2>1 DEF TurboSmall
  <2>4. (streak' >= WorkerFailureThreshold) \in BOOLEAN
    OBVIOUS
  <2>5. backoff' \in BOOLEAN
    BY <2>2, <2>4, Zenon DEF TurboSmall
  <2> QED
    BY <1>1, <1>2, <2>1, <2>2, <2>3, <2>5, Zenon DEF TurboSmall
<1>5. CASE \E p \in Procs, job \in {"set", "sweep"} : ThrottleOne(job, p)
  <2>1. UNCHANGED <<enabled, scheme, setJob, sweepJob, failed, workerVars, lost>>
    BY <1>5, Zenon DEF ThrottleOne
  <2> QED
    BY <1>1, <1>2, <2>1, Zenon DEF TurboSmall, workerVars
<1>6. CASE BridgeDies \/ Change \/ LoseSnapshot \/ AutoRepair \/ \E p \in Procs : Restart(p)
  <2>1. /\ UNCHANGED <<enabled, failed, stopAsked, backoff>> /\ lost' \in {lost, TRUE}
        /\ scheme' \in {scheme, "other"} /\ setJob' \in {setJob, "idle"}
        /\ sweepJob' \in {sweepJob, "idle"} /\ turboWorker' \in {turboWorker, "on"}
    BY <1>6, Zenon DEF BridgeDies, Change, LoseSnapshot, AutoRepair, Restart, bridgeJobs, workerVars
  <2>2. /\ scheme' \in Schemes /\ sweepJob' \in {"idle", "apply"} /\ turboWorker' \in {"off", "on", "sweep"}
        /\ setJob' \in {"idle", "flag", "raise", "apply", "restore", "lower", "unflag", "remove"}
    BY <2>1 DEF TurboSmall, Schemes
  <2>3. lost' \in BOOLEAN
    BY <2>1, Zenon DEF TurboSmall
  <2> QED
    BY <1>1, <1>2, <2>1, <2>2, <2>3, Zenon DEF TurboSmall
<1> QED
  BY <1>3, <1>4, <1>5, <1>6, Zenon DEF TurboNext

LEMMA TurboDataStep ==
  ASSUME TurboSmall, TurboData, TurboNext PROVE TurboData'
<1>1. CASE Enable
  <2>1. PICK S \in SUBSET Procs : snap' = [scheme |-> scheme, procs |-> [p \in S |-> proc[p]]]
    BY <1>1 DEF Enable
  <2>2. [p \in S |-> proc[p]] \in [S -> Identities]
    BY DEF TurboData
  <2>3. snap' \in Snapshots
    BY <2>1, <2>2, SnapshotOf DEF TurboSmall
  <2>4. seen' = [seen EXCEPT !["set"] = snap'] /\ setJob' = "flag" /\ UNCHANGED <<proc, todo>>
    BY <1>1 DEF Enable
  <2> QED
    BY <2>3, <2>4 DEF TurboData
<1>2. CASE PersistOn \/ Enabled \/ LowerScheme \/ PersistOff
  <2>1. UNCHANGED <<snap, proc, seen, todo>> /\ setJob' \in {"raise", "idle", "unflag", "remove"}
    BY <1>2, Zenon DEF PersistOn, Enabled, LowerScheme, PersistOff
  <2> QED
    BY <2>1 DEF TurboData
<1>3. CASE RaiseScheme
  <2>1. DOMAIN seen["set"].procs \in SUBSET Procs
    BY SnapshotCovers DEF TurboData
  <2>2. /\ todo' = todo \/ todo' = [todo EXCEPT !["set"] = DOMAIN seen["set"].procs]
        /\ setJob' \in {"apply", "idle"} /\ UNCHANGED <<snap, proc, seen>>
    BY <1>3, Zenon DEF RaiseScheme
  <2> QED
    BY <2>1, <2>2 DEF TurboData
<1>4. CASE Disable
  <2>1. DOMAIN snap.procs \in SUBSET Procs
    BY SnapshotCovers DEF TurboData
  <2>2. /\ snap # NoSnap /\ seen' = [seen EXCEPT !["set"] = snap]
        /\ todo' = [todo EXCEPT !["set"] = DOMAIN snap.procs] /\ UNCHANGED <<snap, proc>>
    BY <1>4 DEF Disable
  <2> QED
    BY <2>1, <2>2 DEF TurboData
<1>5. CASE RemoveSnapshot
  <2>1. snap' \in {snap, NoSnap} /\ setJob' = "idle" /\ UNCHANGED <<proc, seen, todo>>
    BY <1>5 DEF RemoveSnapshot
  <2> QED
    BY <2>1 DEF TurboData, Snapshots
<1>6. ASSUME NEW p \in Procs, RestoreOne(p) PROVE TurboData'
  <2>1. /\ setJob = "restore" /\ p \in todo["set"] /\ todo' = [todo EXCEPT !["set"] = @ \ {p}]
        /\ proc' \in {proc, [proc EXCEPT ![p].state = seen["set"].procs[p].state]}
        /\ UNCHANGED <<snap, setJob, seen>>
    BY <1>6, Zenon DEF RestoreOne
  <2>2. seen["set"].procs[p] \in Identities
    BY <2>1, SnapshotCovers DEF TurboData
  <2>3. proc' \in [Procs -> Identities]
    BY <2>1, <2>2 DEF TurboData, Identities
  <2> QED
    BY <2>1, <2>3 DEF TurboData
<1>7. CASE SweepSteps
  <2>1. DOMAIN snap.procs \in SUBSET Procs
    BY SnapshotCovers DEF TurboData
  <2>2. /\ UNCHANGED <<snap, proc, setJob>>
        /\ seen' = seen \/ seen' = [seen EXCEPT !["sweep"] = snap]
        /\ \/ todo' = todo \/ todo' = [todo EXCEPT !["sweep"] = DOMAIN snap.procs]
           \/ todo' = [todo EXCEPT !["sweep"] = {}]
    BY <1>7, Zenon DEF SweepSteps, Sweep, Refreshed, RefreshFails, BackoffEnds, WorkerStops, bridgeJobs
  <2> QED
    BY <2>1, <2>2 DEF TurboData
<1>8. ASSUME NEW p \in Procs, NEW job \in {"set", "sweep"}, ThrottleOne(job, p) PROVE TurboData'
  <2>1. /\ todo' = [todo EXCEPT ![job] = @ \ {p}] /\ UNCHANGED <<snap, setJob, seen>>
        /\ proc' \in {proc, [proc EXCEPT ![p].state = "eco"], [proc EXCEPT ![p].state = proc[p].state]}
    BY <1>8, Zenon DEF ThrottleOne
  <2>2. proc' \in [Procs -> Identities]
    BY <2>1 DEF TurboData, Identities, PowerStates
  <2>3. /\ todo' \in [{"set", "sweep"} -> SUBSET Procs] /\ todo'["set"] \subseteq todo["set"]
    BY <2>1 DEF TurboData
  <2> QED
    BY <2>1, <2>2, <2>3 DEF TurboData
<1>9. CASE BridgeDies
  BY <1>9 DEF BridgeDies, TurboData
<1>10. CASE Change
  <2>1. UNCHANGED <<snap, setJob, seen, todo>>
    BY <1>10, Zenon DEF Change, bridgeJobs
  <2>2. proc' = proc \/ \E p \in Procs : proc' = [proc EXCEPT ![p].state = "other"]
    BY <1>10, Zenon DEF Change
  <2>3. proc' \in [Procs -> Identities]
    BY <2>2 DEF TurboData, Identities, PowerStates
  <2> QED
    BY <2>1, <2>3 DEF TurboData
<1>11. CASE LoseSnapshot
  BY <1>11 DEF LoseSnapshot, bridgeJobs, TurboData, Snapshots
<1>12. CASE AutoRepair
  <2>1. snap' \in Snapshots
    BY <1>12, SnapshotOf DEF AutoRepair, TurboSmall, TurboData
  <2> QED
    BY <1>12, <2>1 DEF AutoRepair, bridgeJobs, TurboData
<1>13. ASSUME NEW p \in Procs, Restart(p) PROVE TurboData'
  <2>1. /\ proc[p].gen < MaxRestarts /\ UNCHANGED <<snap, setJob, seen, todo>>
        /\ proc' = [proc EXCEPT ![p] = [gen |-> proc[p].gen + 1, state |-> "own"]]
    BY <1>13 DEF Restart, bridgeJobs
  <2>2. proc[p].gen \in 0..MaxRestarts
    BY DEF TurboData, Identities
  <2>3. proc[p].gen + 1 \in 0..MaxRestarts
    BY <2>1, <2>2, TurboAssumption
  <2>4. [gen |-> proc[p].gen + 1, state |-> "own"] \in Identities
    BY <2>3 DEF Identities, PowerStates
  <2>5. proc' \in [Procs -> Identities]
    BY <2>1, <2>4 DEF TurboData
  <2> QED
    BY <2>1, <2>5 DEF TurboData
<1> QED
  BY <1>1, <1>2, <1>3, <1>4, <1>5, <1>6, <1>7, <1>8, <1>9, <1>10, <1>11, <1>12, <1>13, Zenon
     DEF TurboNext, SetSteps

\* The processes a disabling restores are in the snapshot it works from, with their states,
\* and every snapshot is one of the processes: also when a refresh runs beside it.
THEOREM TurboTypeCorrect == TurboSpec => []TurboTypeOK
<1>1. TurboInit => TurboSmall /\ TurboData
  <2> SUFFICES ASSUME TurboInit PROVE TurboSmall /\ TurboData
    OBVIOUS
  <2>1. 0 \in 0..WorkerFailureThreshold /\ 0 \in 0..MaxTurboFaults /\ 0 \in 0..MaxRestarts
    BY TurboAssumption DEF WorkerFailureThreshold
  <2>2. TurboSmall
    BY <2>1, Zenon DEF TurboInit, TurboSmall, Schemes
  <2>3. NoSnap \in Snapshots
    BY Zenon DEF Snapshots
  <2>4. /\ seen \in [{"set", "sweep"} -> Snapshots] /\ todo \in [{"set", "sweep"} -> SUBSET Procs]
    BY <2>3, Zenon DEF TurboInit
  <2>5. proc \in [Procs -> Identities]
    BY <2>1 DEF TurboInit, Identities, PowerStates
  <2> QED
    BY <2>2, <2>3, <2>4, <2>5 DEF TurboInit, TurboData
<1>2. TurboSmall /\ TurboData /\ UNCHANGED turboVars => TurboSmall' /\ TurboData'
  BY DEF turboVars, TurboSmall, TurboData
<1>3. TurboSmall /\ TurboData => TurboTypeOK
  BY Zenon DEF TurboSmall, TurboData, TurboTypeOK
<1> QED
  BY <1>1, <1>2, <1>3, TurboSmallStep, TurboDataStep, PTL DEF TurboSpec

-----------------------------------------------------------------------------
(* The performance modes.                                                  *)

SetterRecords == [at : SetterStates, mode : Modes, elevated : BOOLEAN]

PerfTypes ==
  /\ setter \in [Sets -> SetterRecords]
  /\ registry \in Modes \cup {NoMode} /\ overlay \in {"efficiency", "balanced", "performance"}
  /\ ecMode \in Modes /\ firmware \in Modes /\ disturbed \in BOOLEAN

AllAgree == overlay = OverlayOf(ShownMode) /\ ecMode = ShownMode /\ firmware = ShownMode

\* How far the change s has come: the places before its step hold its mode.
Reached(s) ==
  LET mode == setter[s].mode  at == setter[s].at IN
  /\ at = "registry" => AllAgree
  /\ at \in {"overlay", "ec", "hq", "vhf"} => registry = mode
  /\ at \in {"ec", "hq", "vhf"} => overlay = OverlayOf(mode)
  /\ at \in {"hq", "vhf"} => ecMode = mode

IsRunning(s) == setter[s].at \notin {"none", "done"}

PerfInv ==
  /\ PerfTypes
  /\ ~disturbed => /\ (\A s \in Sets : ~IsRunning(s)) => AllAgree
                   /\ \A s, t \in Sets : IsRunning(s) /\ IsRunning(t) => s = t
                   /\ \A s \in Sets : Reached(s)

LEMMA SetterMoves ==
  ASSUME PerfTypes, NEW s \in Sets, NEW from, NEW to \in SetterStates, At(s, from, to)
  PROVE  /\ setter' \in [Sets -> SetterRecords] /\ setter[s].at = from
         /\ setter'[s].at = to /\ setter'[s].mode = setter[s].mode
         /\ \A t \in Sets : t # s => setter'[t] = setter[t]
BY DEF PerfTypes, At, SetterRecords

\* Once a mode is in the registry it is the mode that is shown.
LEMMA ShownIsRegistry == ASSUME registry \in Modes PROVE ShownMode = registry
BY DEF ShownMode, Modes, NoMode

LEMMA SetStepKeeps ==
  ASSUME PerfInv, NEW s \in Sets, SetStep(s) PROVE PerfInv'
<1>1. PerfTypes /\ setter[s] \in SetterRecords /\ setter[s].mode \in Modes
      /\ OverlayOf(setter[s].mode) \in {"efficiency", "balanced", "performance"}
  BY DEF PerfInv, PerfTypes, SetterRecords, OverlayOf
<1>2. ASSUME NEW from \in SetterStates \ {"none", "done"}, NEW to \in SetterStates,
             At(s, from, to), disturbed' \in BOOLEAN,
             registry' \in Modes \cup {NoMode}, ecMode' \in Modes, firmware' \in Modes,
             overlay' \in {"efficiency", "balanced", "performance"},
             ~disturbed' => ~disturbed /\ Reached(s)' /\ (to = "done" => AllAgree'),
             to # "none"
      PROVE  PerfInv'
  <2>1. /\ setter' \in [Sets -> SetterRecords] /\ setter[s].at = from
        /\ setter'[s].at = to /\ \A t \in Sets : t # s => setter'[t] = setter[t]
    BY <1>1, <1>2, SetterMoves
  <2>2. PerfTypes'
    BY <1>2, <2>1 DEF PerfTypes
  <2>3. ASSUME ~disturbed' PROVE \A t \in Sets : t # s => ~IsRunning(t) /\ ~IsRunning(t)'
    BY <1>2, <2>1, <2>3 DEF PerfInv, IsRunning
  <2>4. ASSUME ~disturbed', NEW t \in Sets PROVE Reached(t)'
    <3>1. CASE t = s
      BY <1>2, <2>4, <3>1
    <3>2. CASE t # s
      BY <2>3, <2>4, <3>2 DEF Reached, IsRunning
    <3> QED
      BY <3>1, <3>2
  <2>5. ASSUME ~disturbed', \A t \in Sets : ~IsRunning(t)' PROVE AllAgree'
    BY <1>2, <2>1, <2>5 DEF IsRunning
  <2>6. ASSUME ~disturbed', NEW t \in Sets, NEW u \in Sets, IsRunning(t)', IsRunning(u)' PROVE t = u
    BY <2>3, <2>6
  <2> QED
    BY <2>2, <2>4, <2>5, <2>6 DEF PerfInv
<1>3. ASSUME NEW from \in SetterStates, NEW to \in SetterStates, At(s, from, to)
      PROVE  setter[s].at = from /\ setter'[s].at = to /\ setter'[s].mode = setter[s].mode
  BY <1>1, <1>3, SetterMoves
<1>4. ~disturbed => Reached(s)
  BY DEF PerfInv
<1>5. CASE Persist(s)
  <2>1. UNCHANGED <<overlay, ecMode, firmware, disturbed>>
    BY <1>5 DEF Persist
  <2>2. CASE At(s, "registry", "overlay") /\ registry' = setter[s].mode
    <3>1. Reached(s)' /\ registry' \in Modes
      BY <1>1, <1>3, <2>2 DEF Reached, SetterStates
    <3> QED
      BY <1>1, <1>2, <2>1, <2>2, <3>1 DEF SetterStates, PerfTypes
  <2>3. CASE At(s, "registry", "done") /\ UNCHANGED registry
    <3>1. setter[s].at = "registry" /\ setter'[s].at = "done"
      BY <1>3, <2>3 DEF SetterStates
    <3>2. ~disturbed => AllAgree
      BY <1>4, <3>1 DEF Reached
    <3>3. ShownMode' = ShownMode
      BY <2>1, <2>3 DEF ShownMode
    <3>4. ~disturbed => AllAgree' /\ Reached(s)'
      BY <2>1, <3>1, <3>2, <3>3 DEF AllAgree, Reached
    <3> QED
      BY <1>1, <1>2, <2>1, <2>3, <3>4 DEF SetterStates, PerfTypes
  <2> QED
    BY <1>5, <2>2, <2>3 DEF Persist
<1>6. CASE Overlay(s)
  <2>1. At(s, "overlay", "ec") /\ overlay' = OverlayOf(setter[s].mode)
        /\ UNCHANGED <<registry, ecMode, firmware, disturbed>>
    BY <1>6 DEF Overlay
  <2>2. ~disturbed => Reached(s)'
    BY <1>3, <1>4, <2>1 DEF Reached, SetterStates
  <2> QED
    BY <1>1, <1>2, <2>1, <2>2 DEF SetterStates, PerfTypes
<1>7. CASE SetEc(s)
  <2>1. /\ At(s, "ec", "hq") /\ UNCHANGED <<registry, overlay, firmware>>
        /\ \/ ecMode' = setter[s].mode /\ disturbed' = disturbed
           \/ ecMode' = ecMode /\ disturbed' = TRUE
    BY <1>7 DEF SetEc
  <2>2. ~disturbed' => ~disturbed /\ Reached(s)'
    BY <1>3, <1>4, <2>1 DEF Reached, SetterStates
  <2>3. ecMode' \in Modes /\ disturbed' \in BOOLEAN
    BY <1>1, <2>1 DEF PerfTypes
  <2> QED
    BY <1>1, <1>2, <2>1, <2>2, <2>3 DEF SetterStates, PerfTypes
\* When the firmware has the mode too all places agree.
<1>8. ASSUME setter[s].at \in {"hq", "vhf"}, setter'[s].at = "done", firmware' = setter[s].mode,
             UNCHANGED <<registry, overlay, ecMode>>
      PROVE  ~disturbed => AllAgree' /\ Reached(s)'
  <2> SUFFICES ASSUME ~disturbed PROVE AllAgree' /\ Reached(s)'
    OBVIOUS
  <2>1. registry = setter[s].mode /\ overlay = OverlayOf(setter[s].mode) /\ ecMode = setter[s].mode
    BY <1>4, <1>8 DEF Reached
  <2>2. ShownMode' = setter[s].mode
    BY <1>1, <1>8, <2>1 DEF ShownMode, Modes, NoMode
  <2>3. AllAgree'
    BY <1>8, <2>1, <2>2 DEF AllAgree
  <2> QED
    BY <1>8, <2>3 DEF Reached
<1>9. CASE SendHq(s)
  <2>1. UNCHANGED <<registry, overlay, ecMode, disturbed>>
    BY <1>9 DEF SendHq
  <2>2. CASE At(s, "hq", "done") /\ firmware' = setter[s].mode
    <3>1. ~disturbed => AllAgree' /\ Reached(s)'
      BY <1>3, <1>8, <2>1, <2>2 DEF SetterStates
    <3> QED
      BY <1>1, <1>2, <2>1, <2>2, <3>1 DEF SetterStates, PerfTypes
  <2>3. CASE At(s, "hq", "vhf") /\ UNCHANGED firmware
    <3>1. ~disturbed => Reached(s)'
      BY <1>3, <1>4, <2>1, <2>3 DEF Reached, SetterStates
    <3> QED
      BY <1>1, <1>2, <2>1, <2>3, <3>1 DEF SetterStates, PerfTypes
  <2> QED
    BY <1>9, <2>2, <2>3 DEF SendHq
<1>10. CASE SendVhf(s)
  <2>1. At(s, "vhf", "done") /\ UNCHANGED <<registry, overlay, ecMode>>
    BY <1>10 DEF SendVhf
  <2>2. CASE firmware' = setter[s].mode /\ UNCHANGED disturbed
    <3>1. ~disturbed => AllAgree' /\ Reached(s)'
      BY <1>3, <1>8, <2>1, <2>2 DEF SetterStates
    <3> QED
      BY <1>1, <1>2, <2>1, <2>2, <3>1 DEF SetterStates, PerfTypes
  <2>3. CASE UNCHANGED firmware /\ disturbed' = TRUE
    BY <1>1, <1>2, <2>1, <2>3 DEF SetterStates, PerfTypes
  <2> QED
    BY <1>10, <2>2, <2>3 DEF SendVhf
<1> QED
  BY <1>5, <1>6, <1>7, <1>9, <1>10 DEF SetStep

LEMMA PerfInductive == PerfSpec => []PerfInv
<1>1. PerfInit => PerfInv
  <2> SUFFICES ASSUME PerfInit PROVE PerfInv
    OBVIOUS
  <2>1. PerfTypes
    BY DEF PerfInit, PerfTypes, SetterRecords, SetterStates, Modes, NoMode
  <2>2. ShownMode = "balance" /\ AllAgree
    BY DEF PerfInit, ShownMode, AllAgree, OverlayOf, NoMode
  <2>3. \A s \in Sets : setter[s].at = "none"
    BY DEF PerfInit
  <2> QED
    BY <2>1, <2>2, <2>3 DEF PerfInv, Reached, IsRunning
<1>2. PerfInv /\ [PerfNext]_perfVars => PerfInv'
  <2> SUFFICES ASSUME PerfInv, [PerfNext]_perfVars PROVE PerfInv'
    OBVIOUS
  <2>1. ASSUME NEW mode \in Modes, NEW elevated \in BOOLEAN, AskMode(mode, elevated) PROVE PerfInv'
    <3>1. PICK s \in Sets :
            /\ setter[s].at = "none"
            /\ setter' = [setter EXCEPT ![s] = [at |-> "registry", mode |-> mode, elevated |-> elevated]]
      BY <2>1 DEF AskMode
    <3>2. /\ disturbed' = (disturbed \/ Running # {})
          /\ UNCHANGED <<registry, overlay, ecMode, firmware>>
      BY <2>1 DEF AskMode
    <3>3. [at |-> "registry", mode |-> mode, elevated |-> elevated] \in SetterRecords
      BY DEF SetterRecords, SetterStates
    <3>4. /\ setter' \in [Sets -> SetterRecords] /\ setter'[s].at = "registry"
          /\ \A t \in Sets : t # s => setter'[t] = setter[t]
      BY <3>1, <3>3 DEF PerfInv, PerfTypes
    <3>5. PerfTypes'
      BY <3>2, <3>4 DEF PerfInv, PerfTypes
    <3>6. ASSUME ~disturbed' PROVE ~disturbed /\ \A t \in Sets : ~IsRunning(t)
      BY <3>2, <3>6 DEF Running, IsRunning
    <3>7. ASSUME ~disturbed' PROVE AllAgree'
      <4>1. AllAgree
        BY <3>6, <3>7 DEF PerfInv
      <4>2. ShownMode' = ShownMode
        BY <3>2 DEF ShownMode
      <4> QED
        BY <3>2, <4>1, <4>2 DEF AllAgree
    <3>8. ASSUME ~disturbed' PROVE \A t \in Sets : t # s => ~IsRunning(t)'
      BY <3>4, <3>6, <3>8 DEF IsRunning
    <3>9. ASSUME ~disturbed' PROVE \A t \in Sets : Reached(t)'
      BY <3>4, <3>7, <3>8, <3>9 DEF Reached, IsRunning
    <3> QED
      BY <3>5, <3>7, <3>8, <3>9 DEF PerfInv
  <2>2. CASE PerfDebug
    <3>1. firmware' \in Modes /\ disturbed' = TRUE /\ UNCHANGED <<setter, registry, overlay, ecMode>>
      BY <2>2 DEF PerfDebug, Modes
    <3> QED
      BY <3>1 DEF PerfInv, PerfTypes
  <2>3. CASE UNCHANGED perfVars
    BY <2>3 DEF perfVars, PerfInv, PerfTypes, Reached, AllAgree, ShownMode, IsRunning
  <2> QED
    BY <2>1, <2>2, <2>3, SetStepKeeps DEF PerfNext
<1> QED
  BY <1>1, <1>2, PTL DEF PerfSpec

\* Places agree, for any number of changes: when none is under way and none overlapped or
\* failed the overlay, the EC and the firmware hold the mode that is shown.
THEOREM PlacesComeToAgree == PerfSpec => []PlacesAgree
<1>1. PerfInv => PlacesAgree
  BY DEF PerfInv, PlacesAgree, Running, IsRunning, AllAgree
<1> QED
  BY <1>1, PerfInductive, PTL

\* A change of the mode goes from one of its steps to the next, whatever the others do: no
\* order of the changes leaves a place without a mode.
THEOREM PerfTypeCorrect == PerfSpec => []PerfTypeOK
<1>1. PerfInv => PerfTypeOK
  BY DEF PerfInv, PerfTypes, PerfTypeOK, SetterRecords
<1> QED
  BY <1>1, PerfInductive, PTL

-----------------------------------------------------------------------------
(* The power events.                                                       *)

\* What the listener has seen last is known before it tells of a change.
PowerInv ==
  /\ lastAc \in {"unknown", "on", "off"} /\ acEvent \in {"none", "on", "off"}
  /\ EventTellsAc

\* The last AC event is the state last seen, for any number of changes and readings
\* (the write lock held over the comparison and the hook in tick).
THEOREM EventsAlternate == PowerSpec => []EventTellsAc
<1>1. PowerInit => PowerInv
  BY DEF PowerInit, PowerInv, EventTellsAc
<1>2. PowerInv /\ [PowerNext]_powerVars => PowerInv'
  <2> SUFFICES ASSUME PowerInv, [PowerNext]_powerVars PROVE PowerInv'
    OBVIOUS
  <2>1. CASE UNCHANGED <<lastAc, acEvent>>
    BY <2>1 DEF PowerInv, EventTellsAc
  <2>2. CASE PowerChanges \/ \E r \in Readers : Tick(r) \/ LevelSection(r) \/ SlowSection(r)
    BY <2>1, <2>2 DEF PowerChanges, Tick, LevelSection, SlowSection
  <2>3. ASSUME NEW r \in Readers, AcSection(r) PROVE PowerInv'
    <3> DEFINE now == OnOff(reader[r].info.ac)
    <3>1. now \in {"on", "off"}
      BY DEF OnOff
    <3>2. /\ lastAc' = now
          /\ IF lastAc \notin {"unknown", now} THEN acEvent' = now ELSE acEvent' = acEvent
      BY <2>3 DEF AcSection
    <3> HIDE DEF now
    <3> QED
      BY <3>1, <3>2 DEF PowerInv, EventTellsAc
  <2>4. CASE UNCHANGED powerVars
    BY <2>1, <2>4 DEF powerVars
  <2> QED
    BY <2>2, <2>3, <2>4 DEF PowerNext
<1>3. PowerInv => EventTellsAc
  BY DEF PowerInv
<1> QED
  BY <1>1, <1>2, <1>3, PTL DEF PowerSpec

ReaderRecords == [at : {"idle", "ac", "level", "slow"}, info : Supplies]

\* A section works on a reading the supply has given.
LEMMA SectionReads ==
  ASSUME PowerTypeOK, NEW r \in Readers, NEW from, NEW to \in {"idle", "ac", "level", "slow"},
         Section(r, from, to)
  PROVE  reader' \in [Readers -> ReaderRecords]
BY DEF PowerTypeOK, Section, ReaderRecords

LEMMA PowerStep ==
  ASSUME PowerTypeOK, PowerNext PROVE PowerTypeOK'
<1> USE DEF ReaderRecords
<1>1. CASE PowerChanges
  <2>1. powerMoves' \in 0..MaxPower
    BY <1>1, PowerAssumption DEF PowerChanges, PowerTypeOK
  <2> QED
    BY <1>1, <2>1 DEF PowerChanges, PowerTypeOK
<1>2. ASSUME NEW r \in Readers, Tick(r) PROVE PowerTypeOK'
  BY <1>2 DEF Tick, PowerTypeOK
<1>3. ASSUME NEW r \in Readers, AcSection(r) PROVE PowerTypeOK'
  <2>1. lastAc' \in {"on", "off"} /\ acEvent' \in {"on", "off", acEvent}
    BY <1>3 DEF AcSection, OnOff
  <2>2. asked' \in {"turbo", "silence", asked}
    BY <1>3 DEF AcSection, OnOff, Rules
  <2>3. Section(r, "ac", "level") /\ UNCHANGED <<supply, powerMoves, lastLow, slow>>
    BY <1>3 DEF AcSection
  <2> QED
    BY <2>1, <2>2, <2>3, SectionReads DEF PowerTypeOK
<1>4. ASSUME NEW r \in Readers, LevelSection(r) PROVE PowerTypeOK'
  <2>1. /\ Section(r, "level", "slow") /\ lastLow' \in {"low", "ok"} /\ asked' \in {"silence", asked}
        /\ UNCHANGED <<supply, powerMoves, lastAc, slow, acEvent>>
    BY <1>4 DEF LevelSection, Rules
  <2> QED
    BY <2>1, SectionReads DEF PowerTypeOK
<1>5. ASSUME NEW r \in Readers, SlowSection(r) PROVE PowerTypeOK'
  <2>1. /\ Section(r, "slow", "idle") /\ slow' \in 0..SlowTicks
        /\ UNCHANGED <<supply, powerMoves, lastAc, lastLow, acEvent, asked>>
    BY <1>5 DEF SlowSection, PowerTypeOK, SlowTicks
  <2> QED
    BY <2>1, SectionReads DEF PowerTypeOK
<1> QED
  BY <1>1, <1>2, <1>3, <1>4, <1>5, Zenon DEF PowerNext

\* Every section decides on a reading the power supply has given, and the rules ask for one
\* of their two modes.
THEOREM PowerTypeCorrect == PowerSpec => []PowerTypeOK
<1>1. PowerInit => PowerTypeOK
  <2> SUFFICES ASSUME PowerInit PROVE PowerTypeOK
    OBVIOUS
  <2>1. supply \in Supplies /\ reader \in [Readers -> ReaderRecords]
    BY DEF PowerInit, Supplies, ReaderRecords
  <2>2. 0 \in 0..MaxPower /\ 0 \in 0..SlowTicks
    BY PowerAssumption DEF SlowTicks
  <2> QED
    BY <2>1, <2>2 DEF PowerInit, PowerTypeOK, ReaderRecords
<1>2. PowerTypeOK /\ UNCHANGED powerVars => PowerTypeOK'
  BY DEF PowerTypeOK, powerVars
<1> QED
  BY <1>1, <1>2, PowerStep, PTL DEF PowerSpec

-----------------------------------------------------------------------------
(* The WMI connections.                                                    *)

PoolTypes ==
  /\ poolQueue \in Seq(PoolCallers) /\ worker \in [PoolWorkers -> WorkerStates]
  /\ conn \in [PoolWorkers -> Int] /\ seenGeneration \in [PoolWorkers -> Int]
  /\ askedSince \in [PoolWorkers -> Int] /\ generation \in Nat /\ resumes \in Nat

\* A connection is at least as new as the generation its thread has seen.
PoolInv ==
  /\ PoolTypes /\ generation <= resumes
  /\ \A w \in PoolWorkers :
       /\ seenGeneration[w] <= generation
       /\ conn[w] # NoConn => conn[w] >= seenGeneration[w]
       /\ worker[w].at = "query" => conn[w] >= askedSince[w]

\* What a step does to its own worker: it comes to a query only by an attempt.
LEMMA OthersKeep ==
  ASSUME PoolInv, NEW w \in PoolWorkers, NEW state \in WorkerStates,
         worker' = [worker EXCEPT ![w] = state],
         state.at # "query", poolQueue' \in Seq(PoolCallers),
         UNCHANGED <<generation, resumes, askedSince>>,
         seenGeneration' \in [PoolWorkers -> Int], conn' \in [PoolWorkers -> Int],
         \A v \in PoolWorkers : v # w => conn'[v] = conn[v] /\ seenGeneration'[v] = seenGeneration[v],
         seenGeneration'[w] <= generation,
         conn'[w] # NoConn => conn'[w] >= seenGeneration'[w]
  PROVE  PoolInv'
<1>1. /\ worker' \in [PoolWorkers -> WorkerStates] /\ worker'[w].at # "query"
      /\ \A v \in PoolWorkers : v # w => worker'[v] = worker[v]
  BY DEF PoolInv, PoolTypes
<1>2. PoolTypes'
  BY <1>1 DEF PoolInv, PoolTypes
<1>3. ASSUME NEW v \in PoolWorkers
      PROVE  /\ seenGeneration'[v] <= generation'
             /\ conn'[v] # NoConn => conn'[v] >= seenGeneration'[v]
             /\ worker'[v].at = "query" => conn'[v] >= askedSince'[v]
  <2>1. CASE v = w
    BY <1>1, <2>1
  <2>2. CASE v # w
    BY <1>1, <2>2 DEF PoolInv
  <2> QED
    BY <2>1, <2>2
<1> QED
  BY <1>2, <1>3 DEF PoolInv

LEMMA AttemptKeeps ==
  ASSUME PoolInv, NEW w \in PoolWorkers, Attempt(w) PROVE PoolInv'
<1>1. /\ seenGeneration' = [seenGeneration EXCEPT ![w] = generation]
      /\ askedSince' = [askedSince EXCEPT ![w] = generation]
      /\ conn' = [conn EXCEPT ![w] = IF Current(w) = NoConn THEN resumes ELSE Current(w)]
      /\ worker' = [worker EXCEPT ![w].at = "query"]
      /\ UNCHANGED <<generation, resumes, poolQueue>>
  BY DEF Attempt, AttemptOf
<1>2. /\ generation \in Int /\ resumes \in Int /\ generation <= resumes
      /\ conn[w] \in Int /\ seenGeneration[w] \in Int /\ seenGeneration[w] <= generation
      /\ conn[w] # NoConn => conn[w] >= seenGeneration[w]
  BY DEF PoolInv, PoolTypes
<1>3. Current(w) \in Int /\ (Current(w) # NoConn => Current(w) >= generation)
  BY <1>2 DEF Current, NoConn
<1>4. /\ worker' \in [PoolWorkers -> WorkerStates]
      /\ \A v \in PoolWorkers : v # w => worker'[v] = worker[v]
  BY <1>1 DEF PoolInv, PoolTypes, WorkerStates
<1>5. /\ seenGeneration' \in [PoolWorkers -> Int] /\ askedSince' \in [PoolWorkers -> Int]
      /\ conn' \in [PoolWorkers -> Int]
      /\ seenGeneration'[w] = generation /\ askedSince'[w] = generation /\ conn'[w] >= generation
      /\ \A v \in PoolWorkers : v # w =>
           conn'[v] = conn[v] /\ seenGeneration'[v] = seenGeneration[v] /\ askedSince'[v] = askedSince[v]
  BY <1>1, <1>2, <1>3 DEF PoolInv, PoolTypes
<1>6. PoolTypes'
  BY <1>1, <1>4, <1>5 DEF PoolInv, PoolTypes
<1>7. ASSUME NEW v \in PoolWorkers
      PROVE  /\ seenGeneration'[v] <= generation'
             /\ conn'[v] # NoConn => conn'[v] >= seenGeneration'[v]
             /\ worker'[v].at = "query" => conn'[v] >= askedSince'[v]
  <2>1. CASE v = w
    BY <1>1, <1>2, <1>5, <2>1
  <2>2. CASE v # w
    BY <1>1, <1>4, <1>5, <2>2 DEF PoolInv
  <2> QED
    BY <2>1, <2>2
<1> QED
  BY <1>1, <1>2, <1>6, <1>7 DEF PoolInv

\* A job that is over leaves its thread at no query.
LEMMA EndedJob ==
  ASSUME PoolInv, NEW w \in PoolWorkers, NEW at \in {"idle", "hung", "gone"}, JobEnds(w, at)
  PROVE  \E state \in WorkerStates : worker' = [worker EXCEPT ![w] = state] /\ state.at # "query"
<1>1. [Idling EXCEPT !.at = at] \in WorkerStates /\ [Idling EXCEPT !.at = at].at = at
  BY DEF Idling, WorkerStates, MaxRetries
<1> QED
  BY <1>1 DEF JobEnds

LEMMA PoolInductive == PoolSpec => []PoolInv
<1>1. PoolInit => PoolInv
  <2>1. Idling \in WorkerStates
    BY DEF Idling, WorkerStates, MaxRetries
  <2> QED
    BY <2>1 DEF PoolInit, PoolInv, PoolTypes, NoConn, Idling
<1>2. PoolInv /\ [PoolNext]_poolVars => PoolInv'
  <2> SUFFICES ASSUME PoolInv, [PoolNext]_poolVars PROVE PoolInv'
    OBVIOUS
  <2>1. CASE UNCHANGED <<worker, Cache>> /\ poolQueue' \in Seq(PoolCallers)
    BY <2>1 DEF Cache, PoolInv, PoolTypes
  <2>2. CASE UNCHANGED poolVars
    BY <2>1, <2>2 DEF poolVars, Cache, PoolInv, PoolTypes
  <2>3. ASSUME NEW c \in PoolCallers, Submit(c) \/ GiveUpOnJob(c) PROVE PoolInv'
    <3>1. poolQueue' \in Seq(PoolCallers)
      <4>1. poolQueue \in Seq(PoolCallers)
        BY DEF PoolInv, PoolTypes
      <4>2. poolQueue' = Append(poolQueue, c) \/ poolQueue' = poolQueue
        BY <2>3 DEF Submit, GiveUpOnJob
      <4> QED
        BY <4>1, <4>2
    <3> QED
      BY <2>1, <2>3, <3>1 DEF Submit, GiveUpOnJob
  <2>4. ASSUME NEW w \in PoolWorkers, NEW state \in WorkerStates, UNCHANGED Cache,
               worker' = [worker EXCEPT ![w] = state], state.at # "query",
               poolQueue' \in Seq(PoolCallers)
        PROVE  PoolInv'
    BY <2>4, OthersKeep DEF Cache, PoolInv, PoolTypes
  <2>5. ASSUME NEW w \in PoolWorkers, TakeJob(w) PROVE PoolInv'
    <3>1. Head(poolQueue) \in PoolCallers /\ Tail(poolQueue) \in Seq(PoolCallers)
      BY <2>5 DEF TakeJob, PoolInv, PoolTypes
    <3>2. [at |-> "attempt", caller |-> Head(poolQueue), attempt |-> 0] \in WorkerStates
      BY <3>1 DEF WorkerStates, MaxRetries
    <3> QED
      BY <2>4, <2>5, <3>1, <3>2 DEF TakeJob
  <2>6. ASSUME NEW w \in PoolWorkers, QueryAnswered(w) \/ JobHangs(w) PROVE PoolInv'
    <3>1. UNCHANGED <<Cache, poolQueue>> /\ \E at \in {"idle", "hung", "gone"} : JobEnds(w, at)
      BY <2>6 DEF QueryAnswered, JobHangs, JobEnds
    <3>2. poolQueue' \in Seq(PoolCallers)
      BY <3>1 DEF PoolInv, PoolTypes
    <3> QED
      BY <2>4, <3>1, <3>2, EndedJob
  \* One more attempt at the same query.
  <2>7. ASSUME NEW w \in PoolWorkers, worker[w].attempt < MaxRetries
        PROVE  /\ [worker[w] EXCEPT !.attempt = @ + 1] \in WorkerStates
               /\ [worker[w] EXCEPT !.at = "attempt", !.attempt = @ + 1] \in WorkerStates
               /\ [worker[w] EXCEPT !.attempt = @ + 1].at = worker[w].at
    <3>1. worker[w] \in WorkerStates
      BY DEF PoolInv, PoolTypes
    <3>2. worker[w].attempt + 1 \in 0..MaxRetries
      BY <2>7, <3>1 DEF WorkerStates, MaxRetries
    <3> QED
      BY <3>1, <3>2 DEF WorkerStates
  <2>9. ASSUME NEW w \in PoolWorkers, CannotOpen(w) PROVE PoolInv'
    <3>1. /\ worker[w].at = "attempt" /\ UNCHANGED <<generation, askedSince, resumes>>
          /\ seenGeneration' = [seenGeneration EXCEPT ![w] = generation]
          /\ conn' = [conn EXCEPT ![w] = NoConn] /\ UNCHANGED poolQueue
      BY <2>9 DEF CannotOpen, JobEnds
    <3>2. \E state \in WorkerStates : worker' = [worker EXCEPT ![w] = state] /\ state.at # "query"
      <4>1. CASE worker[w].attempt < MaxRetries
        <5>1. worker' = [worker EXCEPT ![w] = [worker[w] EXCEPT !.attempt = @ + 1]]
          BY <2>9, <4>1 DEF CannotOpen
        <5> QED
          BY <2>7, <3>1, <4>1, <5>1
      <4>2. CASE ~(worker[w].attempt < MaxRetries)
        BY <2>9, <4>2, EndedJob DEF CannotOpen
      <4> QED
        BY <4>1, <4>2
    <3>3. /\ seenGeneration' \in [PoolWorkers -> Int] /\ conn' \in [PoolWorkers -> Int]
          /\ seenGeneration'[w] = generation /\ generation \in Int /\ conn'[w] = NoConn
          /\ \A v \in PoolWorkers : v # w => conn'[v] = conn[v] /\ seenGeneration'[v] = seenGeneration[v]
          /\ poolQueue' \in Seq(PoolCallers)
      BY <3>1 DEF PoolInv, PoolTypes, NoConn
    <3>4. seenGeneration'[w] <= generation /\ (conn'[w] # NoConn => conn'[w] >= seenGeneration'[w])
      BY <3>3
    <3>5. PICK state \in WorkerStates : worker' = [worker EXCEPT ![w] = state] /\ state.at # "query"
      BY <3>2
    <3> QED
      BY <3>1, <3>3, <3>4, <3>5, OthersKeep
  <2>10. ASSUME NEW w \in PoolWorkers, QueryFails(w) PROVE PoolInv'
    <3>1. UNCHANGED <<seenGeneration, generation, askedSince, resumes, poolQueue>>
      BY <2>10 DEF QueryFails, JobEnds
    <3>2. /\ \E state \in WorkerStates : worker' = [worker EXCEPT ![w] = state] /\ state.at # "query"
          /\ \E left \in {NoConn, conn[w]} : conn' = [conn EXCEPT ![w] = left]
      <4>1. CASE worker[w].attempt < MaxRetries
        <5>1. /\ worker' = [worker EXCEPT ![w] = [worker[w] EXCEPT !.at = "attempt", !.attempt = @ + 1]]
              /\ conn' = conn
          BY <2>10, <4>1 DEF QueryFails
        <5>2. conn = [conn EXCEPT ![w] = conn[w]]
          BY DEF PoolInv, PoolTypes
        <5>3. [worker[w] EXCEPT !.at = "attempt", !.attempt = @ + 1] \in WorkerStates
              /\ [worker[w] EXCEPT !.at = "attempt", !.attempt = @ + 1].at = "attempt"
          BY <2>7, <4>1 DEF WorkerStates, PoolInv, PoolTypes
        <5> QED
          BY <5>1, <5>2, <5>3
      <4>2. CASE ~(worker[w].attempt < MaxRetries)
        <5>1. JobEnds(w, "idle") /\ \E left \in {NoConn, conn[w]} : conn' = [conn EXCEPT ![w] = left]
          BY <2>10, <4>2 DEF QueryFails, Dropped
        <5> QED
          BY <5>1, EndedJob
      <4> QED
        BY <4>1, <4>2
    <3>3. /\ seenGeneration' \in [PoolWorkers -> Int] /\ conn' \in [PoolWorkers -> Int]
          /\ seenGeneration' = seenGeneration /\ conn'[w] \in {NoConn, conn[w]}
          /\ \A v \in PoolWorkers : v # w => conn'[v] = conn[v]
          /\ seenGeneration[w] <= generation /\ poolQueue' \in Seq(PoolCallers)
          /\ conn[w] # NoConn => conn[w] >= seenGeneration[w]
      BY <3>1, <3>2 DEF PoolInv, PoolTypes, NoConn
    <3>4. seenGeneration'[w] <= generation /\ (conn'[w] # NoConn => conn'[w] >= seenGeneration'[w])
      BY <3>3
    <3>5. PICK state \in WorkerStates : worker' = [worker EXCEPT ![w] = state] /\ state.at # "query"
      BY <3>2
    <3> QED
      BY <3>1, <3>3, <3>4, <3>5, OthersKeep
  <2>8. CASE WakesUp \/ Invalidate
    BY <2>8 DEF WakesUp, Invalidate, PoolInv, PoolTypes
  <2> QED
    BY <2>2, <2>3, <2>5, <2>6, <2>8, <2>9, <2>10, AttemptKeeps DEF PoolNext, WorkerStep
<1> QED
  BY <1>1, <1>2, PTL DEF PoolSpec

\* No attempt is made on a connection from before the resume the listener has told of, for
\* any number of threads, resumes and failures (reset_if_invalidated in every attempt).
THEOREM QueriesAreFresh == PoolSpec => []NoStaleQuery
<1>1. PoolInv => NoStaleQuery
  BY DEF PoolInv, NoStaleQuery
<1> QED
  BY <1>1, PoolInductive, PTL

\* What the pool's cache can hold, with the number of resumes.
CacheTypes ==
  /\ waiting \subseteq PoolCallers /\ conn \in [PoolWorkers -> {NoConn} \cup 0..MaxResumes]
  /\ seenGeneration \in [PoolWorkers -> 0..MaxResumes]
  /\ askedSince \in [PoolWorkers -> 0..MaxResumes]
  /\ resumes \in 0..MaxResumes /\ wmiFaults \in 0..MaxWmiFaults

LEMMA CacheStep ==
  ASSUME PoolInv, CacheTypes, PoolNext PROVE CacheTypes'
<1> USE DEF Cache
<1>1. generation \in 0..MaxResumes /\ resumes \in 0..MaxResumes /\ NoConn \in {NoConn} \cup 0..MaxResumes
  BY WmiPoolAssumption DEF PoolInv, PoolTypes, CacheTypes
<1>2. wmiFaults' \in 0..MaxWmiFaults
  <2>1. wmiFaults' = wmiFaults \/ QueryFault
    BY Zenon DEF PoolNext, WorkerStep, Submit, GiveUpOnJob, TakeJob, Attempt, AttemptOf, CannotOpen, QueryAnswered,
       QueryFails, JobHangs, WakesUp, Invalidate
  <2> QED
    BY <2>1, WmiPoolAssumption DEF QueryFault, CacheTypes
<1>3. CASE WakesUp \/ Invalidate
  <2>1. /\ UNCHANGED <<waiting, conn, seenGeneration, askedSince>>
        /\ resumes' = resumes \/ (resumes < MaxResumes /\ resumes' = resumes + 1)
    BY <1>3, Zenon DEF WakesUp, Invalidate
  <2>2. resumes' \in 0..MaxResumes
    BY <2>1, WmiPoolAssumption DEF CacheTypes
  <2> QED
    BY <1>2, <2>1, <2>2 DEF CacheTypes
<1>4. CASE \E c \in PoolCallers : Submit(c) \/ GiveUpOnJob(c)
  BY <1>2, <1>4 DEF Submit, GiveUpOnJob, CacheTypes
<1>5. ASSUME NEW w \in PoolWorkers, WorkerStep(w) \/ JobHangs(w) PROVE CacheTypes'
  <2>1. resumes' = resumes
    BY <1>5, Zenon DEF WorkerStep, TakeJob, Attempt, AttemptOf, CannotOpen, QueryAnswered, QueryFails, JobHangs
  <2>2. waiting' \subseteq PoolCallers
    <3>1. waiting' = waiting \/ waiting' = waiting \ {worker[w].caller}
      BY <1>5, Zenon DEF WorkerStep, TakeJob, Attempt, AttemptOf, CannotOpen, QueryAnswered, QueryFails, JobHangs,
         JobEnds
    <3> QED
      BY <3>1 DEF CacheTypes
  <2>3. seenGeneration' \in [PoolWorkers -> 0..MaxResumes] /\ askedSince' \in [PoolWorkers -> 0..MaxResumes]
    <3>1. /\ \/ seenGeneration' = seenGeneration
             \/ seenGeneration' = [seenGeneration EXCEPT ![w] = generation]
          /\ askedSince' = askedSince \/ askedSince' = [askedSince EXCEPT ![w] = generation]
      BY <1>5, Zenon DEF WorkerStep, TakeJob, Attempt, AttemptOf, CannotOpen, QueryAnswered, QueryFails, JobHangs
    <3> QED
      BY <1>1, <3>1 DEF CacheTypes
  <2>4. conn' \in [PoolWorkers -> {NoConn} \cup 0..MaxResumes]
    <3>1. conn[w] \in {NoConn} \cup 0..MaxResumes
      BY DEF CacheTypes
    <3>2. conn' = conn \/ \E to \in {NoConn, resumes, conn[w]} : conn' = [conn EXCEPT ![w] = to]
      BY <1>5, Zenon DEF WorkerStep, TakeJob, Attempt, AttemptOf, CannotOpen, QueryAnswered, QueryFails, JobHangs,
         Current, Dropped
    <3> QED
      BY <1>1, <3>1, <3>2 DEF CacheTypes
  <2> QED
    BY <1>2, <1>1, <2>1, <2>2, <2>3, <2>4 DEF CacheTypes
<1> QED
  BY <1>3, <1>4, <1>5 DEF PoolNext

\* The types of the pool: no connection is from a resume that has not been.
THEOREM PoolTypeCorrect == PoolSpec => []PoolTypeOK
<1>1. PoolInit => CacheTypes
  BY WmiPoolAssumption DEF PoolInit, CacheTypes
<1>2. PoolInv /\ CacheTypes /\ [PoolNext]_poolVars => CacheTypes'
  <2>1. CacheTypes /\ UNCHANGED poolVars => CacheTypes'
    BY DEF CacheTypes, poolVars
  <2> QED
    BY <2>1, CacheStep
<1>3. PoolInv /\ CacheTypes => PoolTypeOK
  BY WmiPoolAssumption DEF PoolInv, PoolTypes, CacheTypes, PoolTypeOK
<1> QED
  BY <1>1, <1>2, <1>3, PoolInductive, PTL DEF PoolSpec

-----------------------------------------------------------------------------
(* The commands to the IoT service.                                        *)

IotRecords == [at : {"idle", "ask", "limit", "send", "header", "body"}, cmd : Commands,
               via : {"ec", "mcpi"}, tries : Int, left : Int]

\* A query that is under way has not been answered; one that is over was, if it went well.
IotInv ==
  /\ iotCall \in [IotCallers -> IotRecords]
  /\ outcome \in [IotCallers -> {"none", "ok", "error", "unavailable"}]
  /\ told \in [IotCallers -> Int]
  /\ \A u \in IotCallers : iotCall[u].cmd = "query" =>
       /\ iotCall[u].at # "idle" => outcome[u] # "ok" /\ told[u] = 0
       /\ outcome[u] = "ok" => told[u] = 1

\* What a step of one caller must show.
LEMMA CallerKeeps ==
  ASSUME IotInv, NEW u \in IotCallers, NEW call \in IotRecords, NEW n \in Int,
         NEW out \in {"none", "ok", "error", "unavailable"},
         iotCall' = [iotCall EXCEPT ![u] = call], outcome' = [outcome EXCEPT ![u] = out],
         told' = [told EXCEPT ![u] = n],
         call.cmd = "query" => /\ call.at # "idle" => out # "ok" /\ n = 0
                               /\ out = "ok" => n = 1
  PROVE  IotInv'
<1>1. /\ iotCall' \in [IotCallers -> IotRecords] /\ iotCall'[u] = call
      /\ \A v \in IotCallers : v # u => iotCall'[v] = iotCall[v]
  BY DEF IotInv
<1>2. /\ outcome' \in [IotCallers -> {"none", "ok", "error", "unavailable"}] /\ outcome'[u] = out
      /\ told' \in [IotCallers -> Int] /\ told'[u] = n
      /\ \A v \in IotCallers : v # u => outcome'[v] = outcome[v] /\ told'[v] = told[v]
  BY DEF IotInv
<1>3. ASSUME NEW v \in IotCallers, iotCall'[v].cmd = "query"
      PROVE  /\ iotCall'[v].at # "idle" => outcome'[v] # "ok" /\ told'[v] = 0
             /\ outcome'[v] = "ok" => told'[v] = 1
  <2>1. CASE v = u
    BY <1>1, <1>2, <1>3, <2>1
  <2>2. CASE v # u
    BY <1>1, <1>2, <1>3, <2>2 DEF IotInv
  <2> QED
    BY <2>1, <2>2
<1> QED
  BY <1>1, <1>2, <1>3 DEF IotInv

\* The records of a caller with some fields changed.
LEMMA CallField ==
  ASSUME NEW call \in IotRecords
  PROVE  /\ \A at \in {"idle", "ask", "limit", "send", "header", "body"} :
              [call EXCEPT !.at = at] \in IotRecords
         /\ \A via \in {"ec", "mcpi"} : [call EXCEPT !.via = via] \in IotRecords
         /\ \A n \in Int : [call EXCEPT !.tries = n] \in IotRecords
                           /\ [call EXCEPT !.left = n] \in IotRecords
BY DEF IotRecords

\* A command that is under way: another step of it, or its end.
LEMMA StepsOn ==
  ASSUME IotInv, NEW u \in IotCallers, iotCall[u].at # "idle", NEW call \in IotRecords,
         iotCall' = [iotCall EXCEPT ![u] = call], call.cmd = iotCall[u].cmd,
         UNCHANGED <<outcome, told>>
  PROVE  IotInv'
<1>1. /\ outcome' = [outcome EXCEPT ![u] = outcome[u]] /\ told' = [told EXCEPT ![u] = told[u]]
      /\ outcome[u] \in {"none", "ok", "error", "unavailable"} /\ told[u] \in Int
  BY DEF IotInv
<1>2. call.cmd = "query" => /\ call.at # "idle" => outcome[u] # "ok" /\ told[u] = 0
                            /\ outcome[u] = "ok" => told[u] = 1
  BY DEF IotInv
<1>3. ASSUME NEW n \in Int, NEW out \in {"none", "ok", "error", "unavailable"},
             n = told[u], out = outcome[u]
      PROVE  IotInv'
  <2>1. outcome' = [outcome EXCEPT ![u] = out] /\ told' = [told EXCEPT ![u] = n]
    BY <1>1, <1>3
  <2>2. call.cmd = "query" => (call.at # "idle" => out # "ok" /\ n = 0) /\ (out = "ok" => n = 1)
    BY <1>2, <1>3
  <2> QED
    BY <2>1, <2>2, CallerKeeps
<1> QED
  BY <1>1, <1>3

LEMMA Concluding ==
  ASSUME IotInv, NEW u \in IotCallers, iotCall[u].at # "idle",
         NEW out \in {"ok", "error"}, Concludes(u, out), NEW n \in Int,
         told' = [told EXCEPT ![u] = n],
         iotCall[u].cmd = "query" /\ out = "ok" => n = 1
  PROVE  IotInv'
<1>1. iotCall[u] \in IotRecords /\ outcome[u] \in {"none", "ok", "error", "unavailable"}
      /\ outcome = [outcome EXCEPT ![u] = outcome[u]]
  BY DEF IotInv
<1>2. CASE iotCall[u].cmd = "info" /\ iotCall[u].left > 1
  <2> DEFINE call == [iotCall[u] EXCEPT !.at = "ask", !.left = @ - 1, !.tries = 0]
  <2>1. iotCall' = [iotCall EXCEPT ![u] = call] /\ outcome' = outcome
    BY <1>2 DEF Concludes
  <2>2. call \in IotRecords /\ call.cmd = "info"
    <3> DEFINE one == [iotCall[u] EXCEPT !.at = "ask"]
               two == [one EXCEPT !.left = iotCall[u].left - 1]
    <3>1. iotCall[u].left - 1 \in Int
      BY <1>1 DEF IotRecords
    <3>2. two \in IotRecords
      BY <1>1, <3>1, CallField
    <3> HIDE DEF two
    <3>3. [two EXCEPT !.tries = 0] \in IotRecords
      BY <3>2 DEF IotRecords
    <3>4. call = [two EXCEPT !.tries = 0] /\ call.cmd = iotCall[u].cmd
      BY <1>1 DEF IotRecords, two
    <3> QED
      BY <1>2, <3>3, <3>4
  <2> HIDE DEF call
  <2> QED
    BY <1>1, <2>1, <2>2, CallerKeeps
<1>3. CASE ~(iotCall[u].cmd = "info" /\ iotCall[u].left > 1)
  <2> DEFINE call == [iotCall[u] EXCEPT !.at = "idle", !.left = 0]
  <2>1. PICK end \in {"ok", "error"} :
          /\ iotCall' = [iotCall EXCEPT ![u] = call] /\ outcome' = [outcome EXCEPT ![u] = end]
          /\ iotCall[u].cmd = "query" => end = out
    BY <1>3 DEF Concludes, Ends
  <2>2. call \in IotRecords /\ call.cmd = iotCall[u].cmd /\ call.at = "idle"
    <3> DEFINE one == [iotCall[u] EXCEPT !.at = "idle"]
    <3>1. one \in IotRecords
      BY <1>1, CallField
    <3> HIDE DEF one
    <3>2. [one EXCEPT !.left = 0] \in IotRecords
      BY <3>1 DEF IotRecords
    <3>3. call = [one EXCEPT !.left = 0] /\ call.cmd = iotCall[u].cmd /\ call.at = "idle"
      BY <1>1 DEF IotRecords, one
    <3> QED
      BY <3>2, <3>3
  <2> HIDE DEF call
  <2> QED
    BY <2>1, <2>2, CallerKeeps
<1> QED
  BY <1>2, <1>3

\* The steps that end a command, or try it again, without an answer of the device.
LEMMA Unanswered ==
  ASSUME IotInv, NEW u \in IotCallers, iotCall[u].at # "idle", UNCHANGED told,
         NEW out \in {"ok", "error"}, iotCall[u].cmd = "query" => out = "error",
         Concludes(u, out)
  PROVE  IotInv'
<1>1. told' = [told EXCEPT ![u] = told[u]] /\ told[u] \in Int
  BY DEF IotInv
<1> QED
  BY <1>1, Concluding

LEMMA RetriesKeep ==
  ASSUME IotInv, NEW u \in IotCallers, iotCall[u].at # "idle", UNCHANGED told, Retries(u)
  PROVE  IotInv'
<1>1. CASE iotCall[u].tries + 1 < MaxSends
  <2> DEFINE call == [iotCall[u] EXCEPT !.at = "send", !.tries = @ + 1]
  <2>1. iotCall' = [iotCall EXCEPT ![u] = call] /\ outcome' = outcome
    BY <1>1 DEF Retries
  <2>2. call \in IotRecords /\ call.cmd = iotCall[u].cmd
    <3> DEFINE one == [iotCall[u] EXCEPT !.at = "send"]
    <3>1. iotCall[u].tries + 1 \in Int /\ iotCall[u] \in IotRecords
      BY DEF IotInv, IotRecords
    <3>2. one \in IotRecords
      BY <3>1, CallField
    <3> HIDE DEF one
    <3>3. [one EXCEPT !.tries = iotCall[u].tries + 1] \in IotRecords
      BY <3>1, <3>2, CallField
    <3>4. call = [one EXCEPT !.tries = iotCall[u].tries + 1] /\ call.cmd = iotCall[u].cmd
      BY <3>1 DEF IotRecords, one
    <3> QED
      BY <3>3, <3>4
  <2> HIDE DEF call
  <2> QED
    BY <2>1, <2>2, StepsOn
<1>2. CASE ~(iotCall[u].tries + 1 < MaxSends)
  BY <1>2, Unanswered DEF Retries
<1> QED
  BY <1>1, <1>2

\* A step to another place of the same command.
LEMMA GoesOn ==
  ASSUME IotInv, NEW u \in IotCallers, iotCall[u].at # "idle",
         NEW at \in {"limit", "send", "header", "body"}, NEW via \in {"ec", "mcpi"},
         iotCall' = [iotCall EXCEPT ![u] = [iotCall[u] EXCEPT !.at = at, !.via = via]],
         UNCHANGED <<outcome, told>>
  PROVE  IotInv'
<1>1. LET call == [iotCall[u] EXCEPT !.at = at, !.via = via] IN
      call \in IotRecords /\ call.cmd = iotCall[u].cmd
  <2>1. iotCall[u] \in IotRecords
    BY DEF IotInv
  <2>2. [iotCall[u] EXCEPT !.at = at] \in IotRecords
    BY <2>1, CallField
  <2>3. [[iotCall[u] EXCEPT !.at = at] EXCEPT !.via = via] \in IotRecords
    BY <2>2, CallField
  <2>4. LET call == [iotCall[u] EXCEPT !.at = at, !.via = via] IN
        call = [[iotCall[u] EXCEPT !.at = at] EXCEPT !.via = via] /\ call.cmd = iotCall[u].cmd
    BY <2>1 DEF IotRecords
  <2> QED
    BY <2>3, <2>4
<1> QED
  BY <1>1, StepsOn

LEMMA AsksKeep ==
  ASSUME IotInv, NEW u \in IotCallers, NEW cmd \in Commands, AsksIot(u, cmd) PROVE IotInv'
<1> DEFINE blind == cmd = "info" /\ doors = {}
           call == [at |-> IF blind THEN "idle" ELSE "ask", cmd |-> cmd, via |-> "ec", tries |-> 0,
                    left |-> IF cmd = "info" /\ ~blind THEN InfoFields ELSE 0]
           out == IF blind THEN "unavailable" ELSE "none"
           none == 0
<1>1. /\ iotCall' = [iotCall EXCEPT ![u] = call] /\ outcome' = [outcome EXCEPT ![u] = out]
      /\ told' = [told EXCEPT ![u] = none]
  BY DEF AsksIot
<1>2. call \in IotRecords
  <2>1. InfoFields \in Int
    BY IotAssumption
  <2> QED
    BY <2>1 DEF IotRecords
<1>3. out \in {"none", "ok", "error", "unavailable"} /\ out # "ok"
  OBVIOUS
<1>4. none \in Int /\ (call.cmd = "query" => /\ call.at # "idle" => out # "ok" /\ none = 0
                                             /\ out = "ok" => none = 1)
  OBVIOUS
<1> HIDE DEF call, out, none
<1> QED
  BY <1>1, <1>2, <1>3, <1>4, CallerKeeps

LEMMA PicksKeep ==
  ASSUME IotInv, NEW u \in IotCallers, PicksDoor(u) PROVE IotInv'
<1>1. iotCall[u].at = "ask" /\ UNCHANGED told /\ iotCall[u] \in IotRecords
  BY DEF PicksDoor, IotAt, IotInv
<1>2. CASE "ec" \notin doors
  <2>1. iotCall' = [iotCall EXCEPT ![u] = [iotCall[u] EXCEPT !.at = "limit", !.via = "mcpi"]]
        /\ outcome' = outcome
    BY <1>2 DEF PicksDoor
  <2> QED
    BY <1>1, <2>1, GoesOn
<1>3. CASE "ec" \in doors /\ iotCall[u].cmd # "event"
  <2>1. iotCall' = [iotCall EXCEPT ![u] = [iotCall[u] EXCEPT !.at = "send", !.via = "ec"]]
        /\ outcome' = outcome
    BY <1>3 DEF PicksDoor
  <2> QED
    BY <1>1, <2>1, GoesOn
<1>4. CASE "ec" \in doors /\ iotCall[u].cmd = "event"
  <2>1. Concludes(u, "ok")
    BY <1>4 DEF PicksDoor, Concludes
  <2> QED
    BY <1>1, <1>4, <2>1, Unanswered
<1> QED
  BY <1>2, <1>3, <1>4

LEMMA CallerStep ==
  ASSUME IotInv, NEW u \in IotCallers,
         \/ EcAnswers(u) \/ EcRefuses(u) \/ Limited(u)
         \/ SendsMessage(u) \/ SendFailsToOpen(u)
         \/ HeaderIsSilent(u) \/ HeaderIsForeign(u) \/ HeaderIsValid(u)
         \/ BodyArrives(u) \/ BodyIsCut(u)
  PROVE  IotInv'
<1>1. iotCall[u].at # "idle"
  BY DEF EcAnswers, EcRefuses, Limited, SendsMessage, SendFailsToOpen, HeaderIsSilent,
         HeaderIsForeign, HeaderIsValid, BodyArrives, BodyIsCut, IotAt
<1>2. iotCall[u] \in IotRecords /\ iotCall[u].via \in {"ec", "mcpi"} /\ told[u] \in Int
  BY DEF IotInv, IotRecords
\* The device answers a query once: it is over then.
<1>3. CASE EcAnswers(u) \/ BodyArrives(u)
  <2>1. told' = [told EXCEPT ![u] = told[u] + 1] /\ Concludes(u, "ok")
    BY <1>3 DEF EcAnswers, BodyArrives, Tells
  <2>2. iotCall[u].cmd = "query" => told[u] + 1 = 1
    BY <1>1 DEF IotInv
  <2>3. told[u] + 1 \in Int
    BY <1>2
  <2> QED
    BY <1>1, <2>1, <2>2, <2>3, Concluding
<1>4. CASE EcRefuses(u)
  BY <1>1, <1>4, Unanswered DEF EcRefuses
<1>5. CASE Limited(u)
  <2>1. CASE UnderLimit
    <3>1. iotCall' = [iotCall EXCEPT ![u].at = "send"] /\ UNCHANGED <<outcome, told>>
      BY <1>5, <2>1 DEF Limited
    <3>2. [iotCall[u] EXCEPT !.at = "send", !.via = iotCall[u].via] = [iotCall[u] EXCEPT !.at = "send"]
      BY <1>2 DEF IotRecords
    <3> QED
      BY <1>1, <1>2, <3>1, <3>2, GoesOn
  <2>2. CASE ~UnderLimit
    BY <1>1, <1>5, <2>2, Unanswered DEF Limited
  <2> QED
    BY <2>1, <2>2
<1>6. CASE SendsMessage(u) \/ HeaderIsValid(u)
  <2>1. PICK at \in {"header", "body"} : iotCall' = [iotCall EXCEPT ![u].at = at]
    BY <1>6 DEF SendsMessage, HeaderIsValid
  <2>2. [iotCall[u] EXCEPT !.at = at, !.via = iotCall[u].via] = [iotCall[u] EXCEPT !.at = at]
    BY <1>2 DEF IotRecords
  <2>3. UNCHANGED <<outcome, told>>
    BY <1>6 DEF SendsMessage, HeaderIsValid
  <2> QED
    BY <1>1, <1>2, <2>1, <2>2, <2>3, GoesOn
<1>7. CASE SendFailsToOpen(u) \/ HeaderIsForeign(u) \/ BodyIsCut(u)
  BY <1>1, <1>7, RetriesKeep DEF SendFailsToOpen, HeaderIsForeign, BodyIsCut
<1>8. CASE HeaderIsSilent(u)
  <2>1. EmptyAnswer(iotCall[u].cmd) \in {"ok", "error"}
        /\ (iotCall[u].cmd = "query" => EmptyAnswer(iotCall[u].cmd) = "error")
    BY DEF EmptyAnswer
  <2>2. Concludes(u, EmptyAnswer(iotCall[u].cmd)) /\ UNCHANGED told
    BY <1>8 DEF HeaderIsSilent
  <2> QED
    BY <1>1, <2>1, <2>2, Unanswered
<1> QED
  BY <1>3, <1>4, <1>5, <1>6, <1>7, <1>8

LEMMA IotInductive == IotSpec => []IotInv
<1>1. IotInit => IotInv
  BY DEF IotInit, IotInv, IotRecords, Commands
<1>2. IotInv /\ [IotNext]_iotVars => IotInv'
  <2> SUFFICES ASSUME IotInv, [IotNext]_iotVars PROVE IotInv'
    OBVIOUS
  <2>1. CASE UNCHANGED <<iotCall, outcome, told>>
    BY <2>1 DEF IotInv
  <2>2. CASE \/ UNCHANGED iotVars \/ SecondPasses \/ \E d \in {"ec", "mcpi"} : DoorMoves(d)
    BY <2>1, <2>2 DEF iotVars, SecondPasses, DoorMoves
  <2> QED
    BY <2>2, AsksKeep, PicksKeep, CallerStep DEF IotNext
<1> QED
  BY <1>1, <1>2, PTL DEF IotSpec

\* A query that came back well was answered by the device, for any number of callers,
\* attempts and pipes that come and go (send_json_cmd, send_query and the retries).
THEOREM QueriesAreAnswered == IotSpec => []QueryIsAnswered
<1>1. IotInv => QueryIsAnswered
  <2> SUFFICES ASSUME IotInv, NEW u \in IotCallers, iotCall[u].cmd = "query", outcome[u] = "ok"
               PROVE  told[u] = 1
    BY DEF QueryIsAnswered
  <2> QED
    BY DEF IotInv
<1> QED
  BY <1>1, IotInductive, PTL

\* A command is told no more than it has asked for: nothing yet, but for the fields of an info
\* that are done.
Owed(u) == iotCall[u].at # "idle" =>
  /\ iotCall[u].cmd = "info" => iotCall[u].left >= 1 /\ told[u] + iotCall[u].left <= InfoFields
  /\ iotCall[u].cmd # "info" => told[u] = 0
Bounds(u) ==
  /\ iotCall[u].tries \in 0..MaxSends /\ iotCall[u].left \in 0..InfoFields
  /\ told[u] \in 0..InfoFields
IotBounds ==
  /\ \A u \in IotCallers : Owed(u) /\ Bounds(u)
  /\ doors \subseteq {"ec", "mcpi"} /\ recentMsgs \in 0..RateLimit /\ iotCalls \in 0..MaxIotCalls

\* What a step of a command under way makes of it: one step more, the next field of an
\* info, the end.
Continues(u) ==
  /\ iotCall'[u].at # "idle" /\ iotCall'[u].left = iotCall[u].left
  /\ \/ iotCall'[u].tries = iotCall[u].tries
     \/ iotCall[u].tries + 1 < MaxSends /\ iotCall'[u].tries = iotCall[u].tries + 1
NextField(u) ==
  /\ iotCall[u].cmd = "info" /\ iotCall[u].left > 1
  /\ iotCall'[u].left = iotCall[u].left - 1 /\ iotCall'[u].tries = 0
IsOver(u) ==
  /\ iotCall'[u].at = "idle" /\ iotCall'[u].left = 0 /\ iotCall'[u].tries = iotCall[u].tries
OthersStay(u) ==
  \A v \in IotCallers : v # u => iotCall'[v] = iotCall[v] /\ told'[v] = told[v]

LEMMA ConcludesIs ==
  ASSUME IotInv, NEW u \in IotCallers, NEW out, Concludes(u, out)
  PROVE  /\ NextField(u) \/ IsOver(u)
         /\ iotCall'[u].cmd = iotCall[u].cmd
         /\ \A v \in IotCallers : v # u => iotCall'[v] = iotCall[v]
<1>1. iotCall \in [IotCallers -> IotRecords] /\ iotCall[u] \in IotRecords
  BY DEF IotInv
<1>2. CASE iotCall[u].cmd = "info" /\ iotCall[u].left > 1
  BY <1>1, <1>2 DEF Concludes, NextField, IotRecords
<1>3. CASE ~(iotCall[u].cmd = "info" /\ iotCall[u].left > 1)
  BY <1>1, <1>3 DEF Concludes, Ends, IsOver, IotRecords
<1> QED
  BY <1>2, <1>3

\* Every such step, and what the device has told by it.
LEMMA CommandMoves ==
  ASSUME IotInv, NEW u \in IotCallers,
         \/ PicksDoor(u) \/ EcAnswers(u) \/ EcRefuses(u) \/ Limited(u)
         \/ SendsMessage(u) \/ SendFailsToOpen(u)
         \/ HeaderIsSilent(u) \/ HeaderIsForeign(u) \/ HeaderIsValid(u)
         \/ BodyArrives(u) \/ BodyIsCut(u)
  PROVE  /\ iotCall[u].at # "idle" /\ iotCall'[u].cmd = iotCall[u].cmd /\ OthersStay(u)
         /\ \/ Continues(u) /\ told'[u] = told[u]
            \/ NextField(u) /\ told'[u] \in {told[u], told[u] + 1}
            \/ IsOver(u) /\ told'[u] \in {told[u], told[u] + 1}
<1>1. /\ iotCall \in [IotCallers -> IotRecords] /\ iotCall[u] \in IotRecords
      /\ told \in [IotCallers -> Int]
  BY DEF IotInv
<1>2. iotCall[u].at # "idle"
  BY DEF PicksDoor, EcAnswers, EcRefuses, Limited, SendsMessage, SendFailsToOpen, HeaderIsSilent,
         HeaderIsForeign, HeaderIsValid, BodyArrives, BodyIsCut, IotAt
<1>3. ASSUME NEW at \in {"send", "header", "body", "limit"}, NEW via \in {"ec", "mcpi"}, UNCHANGED told,
             \/ iotCall' = [iotCall EXCEPT ![u].at = at]
             \/ iotCall' = [iotCall EXCEPT ![u].at = at, ![u].via = via]
      PROVE  /\ iotCall'[u].cmd = iotCall[u].cmd /\ OthersStay(u)
             /\ Continues(u) /\ told'[u] = told[u]
  BY <1>1, <1>3 DEF Continues, OthersStay, IotRecords
<1>4. ASSUME NEW out, Concludes(u, out),
             told' = told \/ told' = [told EXCEPT ![u] = @ + 1]
      PROVE  /\ iotCall'[u].cmd = iotCall[u].cmd /\ OthersStay(u)
             /\ NextField(u) \/ IsOver(u)
             /\ told'[u] \in {told[u], told[u] + 1}
  <2>1. told'[u] \in {told[u], told[u] + 1} /\ \A v \in IotCallers : v # u => told'[v] = told[v]
    BY <1>1, <1>4
  <2> QED
    BY <1>4, <2>1, ConcludesIs DEF OthersStay
<1>5. ASSUME Retries(u), UNCHANGED told, iotCall[u].tries + 1 < MaxSends
      PROVE  /\ iotCall'[u].cmd = iotCall[u].cmd /\ OthersStay(u)
             /\ Continues(u) /\ told'[u] = told[u]
  BY <1>1, <1>5 DEF Retries, Continues, OthersStay, IotRecords
<1>6. CASE EcAnswers(u) \/ BodyArrives(u) \/ EcRefuses(u) \/ HeaderIsSilent(u)
  <2>1. \E out : Concludes(u, out) /\ (told' = told \/ told' = [told EXCEPT ![u] = @ + 1])
    BY <1>6, Zenon DEF EcAnswers, BodyArrives, EcRefuses, HeaderIsSilent, Tells
  <2> QED
    BY <1>2, <1>4, <2>1
<1>7. CASE SendFailsToOpen(u) \/ HeaderIsForeign(u) \/ BodyIsCut(u)
  <2>1. Retries(u) /\ UNCHANGED told
    BY <1>7, Zenon DEF SendFailsToOpen, HeaderIsForeign, BodyIsCut
  <2>2. CASE iotCall[u].tries + 1 < MaxSends
    BY <1>2, <1>5, <2>1, <2>2
  <2>3. CASE ~(iotCall[u].tries + 1 < MaxSends)
    BY <1>2, <1>4, <2>1, <2>3 DEF Retries
  <2> QED
    BY <2>2, <2>3
<1>8. CASE SendsMessage(u) \/ HeaderIsValid(u)
  BY <1>2, <1>3, <1>8 DEF SendsMessage, HeaderIsValid
<1>9. CASE Limited(u)
  <2>1. \/ iotCall' = [iotCall EXCEPT ![u].at = "send"] /\ UNCHANGED told
        \/ Concludes(u, "error") /\ UNCHANGED told
    BY <1>9, Zenon DEF Limited
  <2> QED
    BY <1>2, <1>3, <1>4, <2>1
<1>10. CASE PicksDoor(u)
  <2>1. CASE "ec" \in doors /\ iotCall[u].cmd = "event"
    <3>1. Concludes(u, "ok") /\ told' = told
      BY <1>10, <2>1 DEF PicksDoor, Concludes
    <3> QED
      BY <1>2, <1>4, <3>1
  <2>2. CASE ~("ec" \in doors /\ iotCall[u].cmd = "event")
    <3>1. /\ UNCHANGED told
          /\ \/ iotCall' = [iotCall EXCEPT ![u].at = "limit", ![u].via = "mcpi"]
             \/ iotCall' = [iotCall EXCEPT ![u].at = "send", ![u].via = "ec"]
      BY <1>10, <2>2, Zenon DEF PicksDoor
    <3> QED
      BY <1>2, <1>3, <3>1
  <2> QED
    BY <2>1, <2>2
<1> QED
  BY <1>6, <1>7, <1>8, <1>9, <1>10

LEMMA BoundsKeep ==
  ASSUME IotInv, IotBounds, IotNext PROVE IotBounds'
<1> USE IotAssumption
<1>1. doors' \subseteq {"ec", "mcpi"}
  BY DEF IotNext, AsksIot, PicksDoor, EcAnswers, EcRefuses, Limited, SendsMessage, SendFailsToOpen,
         HeaderIsSilent, HeaderIsForeign, HeaderIsValid, BodyArrives, BodyIsCut, DoorMoves,
         SecondPasses, IotBounds
<1>2. iotCalls' \in 0..MaxIotCalls
  <2>1. iotCalls' = iotCalls \/ (iotCalls < MaxIotCalls /\ iotCalls' = iotCalls + 1)
    BY Zenon DEF IotNext, AsksIot, PicksDoor, EcAnswers, EcRefuses, Limited, SendsMessage,
       SendFailsToOpen, HeaderIsSilent, HeaderIsForeign, HeaderIsValid, BodyArrives, BodyIsCut,
       DoorMoves, SecondPasses
  <2> QED
    BY <2>1 DEF IotBounds
<1>3. recentMsgs' \in 0..RateLimit
  <2>1. \/ recentMsgs' = recentMsgs \/ (recentMsgs < RateLimit /\ recentMsgs' = recentMsgs + 1)
        \/ (recentMsgs > 0 /\ recentMsgs' \in 0..(recentMsgs - 1))
    BY Zenon DEF IotNext, AsksIot, PicksDoor, EcAnswers, EcRefuses, Limited, UnderLimit, SendsMessage,
       SendFailsToOpen, HeaderIsSilent, HeaderIsForeign, HeaderIsValid, BodyArrives, BodyIsCut,
       DoorMoves, SecondPasses
  <2> QED
    BY <2>1 DEF IotBounds
<1>4. ASSUME NEW u \in IotCallers, NEW cmd \in Commands, AsksIot(u, cmd)
      PROVE  \A v \in IotCallers : Owed(v)' /\ Bounds(v)'
  <2>1. /\ iotCall \in [IotCallers -> IotRecords] /\ told \in [IotCallers -> Int]
    BY DEF IotInv
  <2>2. /\ told'[u] = 0 /\ iotCall'[u].tries = 0 /\ iotCall'[u].cmd = cmd
        /\ \/ iotCall'[u].at = "idle" /\ iotCall'[u].left = 0
           \/ cmd = "info" /\ iotCall'[u].left = InfoFields
           \/ cmd # "info" /\ iotCall'[u].left = 0
    BY <1>4, <2>1 DEF AsksIot
  <2>3. \A v \in IotCallers : v # u => iotCall'[v] = iotCall[v] /\ told'[v] = told[v]
    BY <1>4, <2>1 DEF AsksIot
  <2>4. Owed(u)' /\ Bounds(u)'
    BY <2>2 DEF Owed, Bounds
  <2> QED
    BY <2>3, <2>4 DEF IotBounds, Owed, Bounds
<1>5. ASSUME NEW u \in IotCallers,
         \/ PicksDoor(u) \/ EcAnswers(u) \/ EcRefuses(u) \/ Limited(u)
         \/ SendsMessage(u) \/ SendFailsToOpen(u)
         \/ HeaderIsSilent(u) \/ HeaderIsForeign(u) \/ HeaderIsValid(u)
         \/ BodyArrives(u) \/ BodyIsCut(u)
      PROVE  \A v \in IotCallers : Owed(v)' /\ Bounds(v)'
  <2>1. /\ iotCall[u].at # "idle" /\ iotCall'[u].cmd = iotCall[u].cmd /\ OthersStay(u)
        /\ \/ Continues(u) /\ told'[u] = told[u]
           \/ NextField(u) /\ told'[u] \in {told[u], told[u] + 1}
           \/ IsOver(u) /\ told'[u] \in {told[u], told[u] + 1}
    BY <1>5, CommandMoves
  <2>2. Owed(u) /\ Bounds(u)
    BY DEF IotBounds
  <2>3. Owed(u)' /\ Bounds(u)'
    <3>1. CASE Continues(u) /\ told'[u] = told[u]
      BY <2>1, <2>2, <3>1 DEF Owed, Bounds, Continues
    <3>2. CASE NextField(u) /\ told'[u] \in {told[u], told[u] + 1}
      BY <2>1, <2>2, <3>2 DEF Owed, Bounds, NextField
    <3>3. CASE IsOver(u) /\ told'[u] \in {told[u], told[u] + 1}
      BY <2>1, <2>2, <3>3 DEF Owed, Bounds, IsOver
    <3> QED
      BY <2>1, <3>1, <3>2, <3>3
  <2> QED
    BY <2>1, <2>3 DEF OthersStay, IotBounds, Owed, Bounds
<1>6. CASE SecondPasses \/ \E d \in {"ec", "mcpi"} : DoorMoves(d)
  BY <1>1, <1>2, <1>3, <1>6 DEF SecondPasses, DoorMoves, IotBounds, Owed, Bounds
<1> QED
  BY <1>1, <1>2, <1>3, <1>4, <1>5, <1>6 DEF IotNext, IotBounds

\* The types of the channel: no command is sent more often than MaxSends, none is told more
\* answers than the queries it stands for (with_retry, get_device_info).
THEOREM IotTypeCorrect == IotSpec => []IotTypeOK
<1>1. IotInit => IotBounds
  BY IotAssumption DEF IotInit, IotBounds, Owed, Bounds
<1>2. IotInv /\ IotBounds /\ [IotNext]_iotVars => IotBounds'
  <2>1. IotBounds /\ UNCHANGED iotVars => IotBounds'
    BY DEF IotBounds, Owed, Bounds, iotVars
  <2> QED
    BY <2>1, BoundsKeep
<1>3. IotInv /\ IotBounds => IotTypeOK
  <2> SUFFICES ASSUME IotInv, IotBounds PROVE IotTypeOK
    OBVIOUS
  <2>1. iotCall \in [IotCallers -> IotRecords] /\ told \in [IotCallers -> Int]
    BY DEF IotInv
  <2>2. ASSUME NEW u \in IotCallers
        PROVE  iotCall[u] \in [at : {"idle", "ask", "limit", "send", "header", "body"},
                               cmd : Commands, via : {"ec", "mcpi"},
                               tries : 0..MaxSends, left : 0..InfoFields]
    BY <2>1 DEF IotRecords, IotBounds, Bounds
  <2>3. iotCall \in [IotCallers -> [at : {"idle", "ask", "limit", "send", "header", "body"},
                                    cmd : Commands, via : {"ec", "mcpi"},
                                    tries : 0..MaxSends, left : 0..InfoFields]]
    BY <2>1, <2>2
  <2>4. told \in [IotCallers -> 0..InfoFields]
    BY <2>1 DEF IotBounds, Bounds
  <2> QED
    BY <2>3, <2>4 DEF IotTypeOK, IotInv, IotBounds
<1> QED
  BY <1>1, <1>2, <1>3, IotInductive, PTL DEF IotSpec

-----------------------------------------------------------------------------
(* The temperatures and the registers of the controller.                   *)

PollerPlaces == {"idle", "elevated", "heal", "call", "told", "nothing"}
BreakerTypes ==
  /\ poller \in [Pollers -> PollerPlaces] /\ thermalFailures \in 0..(MaxConsecutiveFailures + 1)
  /\ thermalBackoff \in {"none", "running", "over"} /\ thermalCache \in {"none", "fresh", "old"}
  /\ healNeeded \in BOOLEAN
WayTypes == bridgeUp \in BOOLEAN /\ taskWorks \in BOOLEAN /\ localReads \in BOOLEAN
ThermalInv ==
  /\ BreakerTypes /\ WayTypes /\ localDenied \in BOOLEAN
  /\ fanStored \in FanModes /\ ecFan \in FanModes /\ thermalFaults \in 0..MaxThermalFaults

LEMMA PollerKeeps ==
  ASSUME BreakerTypes, NEW p \in Pollers, PollerStep(p) PROVE BreakerTypes'
<1>1. poller' \in [Pollers -> PollerPlaces]
  <2>1. \E place \in PollerPlaces : poller' = [poller EXCEPT ![p] = place]
    BY Zenon DEF PollerStep, AskLocal, AskElevated, HealBridge, CallSucceeds, CallFails, PollerPlaces
  <2> QED
    BY <2>1 DEF BreakerTypes
<1>2. thermalFailures' \in 0..(MaxConsecutiveFailures + 1)
  <2>1. \/ thermalFailures' = thermalFailures \/ thermalFailures' = 0
        \/ ~(thermalFailures > MaxConsecutiveFailures) /\ thermalFailures' = thermalFailures + 1
    BY Zenon DEF PollerStep, AskLocal, AskElevated, HealBridge, CallSucceeds, CallFails, circuitVars
  <2> QED
    BY <2>1 DEF BreakerTypes, MaxConsecutiveFailures
<1>3. /\ thermalBackoff' \in {"none", "running", thermalBackoff}
      /\ thermalCache' \in {"none", "fresh", thermalCache}
  BY Zenon DEF PollerStep, AskLocal, AskElevated, HealBridge, CallSucceeds, CallFails, circuitVars
<1>4. healNeeded' \in BOOLEAN
  BY Zenon DEF PollerStep, AskLocal, AskElevated, HealBridge, CallSucceeds, CallFails, circuitVars,
     BreakerTypes
<1> QED
  BY <1>1, <1>2, <1>3, <1>4 DEF BreakerTypes

LEMMA ThermalStep ==
  ASSUME ThermalInv, ThermalNext PROVE ThermalInv'
<1>0. /\ UNCHANGED <<circuitVars, poller>> => BreakerTypes'
      /\ UNCHANGED waysVars => WayTypes'
  BY DEF ThermalInv, BreakerTypes, WayTypes, circuitVars, waysVars
<1>1. ASSUME NEW p \in Pollers, PollerStep(p) PROVE ThermalInv'
  <2>1. BreakerTypes'
    BY <1>1, PollerKeeps DEF ThermalInv
  <2>2. WayTypes' /\ localDenied' \in BOOLEAN
    BY <1>1, Zenon DEF ThermalInv, PollerStep, AskLocal, AskElevated, HealBridge, CallSucceeds, CallFails,
       Healed, WayTypes, waysVars
  <2>3. UNCHANGED <<fanStored, ecFan>> /\ (thermalFaults' = thermalFaults \/ ThermalFault)
    BY <1>1, Zenon DEF PollerStep, AskLocal, AskElevated, HealBridge, CallSucceeds, CallFails, Fans
  <2>4. thermalFaults' \in 0..MaxThermalFaults
    BY <2>3, ThermalAssumption DEF ThermalInv, ThermalFault
  <2> QED
    BY <2>1, <2>2, <2>3, <2>4, Zenon DEF ThermalInv
<1>2. CASE WaysChange
  <2>1. thermalFaults' \in 0..MaxThermalFaults
    BY <1>2, ThermalAssumption DEF WaysChange, ThermalFault, ThermalInv
  <2>2. WayTypes' /\ UNCHANGED <<localDenied, circuitVars, poller, fanStored, ecFan>>
    BY <1>2, Zenon DEF WaysChange, WayTypes, ThermalInv, Fans
  <2> QED
    BY <1>0, <2>1, <2>2 DEF ThermalInv
<1>3. CASE TaskRepaired
  <2>1. WayTypes' /\ UNCHANGED <<localDenied, circuitVars, poller, fanStored, ecFan, thermalFaults>>
    BY <1>3, Zenon DEF TaskRepaired, WayTypes, ThermalInv, Fans
  <2> QED
    BY <1>0, <2>1 DEF ThermalInv
<1>4. CASE DenialExpires
  <2>1. /\ localDenied' = FALSE
        /\ UNCHANGED <<waysVars, circuitVars, poller, fanStored, ecFan, thermalFaults>>
    BY <1>4, Zenon DEF DenialExpires, Fans
  <2> QED
    BY <1>0, <2>1 DEF ThermalInv
<1>5. CASE BackoffRunsOut \/ CacheAges
  <2>1. /\ UNCHANGED <<waysVars, localDenied, poller, thermalFailures, healNeeded, fanStored, ecFan,
                       thermalFaults>>
        /\ thermalBackoff' \in {"over", thermalBackoff} /\ thermalCache' \in {"old", thermalCache}
    BY <1>5, Zenon DEF BackoffRunsOut, CacheAges, Fans
  <2>2. BreakerTypes'
    BY <2>1 DEF BreakerTypes, ThermalInv
  <2> QED
    BY <1>0, <2>1, <2>2 DEF ThermalInv
<1>6. CASE ResetCircuit
  <2>1. thermalFaults' \in 0..MaxThermalFaults /\ 0 \in 0..(MaxConsecutiveFailures + 1)
    BY <1>6, ThermalAssumption DEF ResetCircuit, ThermalFault, ThermalInv, MaxConsecutiveFailures
  <2>2. UNCHANGED <<waysVars, localDenied, fanStored, ecFan>>
    BY <1>6, Zenon DEF ResetCircuit, Fans
  <2>3. BreakerTypes'
    BY <1>6, <2>1, Zenon DEF ResetCircuit, ThermalInv, BreakerTypes
  <2> QED
    BY <1>0, <2>1, <2>2, <2>3 DEF ThermalInv
<1>7. ASSUME NEW mode \in FanModes, SetFanMode(mode) PROVE ThermalInv'
  <2>1. thermalFaults' \in 0..MaxThermalFaults
    BY <1>7, ThermalAssumption DEF SetFanMode, ThermalFault, ThermalInv
  <2>2. /\ UNCHANGED <<waysVars, localDenied, poller, circuitVars>>
        /\ fanStored' = mode /\ ecFan' \in {ecFan, mode}
    BY <1>7 DEF SetFanMode, PersistFan
  <2> QED
    BY <1>0, <2>1, <2>2 DEF ThermalInv
<1> QED
  BY <1>1, <1>2, <1>3, <1>4, <1>5, <1>6, <1>7, Zenon DEF ThermalNext

\* The types of the thermal circuit: its failures are counted to one more than opens it.
THEOREM ThermalTypeCorrect == ThermalSpec => []ThermalTypeOK
<1>1. ThermalInit => ThermalInv
  <2> SUFFICES ASSUME ThermalInit PROVE ThermalInv
    OBVIOUS
  <2>1. 0 \in 0..(MaxConsecutiveFailures + 1) /\ 0 \in 0..MaxThermalFaults
    BY ThermalAssumption DEF MaxConsecutiveFailures
  <2>2. BreakerTypes
    BY <2>1, Zenon DEF ThermalInit, BreakerTypes, PollerPlaces
  <2> QED
    BY <2>1, <2>2, Zenon DEF ThermalInit, ThermalInv, WayTypes, FanModes
<1>2. ThermalInv /\ UNCHANGED thermalVars => ThermalInv'
  BY DEF ThermalInv, BreakerTypes, WayTypes, thermalVars, circuitVars, waysVars
<1>3. ThermalInv => ThermalTypeOK
  BY Zenon DEF ThermalInv, BreakerTypes, WayTypes, PollerPlaces, ThermalTypeOK
<1> QED
  BY <1>1, <1>2, <1>3, ThermalStep, PTL DEF ThermalSpec

-----------------------------------------------------------------------------
(* The settings of the embedded controller.                                *)

SettingRecords == [at : {"idle", "ask", "direct", "save", "saveLax"}, what : Cells,
                   level : EcLevels, who : {"app", "helper"}]
RegistersInv ==
  /\ cell \in [Cells -> EcLevels] /\ savedCare \in [KeptSetting -> EcLevels \cup {Unsaved}]
  /\ broker \in BOOLEAN /\ driver \in BOOLEAN
  /\ listed \in Configs \cup {Unread} /\ careSetting \in SettingRecords
  /\ setAnswer \in {"none", "ok", "error"}
  /\ shown \in EcLevels \cup {Unsaved, NoReading} /\ ecCalls \in 0..MaxEcCalls

LEMMA SettingMoves ==
  ASSUME RegistersInv
  PROVE  /\ careSetting.what \in Cells /\ careSetting.level \in EcLevels
         /\ NoSetting \in SettingRecords
         /\ \A at \in {"ask", "direct", "save", "saveLax"} : Goes(at) => careSetting' \in SettingRecords
         /\ WritesCell => cell' \in [Cells -> EcLevels]
BY EcRegistersAssumption DEF RegistersInv, SettingRecords, NoSetting, Goes, WritesCell, Cells, KeptSetting

LEMMA RegistersStep ==
  ASSUME RegistersInv, RegistersNext PROVE RegistersInv'
<1> USE DEF ecWorld, Quiet
<1>1. ASSUME NEW what \in Cells, NEW level \in EcLevels, Asked(what, level) PROVE RegistersInv'
  <2>1. ecCalls' \in 0..MaxEcCalls
    BY <1>1, EcRegistersAssumption DEF Asked, RegistersInv
  <2>2. careSetting' \in SettingRecords
    BY <1>1 DEF Asked, SettingRecords
  <2> QED
    BY <1>1, <2>1, <2>2 DEF Asked, RegistersInv
<1>2. CASE AskBroker \/ AskIot
  <2>1. /\ WritesCell \/ UNCHANGED cell
        /\ \E at \in {"ask", "direct", "save", "saveLax"} : Goes(at)
        /\ UNCHANGED <<savedCare, listed, setAnswer, broker, driver, shown, ecCalls>>
    BY <1>2, Zenon DEF AskBroker, AskIot
  <2> QED
    BY <2>1, SettingMoves DEF RegistersInv
<1>3. CASE DirectWrite
  <2>1. /\ WritesCell \/ UNCHANGED cell
        /\ (Goes("save") /\ UNCHANGED setAnswer) \/ Answers("ok") \/ Answers("error")
        /\ UNCHANGED <<savedCare, broker, driver, shown, ecCalls>>
    BY <1>3, Zenon DEF DirectWrite
  <2>2. listed' \in Configs \cup {Unread}
    BY <1>3 DEF DirectWrite, ListReads, RegistersInv
  <2>3. careSetting' \in SettingRecords /\ setAnswer' \in {"none", "ok", "error"}
    BY <2>1, SettingMoves DEF RegistersInv, Answers
  <2>4. cell' \in [Cells -> EcLevels]
    BY <2>1, SettingMoves DEF RegistersInv
  <2> QED
    BY <2>1, <2>2, <2>3, <2>4, Zenon DEF RegistersInv
<1>4. CASE Save
  <2>1. /\ Answers("ok") \/ Answers("error")
        /\ \/ savedCare' = [savedCare EXCEPT ![careSetting.what] = careSetting.level]
           \/ savedCare' = savedCare
        /\ UNCHANGED <<cell, listed, broker, driver, shown, ecCalls>>
    BY <1>4, Zenon DEF Save
  <2>2. careSetting' \in SettingRecords /\ setAnswer' \in {"none", "ok", "error"}
    BY <2>1, SettingMoves DEF Answers
  <2>3. savedCare' \in [KeptSetting -> EcLevels \cup {Unsaved}]
    BY <2>1, SettingMoves DEF RegistersInv
  <2> QED
    BY <2>1, <2>2, <2>3 DEF RegistersInv
<1>5. ASSUME NEW value \in EcLevels \cup {Unsaved, NoReading}, Shows(value) PROVE RegistersInv'
  BY <1>5 DEF Shows, RegistersInv
<1>6. /\ 0 \in EcLevels /\ \A what \in Cells : cell[what] \in EcLevels
      /\ \A what \in KeptSetting : Remembered(what) \in EcLevels
  BY EcRegistersAssumption DEF RegistersInv, Remembered
<1>7. CASE \/ \E what \in Cells : ReadRegion(what) \/ ReadMap(what) \/ ReadRaw(what)
           \/ \E what \in KeptSetting : ReadSetting(what)
  <2>1. KeptSetting \subseteq Cells
    BY DEF Cells
  <2>2. \E value \in EcLevels \cup {Unsaved, NoReading} : Shows(value)
    BY <1>6, <1>7, <2>1 DEF ReadRegion, ReadMap, ReadRaw, ReadSetting
  <2> QED
    BY <1>5, <2>2
<1>8. CASE WorldMoves
  <2>1. broker' \in BOOLEAN /\ driver' \in BOOLEAN
    BY <1>8, Zenon DEF WorldMoves, RegistersInv
  <2> QED
    BY <1>8, <2>1 DEF WorldMoves, RegistersInv
<1> QED
  BY <1>1, <1>2, <1>3, <1>4, <1>7, <1>8 DEF RegistersNext

\* The types of the settings that live in the controller's memory.
THEOREM RegistersTypeCorrect == RegistersSpec => []RegistersTypeOK
<1>1. RegistersInit => RegistersInv
  <2>1. 0 \in 0..MaxEcCalls /\ 0 \in EcLevels /\ NoSetting \in SettingRecords
    BY EcRegistersAssumption DEF NoSetting, SettingRecords, Cells, KeptSetting
  <2> QED
    BY <2>1 DEF RegistersInit, RegistersInv
<1>2. RegistersInv /\ UNCHANGED registerVars => RegistersInv'
  BY DEF RegistersInv, registerVars, ecWorld
<1>3. RegistersInv => RegistersTypeOK
  BY DEF RegistersInv, SettingRecords, RegistersTypeOK
<1> QED
  BY <1>1, <1>2, <1>3, RegistersStep, PTL DEF RegistersSpec
================================================================================
