-------------------------------- MODULE IotChannel ------------------------------
(***************************************************************************)
(* The client of the IoT service (hw/iotservice.rs): a command goes over   *)
(* the EC service's pipe if that one is there, else as a binary message    *)
(* over the IoT service's own pipe, which is limited, retried and read     *)
(* with a timeout. What the device does is left open.                      *)
(***************************************************************************)
EXTENDS Integers

CONSTANTS
  IotCallers,  \* threads of the blocking pool that run a command
  RateLimit,   \* messages a second; 100 in the code
  MaxSends,    \* attempts at one message: 1 and 3 retries in the code
  InfoFields,  \* queries of one get_device_info; 7 in the code
  MaxIotCalls  \* bound on commands

ASSUME IotAssumption ==
  {RateLimit, MaxSends, InfoFields} \subseteq Nat \ {0} /\ MaxIotCalls \in Nat

\* A query must be answered, a set must not; an event is a set the EC service has no
\* word for; info is a series of queries.
Commands == {"query", "set", "event", "info"}

VARIABLES
  doors,     \* the pipes that are there: "ec", "mcpi"
  iotCall,   \* per caller: where it is, its command, its door, attempts, fields to come
  outcome,   \* per caller: what its last command came to
  told,      \* per caller: answers the device gave to this command
  recentMsgs,    \* IPC_WRITE_TIMES: messages of the last second
  iotCalls

iotVars == <<doors, iotCall, outcome, told, recentMsgs, iotCalls>>

IotTypeOK ==
  /\ doors \subseteq {"ec", "mcpi"}
  /\ iotCall \in [IotCallers -> [at : {"idle", "ask", "limit", "send", "header", "body"},
                                 cmd : Commands, via : {"ec", "mcpi"},
                                 tries : 0..MaxSends, left : 0..InfoFields]]
  /\ outcome \in [IotCallers -> {"none", "ok", "error", "unavailable"}]
  /\ told \in [IotCallers -> 0..InfoFields]
  /\ recentMsgs \in 0..RateLimit /\ iotCalls \in 0..MaxIotCalls

IotInit ==
  /\ doors = {} /\ recentMsgs = 0 /\ iotCalls = 0
  /\ iotCall = [u \in IotCallers |->
       [at |-> "idle", cmd |-> "query", via |-> "ec", tries |-> 0, left |-> 0]]
  /\ outcome = [u \in IotCallers |-> "none"]
  /\ told = [u \in IotCallers |-> 0]

IotAt(u, at) == iotCall[u].at = at
Ends(u, out) ==
  /\ iotCall' = [iotCall EXCEPT ![u].at = "idle", ![u].left = 0]
  /\ outcome' = [outcome EXCEPT ![u] = out]
Tells(u) == told' = [told EXCEPT ![u] = @ + 1]

\* get_device_info asks on after a field it could not get; every other command ends.
Concludes(u, out) ==
  IF iotCall[u].cmd = "info"
  THEN IF iotCall[u].left > 1
       THEN /\ iotCall' = [iotCall EXCEPT ![u].at = "ask", ![u].left = @ - 1, ![u].tries = 0]
            /\ UNCHANGED outcome
       ELSE Ends(u, "ok")
  ELSE Ends(u, out)

\* A command is asked for; get_device_info with no pipe at all asks nothing.
AsksIot(u, cmd) ==
  /\ IotAt(u, "idle") /\ iotCalls < MaxIotCalls /\ iotCalls' = iotCalls + 1
  /\ told' = [told EXCEPT ![u] = 0]
  /\ LET blind == cmd = "info" /\ doors = {} IN
     /\ iotCall' = [iotCall EXCEPT ![u] =
          [at |-> IF blind THEN "idle" ELSE "ask", cmd |-> cmd, via |-> "ec", tries |-> 0,
           left |-> IF cmd = "info" /\ ~blind THEN InfoFields ELSE 0]]
     /\ outcome' = [outcome EXCEPT ![u] = IF blind THEN "unavailable" ELSE "none"]
  /\ UNCHANGED <<doors, recentMsgs>>

\* ec_pipe_active: the door of this command. An event is dropped at the EC service's door,
\* and the caller is told it went well.
PicksDoor(u) ==
  /\ IotAt(u, "ask")
  /\ IF "ec" \notin doors
     THEN /\ iotCall' = [iotCall EXCEPT ![u].at = "limit", ![u].via = "mcpi"]
          /\ UNCHANGED outcome
     ELSE IF iotCall[u].cmd = "event"
     THEN Ends(u, "ok")
     ELSE iotCall' = [iotCall EXCEPT ![u].at = "send", ![u].via = "ec"] /\ UNCHANGED outcome
  /\ UNCHANGED <<doors, told, recentMsgs, iotCalls>>

\* send_pipe_request, once: an answer, a refusal, or 5 s of silence.
EcAnswers(u) ==
  /\ IotAt(u, "send") /\ iotCall[u].via = "ec" /\ "ec" \in doors
  /\ Tells(u) /\ Concludes(u, "ok")
  /\ UNCHANGED <<doors, recentMsgs, iotCalls>>
EcRefuses(u) ==
  /\ IotAt(u, "send") /\ iotCall[u].via = "ec" /\ Concludes(u, "error")
  /\ UNCHANGED <<doors, told, recentMsgs, iotCalls>>

\* Mutant: the limit lets one message too many through.
AtLimitToo == recentMsgs <= RateLimit
\* check_rate_limit: once per command, whatever the number of attempts.
UnderLimit == recentMsgs < RateLimit
Limited(u) ==
  /\ IotAt(u, "limit")
  /\ IF UnderLimit
     THEN /\ recentMsgs' = recentMsgs + 1 /\ UNCHANGED outcome
          /\ iotCall' = [iotCall EXCEPT ![u].at = "send"]
     ELSE Concludes(u, "error") /\ UNCHANGED recentMsgs
  /\ UNCHANGED <<doors, told, iotCalls>>

\* with_retry: another attempt, from the opening of the pipe, or the error.
Retries(u) ==
  IF iotCall[u].tries + 1 < MaxSends
  THEN iotCall' = [iotCall EXCEPT ![u].at = "send", ![u].tries = @ + 1] /\ UNCHANGED outcome
  ELSE Concludes(u, "error")

\* send_ipc_message: open and write. A message that is sent again may be carried out again.
SendsMessage(u) ==
  /\ IotAt(u, "send") /\ iotCall[u].via = "mcpi" /\ "mcpi" \in doors
  /\ iotCall' = [iotCall EXCEPT ![u].at = "header"]
  /\ UNCHANGED <<doors, outcome, told, recentMsgs, iotCalls>>
SendFailsToOpen(u) ==
  /\ IotAt(u, "send") /\ iotCall[u].via = "mcpi" /\ Retries(u)
  /\ UNCHANGED <<doors, told, recentMsgs, iotCalls>>

\* The empty answer is an error for a query and good enough for a set (send_json_cmd,
\* send_query, send_json_cmd_no_resp).
EmptyAnswer(cmd) == IF cmd \in {"query", "info"} THEN "error" ELSE "ok"

\* read_exact_timeout of the header: 5 s of silence, a foreign magic or type give the
\* empty answer; a header of somebody else's or too large a body is an error to retry.
HeaderIsSilent(u) ==
  /\ IotAt(u, "header") /\ Concludes(u, EmptyAnswer(iotCall[u].cmd))
  /\ UNCHANGED <<doors, told, recentMsgs, iotCalls>>
HeaderIsForeign(u) ==
  /\ IotAt(u, "header") /\ Retries(u)
  /\ UNCHANGED <<doors, told, recentMsgs, iotCalls>>
HeaderIsValid(u) ==
  /\ IotAt(u, "header") /\ iotCall' = [iotCall EXCEPT ![u].at = "body"]
  /\ UNCHANGED <<doors, outcome, told, recentMsgs, iotCalls>>
BodyArrives(u) ==
  /\ IotAt(u, "body") /\ told[u] < InfoFields /\ Tells(u) /\ Concludes(u, "ok")
  /\ UNCHANGED <<doors, recentMsgs, iotCalls>>
BodyIsCut(u) ==
  /\ IotAt(u, "body") /\ Retries(u)
  /\ UNCHANGED <<doors, told, recentMsgs, iotCalls>>

\* The pipes come and go, and a second passes.
DoorMoves(d) ==
  /\ doors' = IF d \in doors THEN doors \ {d} ELSE doors \cup {d}
  /\ UNCHANGED <<iotCall, outcome, told, recentMsgs, iotCalls>>
SecondPasses ==
  /\ recentMsgs > 0 /\ recentMsgs' \in 0..(recentMsgs - 1)
  /\ UNCHANGED <<doors, iotCall, outcome, told, iotCalls>>

IotNext ==
  \/ \E u \in IotCallers :
       \/ \E cmd \in Commands : AsksIot(u, cmd)
       \/ PicksDoor(u) \/ EcAnswers(u) \/ EcRefuses(u) \/ Limited(u)
       \/ SendsMessage(u) \/ SendFailsToOpen(u)
       \/ HeaderIsSilent(u) \/ HeaderIsForeign(u) \/ HeaderIsValid(u)
       \/ BodyArrives(u) \/ BodyIsCut(u)
  \/ \E d \in {"ec", "mcpi"} : DoorMoves(d)
  \/ SecondPasses

IotSpec == IotInit /\ [][IotNext]_iotVars

-----------------------------------------------------------------------------
(* Properties.                                                             *)

\* A query that came back well was answered by the device, whichever door it took and
\* however often it was sent (send_json_cmd, send_query and the retries).
QueryIsAnswered ==
  \A u \in IotCallers : iotCall[u].cmd = "query" /\ outcome[u] = "ok" => told[u] = 1
==================================================================================
