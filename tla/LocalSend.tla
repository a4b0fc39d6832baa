-------------------------------- MODULE LocalSend --------------------------------
(***************************************************************************)
(* File exchange on the LAN (hw/localsend.rs): the embedded receiver with  *)
(* its accept loop, the requests it reads and the sessions it grants, and  *)
(* the sender, which talks to a receiver of another make.                  *)
(***************************************************************************)
EXTENDS Integers, FiniteSets

CONSTANTS
  Senders,         \* devices that send a request to our receiver
  Callers,         \* tasks that start and stop the receiver
  MaxLocalCalls    \* bound on starts, stops, requests and files sent

ASSUME LocalSendAssumption == MaxLocalCalls \in Nat

HeadEnd == 4       \* find_head_end: just past the blank line
HeaderLen == HeadEnd + 2   \* what parse_http_head returns
Bodies == {0, 3}   \* content_length of info and of prepare-upload
Trailers == {0, 2}         \* bytes some devices send after the body

VARIABLES
  receiverRunning, \* ReceiverState.running
  listening,       \* the port is bound, by the accept loop or by a start on its way
  starter,         \* start_receiver of a caller: idle, or bound and not yet running
  received,        \* per sender: bytes of its request that have arrived
  bodyLength,      \* per sender: its content-length
  total,           \* per sender: the bytes it sends in all
  exchange,        \* per sender: where its connection is
  sessions,        \* sessions granted
  outgoing,        \* send_files: idle, prepared, the files still to upload
  localCalls

intakeVars == <<receiverRunning, listening, starter>>
localVars == <<intakeVars, received, bodyLength, total, exchange, sessions, outgoing, localCalls>>

LocalTypeOK ==
  /\ receiverRunning \in BOOLEAN /\ listening \in BOOLEAN
  /\ starter \in [Callers -> {"idle", "check", "bound"}]
  /\ received \in [Senders -> 0..HeadEnd + 5] /\ total \in [Senders -> 0..HeadEnd + 5]
  /\ bodyLength \in [Senders -> Bodies]
  /\ exchange \in [Senders -> {"none", "head", "body", "answered", "left"}]
  /\ sessions \in 0..MaxLocalCalls /\ outgoing \in {"idle", "prepared", "sent", "failed"}
  /\ localCalls \in 0..MaxLocalCalls

LocalInit ==
  /\ receiverRunning = FALSE /\ listening = FALSE /\ starter = [c \in Callers |-> "idle"]
  /\ received = [s \in Senders |-> 0] /\ bodyLength = received /\ total = received
  /\ exchange = [s \in Senders |-> "none"] /\ sessions = 0 /\ outgoing = "idle"
  /\ localCalls = 0

LocalCall == localCalls < MaxLocalCalls /\ localCalls' = localCalls + 1
Receiving == <<received, bodyLength, total, exchange, sessions, outgoing>>

\* start_receiver: nothing when it runs; else the port, then the flag and the loop.
StartReceiver(c) ==
  /\ starter[c] = "idle" /\ ~receiverRunning /\ LocalCall
  /\ starter' = [starter EXCEPT ![c] = "check"]
  /\ UNCHANGED <<receiverRunning, listening, Receiving>>
\* Mutant: the flag goes up before the port is bound.
BindAfterFlag(c) ==
  /\ starter[c] = "check" /\ receiverRunning' = TRUE
  /\ \/ starter' = [starter EXCEPT ![c] = "idle"] /\ UNCHANGED listening
     \/ ~listening /\ starter' = [starter EXCEPT ![c] = "bound"] /\ listening' = TRUE
  /\ UNCHANGED <<Receiving, localCalls>>
\* The port may be taken: by a loop that has not ended yet, or by LocalSend itself.
BindPort(c) ==
  /\ starter[c] = "check"
  /\ \/ starter' = [starter EXCEPT ![c] = "idle"] /\ UNCHANGED listening
     \/ ~listening /\ starter' = [starter EXCEPT ![c] = "bound"] /\ listening' = TRUE
  /\ UNCHANGED <<receiverRunning, Receiving, localCalls>>
SpawnLoop(c) ==
  /\ starter[c] = "bound" /\ starter' = [starter EXCEPT ![c] = "idle"] /\ receiverRunning' = TRUE
  /\ UNCHANGED <<listening, Receiving, localCalls>>

StopReceiver ==
  /\ receiverRunning /\ LocalCall /\ receiverRunning' = FALSE
  /\ UNCHANGED <<listening, starter, Receiving>>
\* The accept loop finds the flag down at its next tick and drops the listener.
LoopTicks ==
  /\ listening /\ ~receiverRunning /\ \A c \in Callers : starter[c] # "bound"
  /\ listening' = FALSE
  /\ UNCHANGED <<receiverRunning, starter, Receiving, localCalls>>

\* A device connects and sends a whole request; it keeps the connection for the answer.
Connects(s, length, trailer) ==
  /\ listening /\ exchange[s] = "none" /\ LocalCall
  /\ exchange' = [exchange EXCEPT ![s] = "head"]
  /\ bodyLength' = [bodyLength EXCEPT ![s] = length]
  /\ total' = [total EXCEPT ![s] = HeadEnd + length + trailer]
  /\ UNCHANGED <<intakeVars, received, sessions, outgoing>>
BytesArrive(s) ==
  /\ exchange[s] \in {"head", "body"} /\ received[s] < total[s]
  /\ received' = [received EXCEPT ![s] = @ + 1]
  /\ UNCHANGED <<intakeVars, bodyLength, total, exchange, sessions, outgoing, localCalls>>

\* handle_connection: the head to its blank line, then as many bytes as HeaderLen and the
\* content-length call for, then the handler and its answer. The body it is given begins
\* HeaderLen - HeadEnd bytes late: a cut JSON grants no session, and an answer is a refusal.
HeadRead(s) ==
  /\ exchange[s] = "head" /\ received[s] >= HeadEnd
  /\ exchange' = [exchange EXCEPT ![s] = "body"]
  /\ UNCHANGED <<intakeVars, received, bodyLength, total, sessions, outgoing, localCalls>>
Respond(s) ==
  /\ exchange[s] = "body" /\ received[s] >= HeaderLen + bodyLength[s]
  /\ exchange' = [exchange EXCEPT ![s] = "answered"]
  /\ sessions' = sessions + (IF bodyLength[s] > 0 /\ HeaderLen = HeadEnd THEN 1 ELSE 0)
  /\ UNCHANGED <<intakeVars, received, bodyLength, total, outgoing, localCalls>>
\* The device gives up: the read ends, too little is there for a session or a file.
DeviceLeaves(s) ==
  /\ exchange[s] \in {"head", "body"} /\ exchange' = [exchange EXCEPT ![s] = "left"]
  /\ UNCHANGED <<intakeVars, received, bodyLength, total, sessions, outgoing, localCalls>>

\* send_files: hashes, prepare-upload, then the files one by one; any refusal ends it.
SendFiles ==
  /\ outgoing \in {"idle", "sent", "failed"} /\ LocalCall /\ outgoing' \in {"prepared", "failed"}
  /\ UNCHANGED <<intakeVars, received, bodyLength, total, exchange, sessions>>
UploadFile ==
  /\ outgoing = "prepared" /\ outgoing' \in {"prepared", "sent", "failed"}
  /\ UNCHANGED <<intakeVars, received, bodyLength, total, exchange, sessions, localCalls>>

LocalNext ==
  \/ \E c \in Callers : StartReceiver(c) \/ BindPort(c) \/ SpawnLoop(c)
  \/ StopReceiver \/ LoopTicks \/ SendFiles \/ UploadFile
  \/ \E s \in Senders : \/ \E length \in Bodies, trailer \in Trailers : Connects(s, length, trailer)
                        \/ BytesArrive(s) \/ HeadRead(s) \/ Respond(s) \/ DeviceLeaves(s)

LocalSpec == LocalInit /\ [][LocalNext]_localVars

-----------------------------------------------------------------------------
(* Properties.                                                             *)

\* A receiver that says it runs is listening, however starts and stops overlap
\* (start_receiver binds before it raises the flag; the loop ends on a lowered one).
RunningIsListening == receiverRunning => listening
==================================================================================
