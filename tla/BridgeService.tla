----------------------------- MODULE BridgeService -----------------------------
(***************************************************************************)
(* The MiControlBridge service (src/bin/micontrol_bridge.rs) and the       *)
(* client side of its named pipe (pipe_request of elev_bridge.rs): one     *)
(* thread accepts connections, a fixed pool of workers serves them, and a  *)
(* second fixed pool carries the commands out, each under a deadline the   *)
(* worker keeps.  The pipe and the two channels are the environment's.     *)
(*                                                                         *)
(* A client makes one connection, so connections and requests are named by *)
(* it.  Its request exists from the start; when its thread gets to it is   *)
(* open.  Workers and dispatch threads are counted, not named.  Commands   *)
(* succeed, fail or hang.  Time is abstract: a bounded wait may run out at *)
(* any moment, one without a bound never does, and a request may be stale  *)
(* whenever it is verified.                                                *)
(***************************************************************************)
EXTENDS Integers, Sequences, FiniteSets

CONSTANTS
  Clients,
  Probes,         \* clients that open the pipe only to see whether it is there
  PipeWorkers,    \* PIPE_WORKERS: 4 in the code
  DispatchPool,   \* DISPATCH_POOL: 2 in the code
  EventMayFail,   \* may CreateEventW fail?
  MayStop,        \* may the service be told to stop?
  None            \* no client

ASSUME BridgeAssumption ==
  /\ IsFiniteSet(Clients) /\ Probes \subseteq Clients /\ None \notin Clients
  /\ PipeWorkers \in Nat \ {0} /\ DispatchPool \in Nat \ {0}
  /\ EventMayFail \in BOOLEAN /\ MayStop \in BOOLEAN

VARIABLES
  client,    \* per client: its thread
  outcome,   \* per client: what its caller was told
  acceptor,  \* the accept loop: where it is
  hold,      \* the client connected to the instance the acceptor holds
  event,     \* has the event of that instance been signalled?
  stage,     \* per client: where its connection is on the server's side
  queue,     \* channel from the acceptor to the workers
  jobs,      \* channel from the workers to the dispatch threads
  running,   \* commands the dispatch threads are at
  done,      \* per client: how its command ended, once it has
  reply,     \* per client: what lies in its reply channel
  answer,    \* per client: the response written to its pipe
  svc        \* the service as the SCM and service_main see it

callers == <<client, outcome>>
accept  == <<acceptor, hold, event>>
serving == <<stage, answer>>
pool    == <<jobs, running, done, reply>>
vars == <<callers, accept, serving, queue, pool, svc>>

ClientStates == {"asked", "open", "sent", "closed"}
Stages == {"none", "attached", "queued", "read", "wait", "flush", "gone"}
Served == {"read", "wait", "flush"}
Verdicts == {"none", "ok", "err"}

All(v) == [c \in Clients |-> v]

Init ==
  /\ client = All("asked") /\ outcome = All("none")
  /\ acceptor = "top" /\ hold = None /\ event = FALSE
  /\ stage = All("none") /\ answer = All("none")
  /\ queue = <<>> /\ jobs = <<>> /\ running = {}
  /\ done = All("none") /\ reply = All("none")
  /\ svc = "running"

-----------------------------------------------------------------------------
(* The client.                                                             *)

\* The caller's verdict: the first one counts.
Told(c, v) == outcome' = IF outcome[c] = "none" THEN [outcome EXCEPT ![c] = v]
                                                ELSE outcome

\* The caller stops waiting; the thread goes on.
GiveUp(c) ==
  /\ c \notin Probes /\ outcome[c] = "none"
  /\ Told(c, "err")
  /\ UNCHANGED <<client, accept, serving, queue, pool, svc>>

\* CreateFileW succeeds when an instance has no client yet.  The event is
\* signalled only when ConnectNamedPipe is already pending.
Free == acceptor \in {"made", "listen"} /\ hold = None

Connect(c) ==
  /\ client[c] = "asked" /\ Free
  /\ client' = [client EXCEPT ![c] = "open"]
  /\ hold' = c /\ event' = (acceptor = "listen")
  /\ stage' = [stage EXCEPT ![c] = "attached"]
  /\ UNCHANGED <<outcome, acceptor, answer, queue, pool, svc>>

\* No instance is free, or none exists, for all the retries.
OpenFail(c) ==
  /\ client[c] = "asked" /\ ~Free
  /\ client' = [client EXCEPT ![c] = "closed"] /\ Told(c, "err")
  /\ UNCHANGED <<accept, serving, queue, pool, svc>>

Send(c) ==
  /\ client[c] = "open" /\ c \notin Probes /\ stage[c] # "gone"
  /\ client' = [client EXCEPT ![c] = "sent"]
  /\ UNCHANGED <<outcome, accept, serving, queue, pool, svc>>

\* is_bridge_service_available closes what it has opened.
Leave(c) ==
  /\ client[c] = "open" /\ c \in Probes
  /\ client' = [client EXCEPT ![c] = "closed"] /\ Told(c, "ok")
  /\ UNCHANGED <<accept, serving, queue, pool, svc>>

\* The response is read and verified; or nothing comes, because the server
\* closed the connection or the wait is over.
Receive(c) ==
  /\ client[c] = "sent"
  /\ \/ answer[c] # "none" /\ Told(c, answer[c])
     \/ answer[c] = "none" /\ Told(c, "err")
  /\ client' = [client EXCEPT ![c] = "closed"]
  /\ UNCHANGED <<accept, serving, queue, pool, svc>>

\* The pipe breaks before the request is written.
SendFail(c) ==
  /\ client[c] = "open" /\ c \notin Probes /\ stage[c] = "gone"
  /\ client' = [client EXCEPT ![c] = "closed"] /\ Told(c, "err")
  /\ UNCHANGED <<accept, serving, queue, pool, svc>>

-----------------------------------------------------------------------------
(* The accept loop: pipe_server::run.                                      *)

Up == svc # "stopped"

\* The loop's head; a failing CreateNamedPipeW is tried again a second later.
NewInstance ==
  /\ Up /\ acceptor = "top"
  /\ acceptor' = IF svc = "stopping" THEN "done" ELSE "made"
  /\ hold' = None /\ event' = FALSE
  /\ UNCHANGED <<callers, serving, queue, pool, svc>>

\* Without an event the instance is closed, whoever is connected to it.
Drop == /\ hold' = None
        /\ stage' = IF hold = None THEN stage ELSE [stage EXCEPT ![hold] = "gone"]

EventFails ==
  /\ Up /\ acceptor = "made" /\ EventMayFail
  /\ acceptor' = "top" /\ Drop
  /\ UNCHANGED <<callers, event, answer, queue, pool, svc>>

Listen ==
  /\ Up /\ acceptor = "made"
  /\ acceptor' = "listen"
  /\ UNCHANGED <<callers, hold, event, serving, queue, pool, svc>>

\* The event wakes the loop, which hands the connection to the workers.  With
\* a bounded wait the instance, and its client, could be dropped instead.
HandOverOrDrop ==
  /\ Up /\ acceptor = "listen"
  /\ acceptor' = "top" /\ UNCHANGED event
  /\ \/ /\ hold # None /\ event
        /\ queue' = Append(queue, hold)
        /\ stage' = [stage EXCEPT ![hold] = "queued"] /\ hold' = None
     \/ Drop /\ UNCHANGED queue
  /\ UNCHANGED <<callers, answer, pool, svc>>

HandOverUnasked ==
  /\ Up /\ acceptor = "listen"
  /\ acceptor' = "top" /\ UNCHANGED event
  /\ queue' = Append(queue, hold)
  /\ stage' = [c \in Clients |-> IF c = hold THEN "queued" ELSE stage[c]]
  /\ hold' = None
  /\ UNCHANGED <<callers, answer, pool, svc>>

HandOverKeeping ==
  /\ Up /\ acceptor = "listen" /\ hold # None /\ event
  /\ acceptor' = "listen" /\ UNCHANGED <<event, hold>>
  /\ queue' = Append(queue, hold)
  /\ stage' = [stage EXCEPT ![hold] = "queued"]
  /\ UNCHANGED <<callers, answer, pool, svc>>

HandOver ==
  /\ Up /\ acceptor = "listen" /\ hold # None /\ event
  /\ acceptor' = "top" /\ UNCHANGED event
  /\ queue' = Append(queue, hold)
  /\ stage' = [stage EXCEPT ![hold] = "queued"] /\ hold' = None
  /\ UNCHANGED <<callers, answer, pool, svc>>

-----------------------------------------------------------------------------
(* The workers: handle_client, process_request, dispatch_with_auth.        *)

Busy == {c \in Clients : stage[c] \in Served}

Pop ==
  /\ Up /\ queue # <<>> /\ Cardinality(Busy) < PipeWorkers
  /\ stage' = [stage EXCEPT ![Head(queue)] = "read"]
  /\ queue' = Tail(queue)
  /\ UNCHANGED <<callers, accept, answer, pool, svc>>

\* Nothing was sent and the client is gone, or the wait for it is over; or
\* there is no event to wait on.
ReadNothing(c) ==
  /\ Up /\ stage[c] = "read"
  /\ \/ client[c] = "open"
     \/ client[c] = "closed" /\ c \in Probes
     \/ EventMayFail
  /\ stage' = [stage EXCEPT ![c] = "gone"]
  /\ UNCHANGED <<callers, accept, answer, queue, pool, svc>>

Arrived(c) == client[c] = "sent" \/ (client[c] = "closed" /\ c \notin Probes)

Write(c, v) ==
  /\ answer' = [answer EXCEPT ![c] = v]
  /\ stage' = [stage EXCEPT ![c] = "flush"]

\* The request is stale, or the key cannot be read: an error is the response.
Refuse(c) ==
  /\ Up /\ stage[c] = "read" /\ Arrived(c)
  /\ Write(c, "err")
  /\ UNCHANGED <<callers, accept, queue, pool, svc>>

Submit(c) ==
  /\ Up /\ stage[c] = "read" /\ Arrived(c)
  /\ jobs' = Append(jobs, c)
  /\ stage' = [stage EXCEPT ![c] = "wait"]
  /\ UNCHANGED <<callers, accept, answer, queue, running, done, reply, svc>>

\* recv_timeout on the request's own channel.
CollectAny(c) ==
  /\ Up /\ stage[c] = "wait"
  /\ \E d \in Clients :
       /\ reply[d] # "none"
       /\ Write(c, reply[d]) /\ reply' = [reply EXCEPT ![d] = "none"]
  /\ UNCHANGED <<callers, accept, queue, jobs, running, done, svc>>

Collect(c) ==
  /\ Up /\ stage[c] = "wait" /\ reply[c] # "none"
  /\ Write(c, reply[c]) /\ reply' = [reply EXCEPT ![c] = "none"]
  /\ UNCHANGED <<callers, accept, queue, jobs, running, done, svc>>

NoDeadline(c) ==
  /\ Up /\ stage[c] = "wait" /\ reply[c] = "none" /\ c \notin running
  /\ Write(c, "err")
  /\ UNCHANGED <<callers, accept, queue, pool, svc>>

DeadlinePassed(c) ==
  /\ Up /\ stage[c] = "wait" /\ reply[c] = "none"
  /\ Write(c, "err")
  /\ UNCHANGED <<callers, accept, queue, pool, svc>>

\* FlushFileBuffers returns when the client has read the response or is gone.
Finish(c) ==
  /\ Up /\ stage[c] = "flush" /\ client[c] = "closed"
  /\ stage' = [stage EXCEPT ![c] = "gone"]
  /\ UNCHANGED <<callers, accept, answer, queue, pool, svc>>

-----------------------------------------------------------------------------
(* The dispatch threads.                                                   *)

\* Whether anyone still waits for the command is not looked at.
Begin ==
  /\ Up /\ jobs # <<>> /\ Cardinality(running) < DispatchPool
  /\ running' = running \cup {Head(jobs)} /\ jobs' = Tail(jobs)
  /\ UNCHANGED <<callers, accept, serving, queue, done, reply, svc>>

\* The command ends; without its receiver the reply is dropped.
End(c) ==
  /\ Up /\ c \in running /\ running' = running \ {c}
  /\ \E r \in {"ok", "err"} :
       /\ done' = [done EXCEPT ![c] = r]
       /\ reply' = [reply EXCEPT ![c] = IF stage[c] = "wait" THEN r ELSE "none"]
  /\ UNCHANGED <<callers, accept, serving, queue, jobs, svc>>

-----------------------------------------------------------------------------
(* Service control.                                                        *)

\* service_control_handler sets SHUTDOWN and returns; service_main sees it,
\* raises the loop's flag and joins the loop.
Stop ==
  /\ svc = "running" /\ MayStop
  /\ svc' = "stopping"
  /\ UNCHANGED <<callers, accept, serving, queue, pool>>

\* The loop has ended: STOPPED is reported and the process exits, with every
\* connection, channel and thread it has.
Stopped ==
  /\ svc = "stopping" /\ acceptor = "done"
  /\ svc' = "stopped"
  /\ stage' = [c \in Clients |-> IF stage[c] = "none" THEN "none" ELSE "gone"]
  /\ queue' = <<>> /\ jobs' = <<>> /\ running' = {}
  /\ reply' = All("none") /\ answer' = All("none")
  /\ UNCHANGED <<callers, accept, done>>

-----------------------------------------------------------------------------

ClientStep(c) ==
  GiveUp(c) \/ Connect(c) \/ OpenFail(c) \/ Send(c) \/ Leave(c) \/ Receive(c) \/ SendFail(c)

WorkerStep(c) ==
  ReadNothing(c) \/ Refuse(c) \/ Submit(c) \/ Collect(c) \/ DeadlinePassed(c) \/ Finish(c)

Accept == NewInstance \/ Listen \/ HandOver

Next ==
  \/ \E c \in Clients : ClientStep(c) \/ WorkerStep(c) \/ End(c)
  \/ Accept \/ EventFails \/ Pop \/ Begin \/ Stop \/ Stopped

\* Fair: every thread but those of the dispatch pool, which may hang in a
\* command for ever.  A client and the worker that serves it take finitely many
\* steps, so that fairness of both together is as good as of each.
Serving ==
  /\ \A c \in Clients : WF_vars(ClientStep(c) \/ WorkerStep(c))
  /\ WF_vars(Pop)

Accepting == WF_vars(Accept) /\ WF_vars(Stopped)

Spec == Init /\ [][Next]_vars
ServingSpec == Spec /\ Serving
FairSpec == ServingSpec /\ Accepting

-----------------------------------------------------------------------------
(* Properties.                                                             *)

TypeOK ==
  /\ client \in [Clients -> ClientStates] /\ outcome \in [Clients -> Verdicts]
  /\ acceptor \in {"top", "made", "listen", "done"}
  /\ hold \in Clients \cup {None} /\ event \in BOOLEAN
  /\ stage \in [Clients -> Stages]
  /\ queue \in Seq(Clients) /\ jobs \in Seq(Clients)
  /\ running \subseteq Clients
  /\ done \in [Clients -> Verdicts] /\ reply \in [Clients -> Verdicts]
  /\ answer \in [Clients -> Verdicts]
  /\ svc \in {"running", "stopping", "stopped"}

\* A connection has one owner at a time: the acceptor, the channel or one
\* worker; and no more workers are busy than there are (the SAFETY comment of
\* pipe_server::run).
OneOwner ==
  /\ \A c \in Clients : (stage[c] = "attached") = (hold = c)
  /\ \A c \in Clients : stage[c] = "queued" => \E i \in DOMAIN queue : queue[i] = c
  /\ \A i \in DOMAIN queue : stage[queue[i]] = "queued"
  /\ \A i, j \in DOMAIN queue : queue[i] = queue[j] => i = j
  /\ Cardinality(Busy) <= PipeWorkers /\ Cardinality(running) <= DispatchPool

\* A client whose connection woke the accept loop is not dropped: it goes to
\* the workers, and from the channel to a worker ("a client that connected
\* inside that tiny window could be orphaned", FIX 21).
NeverOrphaned ==
  [][\A c \in Clients : svc' # "stopped" =>
       /\ stage[c] = "attached" /\ event => stage'[c] \in {"attached", "queued"}
       /\ stage[c] = "queued" => stage'[c] \in {"queued", "read"}]_vars

\* However many commands hang, every connection handed to the workers is
\* answered and closed, and its worker is free again (S66-004): a moment comes
\* when none is left.
EveryConnectionEnds ==
  (\E c \in Clients : stage[c] = "queued") ~>
  (\A c \in Clients : stage[c] \notin {"queued"} \cup Served)

\* One round trip does what PipePromise says.
Promise == INSTANCE PipePromise WITH
  Clients <- Clients \ Probes,
  outcome <- [c \in Clients \ Probes |-> outcome[c]],
  done <- [c \in Clients \ Probes |-> done[c]]

ImplementsPipe == Promise!Spec

\* A client that got through to the pipe is handed to the workers, also when it
\* connected before ConnectNamedPipe was called.
EveryConnectionIsServed ==
  \A c \in Clients : stage[c] = "attached" ~> stage[c] # "attached"

\* A service told to stop stops.
StopCompletes == svc = "stopping" ~> svc = "stopped"

=============================================================================
