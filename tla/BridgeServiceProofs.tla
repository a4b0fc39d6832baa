-------------------------- MODULE BridgeServiceProofs --------------------------
(***************************************************************************)
(* Proofs about BridgeService: type correctness, one owner per connection  *)
(* and the bounds of the two pools, and that a round trip over the pipe    *)
(* implements PipePromise.                                                 *)
(***************************************************************************)
EXTENDS BridgeService, FiniteSetTheorems, SequenceTheorems, TLAPS

USE BridgeAssumption DEF BridgeAssumption

\* A connection is made once: a client that has not opened the pipe is unknown
\* to the service.
Fresh == \A c \in Clients : client[c] = "asked" => stage[c] = "none"

Owned ==
  /\ acceptor \in {"top", "done"} => hold = None
  /\ \A c \in Clients : (stage[c] = "attached") = (hold = c)
  /\ \A c \in Clients : stage[c] = "queued" => \E i \in DOMAIN queue : queue[i] = c
  /\ \A i \in DOMAIN queue : stage[queue[i]] = "queued"
  /\ \A i, j \in DOMAIN queue : queue[i] = queue[j] => i = j

Bounded == Cardinality(Busy) <= PipeWorkers /\ Cardinality(running) <= DispatchPool

Inv == TypeOK /\ Fresh /\ Owned /\ Bounded

\* Appending an element that is not there keeps a sequence free of repetitions.
LEMMA AppendOnce ==
  ASSUME NEW S, NEW s \in Seq(S), NEW e \in S,
         \A i \in DOMAIN s : s[i] # e,
         \A i, j \in DOMAIN s : s[i] = s[j] => i = j
  PROVE  /\ Append(s, e) \in Seq(S)
         /\ \A i \in DOMAIN Append(s, e) :
              \/ Append(s, e)[i] = e
              \/ i \in DOMAIN s /\ Append(s, e)[i] = s[i]
         /\ \A i \in DOMAIN s : i \in DOMAIN Append(s, e) /\ Append(s, e)[i] = s[i]
         /\ \E i \in DOMAIN Append(s, e) : Append(s, e)[i] = e
         /\ \A i, j \in DOMAIN Append(s, e) :
              Append(s, e)[i] = Append(s, e)[j] => i = j
<1>1. /\ Append(s, e) \in Seq(S) /\ Len(Append(s, e)) = Len(s) + 1
      /\ Append(s, e)[Len(s) + 1] = e
      /\ \A i \in 1..Len(s) : Append(s, e)[i] = s[i]
  BY AppendProperties
<1>2. DOMAIN s = 1..Len(s) /\ DOMAIN Append(s, e) = 1..(Len(s) + 1) /\ Len(s) \in Nat
  BY <1>1, LenProperties
<1> QED
  BY <1>1, <1>2

\* The head is in the sequence, and not in its tail.
LEMMA TailOnce ==
  ASSUME NEW S, NEW s \in Seq(S), s # <<>>,
         \A i, j \in DOMAIN s : s[i] = s[j] => i = j
  PROVE  /\ Head(s) \in S /\ Tail(s) \in Seq(S)
         /\ 1 \in DOMAIN s /\ s[1] = Head(s)
         /\ \A i \in DOMAIN Tail(s) : /\ i + 1 \in DOMAIN s /\ Tail(s)[i] = s[i + 1]
                                      /\ Tail(s)[i] # Head(s)
         /\ \A i \in DOMAIN s : s[i] # Head(s) =>
              \E j \in DOMAIN Tail(s) : Tail(s)[j] = s[i]
         /\ \A i, j \in DOMAIN Tail(s) : Tail(s)[i] = Tail(s)[j] => i = j
<1>1. /\ Head(s) \in S /\ Tail(s) \in Seq(S) /\ Len(Tail(s)) = Len(s) - 1
      /\ \A i \in 1..Len(Tail(s)) : Tail(s)[i] = s[i + 1]
      /\ Len(s) \in Nat \ {0} /\ Head(s) = s[1]
  BY HeadTailProperties, EmptySeq, LenProperties
<1>2. DOMAIN s = 1..Len(s) /\ DOMAIN Tail(s) = 1..(Len(s) - 1)
  BY <1>1, LenProperties
<1>3. \A i \in DOMAIN Tail(s) : i + 1 \in DOMAIN s /\ Tail(s)[i] = s[i + 1] /\ i \in Nat /\ i # 0
  BY <1>1, <1>2
<1>4. ASSUME NEW i \in DOMAIN s, s[i] # Head(s)
      PROVE  \E j \in DOMAIN Tail(s) : Tail(s)[j] = s[i]
  <2>1. i - 1 \in DOMAIN Tail(s) /\ (i - 1) + 1 = i
    BY <1>1, <1>2, <1>4
  <2> QED
    BY <2>1, <1>3
<1>5. \A i \in DOMAIN Tail(s) : Tail(s)[i] # Head(s)
  BY <1>1, <1>2, <1>3
<1>6. \A i, j \in DOMAIN Tail(s) : Tail(s)[i] = Tail(s)[j] => i = j
  BY <1>1, <1>2, <1>3
<1> QED
  BY <1>1, <1>2, <1>3, <1>4, <1>5, <1>6
-----------------------------------------------------------------------------

\* At first nobody is connected and every channel is empty.
LEMMA InvInit == ASSUME Init PROVE Inv
<1>1. <<>> \in Seq(Clients) /\ DOMAIN <<>> = {}
  BY EmptySeq
<1>2. TypeOK
  BY <1>1 DEF Init, TypeOK, All, ClientStates, Stages, Verdicts
<1>3. Fresh /\ Owned
  BY <1>1 DEF Init, All, Fresh, Owned
<1>4. Busy = {} /\ running = {}
  BY DEF Init, All, Busy, Served
<1>5. Bounded
  BY <1>4, FS_EmptySet DEF Bounded
<1> QED
  BY <1>2, <1>3, <1>5 DEF Inv

\* No worker is busy with a connection that was not handed to it.
LEMMA NoMoreBusy ==
  ASSUME Bounded, TypeOK, UNCHANGED running,
         \A c \in Clients : stage'[c] \in Served => stage[c] \in Served
  PROVE  Bounded'
<1>1. Busy' \subseteq Busy /\ IsFiniteSet(Busy)
  BY FS_Subset DEF Busy
<1>2. Cardinality(Busy') <= Cardinality(Busy)
  BY <1>1, FS_Subset
<1>3. Cardinality(Busy') \in Nat /\ Cardinality(Busy) \in Nat
  BY <1>1, FS_Subset, FS_CardinalityType
<1> QED
  BY <1>2, <1>3 DEF Bounded

\* Whatever the clients do, they do not touch the channels.
LEMMA InvClient ==
  ASSUME Inv, NEW c \in Clients, ClientStep(c)
  PROVE  Inv'
<1> USE DEF Inv, Fresh, Owned
<1>1. CASE GiveUp(c)
  <2>1. TypeOK' /\ Fresh' /\ Owned'
    <3>1. TypeOK'
      BY <1>1 DEF GiveUp, Told, accept, serving, pool, TypeOK, Verdicts
    <3>2. Fresh' /\ Owned'
      BY <1>1 DEF GiveUp, accept, serving
    <3> QED
      BY <3>1, <3>2
  <2> QED
    BY <1>1, <2>1, NoMoreBusy DEF GiveUp, serving, pool
<1>2. CASE Connect(c)
  <2>1. TypeOK'
    BY <1>2 DEF Connect, pool, TypeOK, ClientStates, Stages
  <2>2. Fresh' /\ Owned'
    BY <1>2 DEF Connect, Free, pool, TypeOK
  <2>3. \A d \in Clients : stage'[d] \in Served => stage[d] \in Served
    BY <1>2 DEF Connect, Served, TypeOK
  <2> QED
    BY <1>2, <2>1, <2>2, <2>3, NoMoreBusy DEF Connect, pool
<1>3. CASE OpenFail(c) \/ Leave(c) \/ Receive(c) \/ SendFail(c)
  <2>1. /\ client' = [client EXCEPT ![c] = "closed"]
        /\ UNCHANGED <<accept, serving, queue, pool, svc>>
    BY <1>3 DEF OpenFail, Leave, Receive, SendFail
  <2>2. \E v \in Verdicts : Told(c, v)
    <3>1. answer[c] \in Verdicts /\ "ok" \in Verdicts /\ "err" \in Verdicts
      BY DEF TypeOK, Verdicts
    <3> QED
      BY <1>3, <3>1 DEF OpenFail, Leave, Receive, SendFail
  <2>3. outcome' \in [Clients -> Verdicts]
    BY <2>2 DEF Told, TypeOK
  <2>4. TypeOK' /\ Fresh' /\ Owned'
    <3>1. TypeOK'
      BY <2>1, <2>3 DEF accept, serving, pool, TypeOK, ClientStates
    <3>2. Fresh'
      BY <2>1 DEF serving, TypeOK
    <3>3. Owned'
      BY <2>1 DEF accept, serving
    <3> QED
      BY <3>1, <3>2, <3>3
  <2> QED
    BY <1>3, <2>4, NoMoreBusy DEF OpenFail, Leave, Receive, SendFail, serving, pool
<1>4. CASE Send(c)
  <2>1. TypeOK' /\ Fresh' /\ Owned'
    <3>1. TypeOK'
      BY <1>4 DEF Send, accept, serving, pool, TypeOK, ClientStates
    <3>2. Fresh'
      BY <1>4 DEF Send, serving, TypeOK
    <3>3. Owned'
      BY <1>4 DEF Send, accept, serving
    <3> QED
      BY <3>1, <3>2, <3>3
  <2> QED
    BY <1>4, <2>1, NoMoreBusy DEF Send, serving, pool
<1> QED
  BY <1>1, <1>2, <1>3, <1>4 DEF ClientStep

\* The accept loop passes each connection on once.
LEMMA InvAccept ==
  ASSUME Inv, Accept \/ EventFails
  PROVE  Inv'
<1> USE DEF Inv
<1>1. CASE NewInstance
  <2>1. TypeOK' /\ Fresh' /\ Owned'
    BY <1>1 DEF NewInstance, callers, serving, pool, TypeOK, Fresh, Owned
  <2> QED
    BY <1>1, <2>1, NoMoreBusy DEF NewInstance, serving, pool
<1>2. CASE Listen
  <2>1. TypeOK' /\ Fresh' /\ Owned'
    BY <1>2 DEF Listen, callers, serving, pool, TypeOK, Fresh, Owned
  <2> QED
    BY <1>2, <2>1, NoMoreBusy DEF Listen, serving, pool
<1>3. CASE HandOver
  <2>1. hold \in Clients /\ stage[hold] = "attached"
    BY <1>3 DEF HandOver, TypeOK, Owned
  <2>2. \A i \in DOMAIN queue : queue[i] # hold
    BY <2>1 DEF Owned
  <2>3. queue' = Append(queue, hold) /\ queue \in Seq(Clients)
    BY <1>3 DEF HandOver, TypeOK
  <2>4. TypeOK'
    BY <1>3, <2>1, <2>2, <2>3, AppendOnce DEF HandOver, callers, pool, TypeOK, Owned, Stages
  <2>5. Fresh'
    BY <1>3, <2>1 DEF HandOver, callers, TypeOK, Fresh
  <2>6. stage' = [stage EXCEPT ![hold] = "queued"] /\ hold' = None
    BY <1>3 DEF HandOver
  <2>7. \A e \in Clients : stage'[e] = IF e = hold THEN "queued" ELSE stage[e]
    BY <2>1, <2>6 DEF TypeOK
  <2>8. \A d \in Clients : (stage'[d] = "attached") = (hold' = d)
    BY <2>1, <2>6, <2>7 DEF Owned
  <2>9. \A i \in DOMAIN queue : queue[i] \in Clients
    BY <2>3, ElementOfSeq, LenProperties
  <2>10. \A d \in Clients : stage'[d] = "queued" => \E i \in DOMAIN queue' : queue'[i] = d
    BY <2>1, <2>2, <2>3, <2>7, AppendOnce DEF Owned
  <2>11. \A i \in DOMAIN queue' : stage'[queue'[i]] = "queued"
    BY <2>1, <2>2, <2>3, <2>7, <2>9, AppendOnce DEF Owned
  <2>12. \A i, j \in DOMAIN queue' : queue'[i] = queue'[j] => i = j
    BY <2>1, <2>2, <2>3, AppendOnce DEF Owned
  <2>13. Owned'
    BY <2>6, <2>8, <2>10, <2>11, <2>12 DEF Owned
  <2>14. Bounded'
    BY <1>3, <2>7, NoMoreBusy DEF HandOver, pool, Served
  <2> QED
    BY <2>4, <2>5, <2>13, <2>14
<1>4. CASE EventFails
  <2>1. /\ hold' = None /\ acceptor' = "top"
        /\ \A e \in Clients : stage'[e] = IF e = hold THEN "gone" ELSE stage[e]
        /\ UNCHANGED <<client, outcome, event, answer, queue, jobs, running, done, reply, svc>>
    BY <1>4 DEF EventFails, Drop, callers, pool, TypeOK
  <2>2. TypeOK'
    BY <1>4, <2>1 DEF EventFails, Drop, TypeOK, Stages
  <2>3. Fresh'
    BY <2>1 DEF Fresh, Owned
  <2>4. \A i \in DOMAIN queue : queue[i] \in Clients
    BY ElementOfSeq, LenProperties DEF TypeOK
  <2>5. \A e \in Clients : e = hold => stage[e] = "attached"
    BY DEF Owned
  <2>6. \A i \in DOMAIN queue : stage'[queue[i]] = "queued"
    BY <2>1, <2>4, <2>5 DEF Owned
  <2>7. \A e \in Clients : (stage'[e] = "attached") = (hold' = e)
    BY <2>1, <2>5 DEF Owned
  <2>8. TypeOK' /\ Fresh' /\ Owned'
    BY <2>1, <2>2, <2>3, <2>6, <2>7 DEF Owned
  <2>9. \A d \in Clients : stage'[d] \in Served => stage[d] \in Served
    BY <1>4 DEF EventFails, Drop, TypeOK, Served
  <2> QED
    BY <1>4, <2>8, <2>9, NoMoreBusy DEF EventFails, pool
<1> QED
  BY <1>1, <1>2, <1>3, <1>4 DEF Accept

\* A worker takes a connection only when it is free, and serves it to the end.
LEMMA InvWorker ==
  ASSUME Inv, Pop \/ \E c \in Clients : WorkerStep(c)
  PROVE  Inv'
<1> USE DEF Inv
<1>1. CASE Pop
  <2>0. queue \in Seq(Clients) /\ queue # <<>> /\ queue' = Tail(queue)
    BY <1>1 DEF Pop, TypeOK
  <2> DEFINE h == Head(queue)
  <2>1. h \in Clients /\ stage[h] = "queued"
    BY <2>0, TailOnce DEF Owned
  <2>2. stage' = [stage EXCEPT ![h] = "read"]
    BY <1>1 DEF Pop
  <2> HIDE DEF h
  <2>3. \A e \in Clients : stage'[e] = IF e = h THEN "read" ELSE stage[e]
    BY <2>1, <2>2 DEF TypeOK
  <2>4. TypeOK'
    BY <1>1, <2>0, <2>1, <2>2, TailOnce DEF Pop, callers, accept, pool, TypeOK, Owned, Stages
  <2>5. Fresh'
    BY <1>1, <2>1, <2>3 DEF Pop, callers, Fresh
  <2>6. \A d \in Clients : (stage'[d] = "attached") = (hold' = d)
    BY <1>1, <2>1, <2>3 DEF Pop, accept, Owned
  <2>7. \A i \in DOMAIN queue : queue[i] \in Clients
    BY <2>0, ElementOfSeq, LenProperties
  <2>8. \A d \in Clients : stage'[d] = "queued" => \E i \in DOMAIN queue' : queue'[i] = d
    BY <2>0, <2>1, <2>3, TailOnce DEF Owned, h
  <2>9. \A i \in DOMAIN queue' : stage'[queue'[i]] = "queued"
    BY <2>0, <2>1, <2>3, <2>7, TailOnce DEF Owned, h
  <2>10. \A i, j \in DOMAIN queue' : queue'[i] = queue'[j] => i = j
    BY <2>0, TailOnce DEF Owned
  <2>11. Owned'
    BY <1>1, <2>6, <2>8, <2>9, <2>10 DEF Owned, Pop, accept
  <2>12. IsFiniteSet(Busy)
    BY FS_Subset DEF Busy
  <2>13. Busy' = Busy \cup {h}
    BY <2>1, <2>3 DEF Busy, Served
  <2>14. h \notin Busy
    BY <2>1 DEF Busy, Served
  <2>15. Cardinality(Busy') = Cardinality(Busy) + 1 /\ Cardinality(Busy) \in Nat
    BY <2>12, <2>13, <2>14, FS_AddElement, FS_CardinalityType
  <2>16. Bounded'
    BY <1>1, <2>15 DEF Bounded, Pop, pool
  <2> QED
    BY <2>4, <2>5, <2>11, <2>16
<1>2. ASSUME NEW c \in Clients, WorkerStep(c)
      PROVE  Inv'
  <2>1. /\ stage[c] \in Served
        /\ \E v \in Served \cup {"gone"} : stage' = [stage EXCEPT ![c] = v]
        /\ UNCHANGED <<client, outcome, acceptor, hold, event, queue, running, done, svc>>
    BY <1>2 DEF WorkerStep, ReadNothing, Refuse, Submit, Collect, DeadlinePassed,
                Finish, Write, callers, accept, pool, Served
  <2>2. PICK v \in Served \cup {"gone"} : stage' = [stage EXCEPT ![c] = v]
    BY <2>1
  <2>3. \A e \in Clients : stage'[e] = IF e = c THEN v ELSE stage[e]
    BY <2>2 DEF TypeOK
  <2>4. /\ \A e \in Clients : e # c => stage'[e] = stage[e]
        /\ stage[c] \notin {"none", "attached", "queued"}
        /\ stage'[c] \notin {"none", "attached", "queued"}
    BY <2>1, <2>3 DEF Served
  <2>5. answer' \in [Clients -> Verdicts] /\ reply' \in [Clients -> Verdicts]
    BY <1>2 DEF WorkerStep, ReadNothing, Refuse, Submit, Collect, DeadlinePassed,
                Finish, Write, pool, TypeOK, Verdicts
  <2>6. jobs' \in Seq(Clients)
    <3>1. Append(jobs, c) \in Seq(Clients) /\ jobs \in Seq(Clients)
      BY AppendProperties DEF TypeOK
    <3>2. jobs' = jobs \/ jobs' = Append(jobs, c)
      BY <1>2 DEF WorkerStep, ReadNothing, Refuse, Submit, Collect, DeadlinePassed,
                  Finish, pool
    <3> QED
      BY <3>1, <3>2
  <2>7. stage' \in [Clients -> Stages]
    BY <2>2 DEF TypeOK, Stages, Served
  <2>8. TypeOK'
    BY <2>1, <2>5, <2>6, <2>7 DEF TypeOK
  <2>9. Fresh'
    BY <2>1, <2>4 DEF Fresh
  <2>10. \A i \in DOMAIN queue : queue[i] \in Clients
    BY ElementOfSeq, LenProperties DEF TypeOK
  <2>11. Owned'
    BY <2>1, <2>4, <2>10 DEF Owned
  <2>12. \A e \in Clients : stage'[e] \in Served => stage[e] \in Served
    BY <2>1, <2>3
  <2> QED
    BY <2>1, <2>8, <2>9, <2>11, <2>12, NoMoreBusy
<1> QED
  BY <1>1, <1>2

\* A dispatch thread takes a command only when it is free.
LEMMA InvDispatch ==
  ASSUME Inv, Begin \/ \E c \in Clients : End(c)
  PROVE  Inv'
<1> USE DEF Inv
<1>1. UNCHANGED <<client, outcome, acceptor, hold, event, stage, answer, queue, svc>>
  BY DEF Begin, End, callers, accept, serving
<1>2. Fresh' /\ Owned' /\ Busy' = Busy
  BY <1>1 DEF Fresh, Owned, Busy
<1>3. IsFiniteSet(running)
  BY FS_Subset DEF TypeOK
<1>4. CASE Begin
  <2>1. Head(jobs) \in Clients /\ Tail(jobs) \in Seq(Clients)
    BY <1>4, HeadTailProperties DEF Begin, TypeOK
  <2>2. TypeOK'
    BY <1>1, <1>4, <2>1 DEF Begin, TypeOK
  <2>3. Cardinality(running') <= Cardinality(running) + 1 /\ Cardinality(running) \in Nat
    <3>1. Cardinality(running) \in Nat
      BY <1>3, FS_CardinalityType
    <3>2. running' = running \cup {Head(jobs)}
      BY <1>4 DEF Begin
    <3>3. Cardinality(running \cup {Head(jobs)}) =
            IF Head(jobs) \in running THEN Cardinality(running) ELSE Cardinality(running) + 1
      BY <1>3, FS_AddElement
    <3> QED
      BY <3>1, <3>2, <3>3
  <2>4. Cardinality(running') \in Nat
    <3>1. IsFiniteSet(running')
      BY <1>3, <1>4, FS_AddElement DEF Begin
    <3> QED
      BY <3>1, FS_CardinalityType
  <2> QED
    BY <1>2, <1>4, <2>2, <2>3, <2>4 DEF Bounded, Begin
<1>5. ASSUME NEW c \in Clients, End(c)
      PROVE  Inv'
  <2>1. TypeOK'
    BY <1>1, <1>5 DEF End, TypeOK, Verdicts
  <2>2. Cardinality(running') <= Cardinality(running)
    BY <1>3, <1>5, FS_Subset DEF End
  <2>3. Cardinality(running') \in Nat /\ Cardinality(running) \in Nat
    BY <1>3, <1>5, FS_Subset, FS_CardinalityType DEF End
  <2> QED
    BY <1>2, <2>1, <2>2, <2>3 DEF Bounded
<1> QED
  BY <1>4, <1>5

\* With the service everything the service holds is gone.
LEMMA InvControl ==
  ASSUME Inv, Stop \/ Stopped
  PROVE  Inv'
<1> USE DEF Inv
<1>1. CASE Stop
  <2>1. TypeOK' /\ Fresh' /\ Owned'
    BY <1>1 DEF Stop, callers, accept, serving, pool, TypeOK, Fresh, Owned
  <2> QED
    BY <1>1, <2>1, NoMoreBusy DEF Stop, serving, pool
<1>2. CASE Stopped
  <2>1. <<>> \in Seq(Clients) /\ DOMAIN <<>> = {}
    BY EmptySeq
  <2>2. TypeOK'
    BY <1>2, <2>1 DEF Stopped, callers, accept, TypeOK, Stages, All, Verdicts
  <2>3. Fresh'
    BY <1>2 DEF Stopped, callers, Fresh
  <2>4. hold = None
    BY <1>2 DEF Stopped, Owned
  <2>5. Owned'
    BY <1>2, <2>1, <2>4 DEF Stopped, accept, Owned
  <2>6. Busy' = {} /\ running' = {}
    BY <1>2 DEF Stopped, Busy, Served
  <2>7. Bounded'
    BY <2>6, FS_EmptySet DEF Bounded
  <2> QED
    BY <2>2, <2>3, <2>5, <2>7
<1> QED
  BY <1>1, <1>2

\* Inv is inductive.
LEMMA InvInductive ==
  ASSUME Inv, [Next]_vars
  PROVE  Inv'
<1>1. CASE UNCHANGED vars
  <2>1. TypeOK' /\ Fresh' /\ Owned'
    BY <1>1 DEF vars, callers, accept, serving, pool, Inv, TypeOK, Fresh, Owned
  <2> QED
    BY <1>1, <2>1, NoMoreBusy DEF vars, serving, pool, Inv
<1> QED
  BY <1>1, InvClient, InvAccept, InvWorker, InvDispatch, InvControl DEF Next

\* In every behaviour the variables stay in their types.
THEOREM BridgeTypeCorrect == Spec => []TypeOK
<1>1. Inv => TypeOK
  BY DEF Inv
<1> QED
  BY <1>1, InvInit, InvInductive, PTL DEF Spec

\* Every connection has one owner at a time, and the pools keep their size.
THEOREM OneOwnerAlways == Spec => []OneOwner
<1>1. Inv => OneOwner
  BY DEF Inv, Owned, Bounded, OneOwner
<1> QED
  BY <1>1, InvInit, InvInductive, PTL DEF Spec

-----------------------------------------------------------------------------
(* A round trip implements PipePromise.                                    *)

\* The stages a connection may be in once its command has been submitted.
Sent == {"wait", "flush", "gone"}

\* A command is submitted once, and whatever says "ok" of it says so because it
\* has ended with "ok".
Honest ==
  /\ \A i \in DOMAIN jobs : /\ stage[jobs[i]] \in Sent /\ done[jobs[i]] = "none"
                            /\ jobs[i] \notin running
  /\ \A i, j \in DOMAIN jobs : jobs[i] = jobs[j] => i = j
  /\ \A c \in running : stage[c] \in Sent /\ done[c] = "none"
  /\ \A c \in Clients : /\ done[c] # "none" => stage[c] \in Sent
                        /\ reply[c] = "ok" => done[c] = "ok"
                        /\ answer[c] = "ok" => done[c] = "ok"

\* At first no command has been submitted.
LEMMA HonestInit == ASSUME Init PROVE Honest
BY EmptySeq DEF Init, All, Honest

\* A connection that is past its submission stays past it.
LEMMA SentForEver ==
  ASSUME Inv, [Next]_vars, NEW d \in Clients, stage[d] \in Sent
  PROVE  stage'[d] \in Sent
<1> USE DEF Inv, Sent
<1>1. CASE UNCHANGED stage
  BY <1>1
<1>2. ASSUME NEW c \in Clients, Connect(c)
      PROVE  stage'[d] \in Sent
  BY <1>2 DEF Connect, Fresh, TypeOK
<1>3. ASSUME NEW c \in Clients, WorkerStep(c)
      PROVE  stage'[d] \in Sent
  BY <1>3 DEF WorkerStep, ReadNothing, Refuse, Submit, Collect, DeadlinePassed,
              Finish, Write, TypeOK
<1>4. CASE HandOver \/ EventFails
  <2>1. stage' = stage \/ \E v \in {"queued", "gone"} :
          hold \in Clients /\ stage' = [stage EXCEPT ![hold] = v]
    BY <1>4 DEF HandOver, EventFails, Drop, TypeOK
  <2> QED
    BY <2>1 DEF Owned, TypeOK
<1>5. CASE Pop
  <2>1. Head(queue) \in Clients /\ stage[Head(queue)] = "queued"
    BY <1>5, TailOnce DEF Pop, TypeOK, Owned
  <2> QED
    BY <1>5, <2>1 DEF Pop, TypeOK
<1>6. CASE Stopped
  BY <1>6 DEF Stopped
<1>7. CASE Stop \/ Begin \/ (\E c \in Clients : End(c)) \/ NewInstance \/ Listen
  BY <1>1, <1>7 DEF Stop, Begin, End, NewInstance, Listen, serving
<1>8. ASSUME NEW c \in Clients, ClientStep(c)
      PROVE  stage'[d] \in Sent
  BY <1>1, <1>2, <1>8 DEF ClientStep, GiveUp, OpenFail, Send, Leave, Receive, SendFail, serving
<1> QED
  BY <1>1, <1>3, <1>4, <1>5, <1>6, <1>7, <1>8 DEF Next, Accept, vars, serving

\* A step that leaves the dispatch pool and the responses alone keeps Honest.
LEMMA HonestBystander ==
  ASSUME Inv, Honest, [Next]_vars, UNCHANGED <<jobs, running, done, reply>>,
         \A c \in Clients : answer'[c] = "ok" => answer[c] = "ok"
  PROVE  Honest'
<1>1. jobs \in Seq(Clients) /\ running \subseteq Clients
  BY DEF Inv, TypeOK
<1>2. \A i \in DOMAIN jobs : jobs[i] \in Clients
  BY <1>1, ElementOfSeq, LenProperties
<1>3. \A d \in Clients : stage[d] \in Sent => stage'[d] \in Sent
  BY SentForEver
<1> QED
  BY <1>1, <1>2, <1>3 DEF Honest

\* What the workers, the dispatch threads and the others do keeps Honest.
LEMMA HonestInductive ==
  ASSUME Inv, Honest, [Next]_vars
  PROVE  Honest'
<1>1. jobs \in Seq(Clients) /\ running \subseteq Clients
  BY DEF Inv, TypeOK
<1>2. \A i \in DOMAIN jobs : jobs[i] \in Clients
  BY <1>1, ElementOfSeq, LenProperties
<1>3. \A d \in Clients : stage[d] \in Sent => stage'[d] \in Sent
  BY SentForEver
<1>4. CASE \/ UNCHANGED vars \/ Accept \/ EventFails \/ Pop \/ Stop
           \/ \E c \in Clients : ClientStep(c) \/ ReadNothing(c) \/ Finish(c)
  <2>1. UNCHANGED <<jobs, running, done, reply, answer>>
    BY <1>4 DEF vars, Accept, NewInstance, Listen, HandOver, EventFails, Pop, Stop,
       ClientStep, GiveUp, Connect, OpenFail, Send, Leave, Receive, SendFail,
       ReadNothing, Finish, serving, pool
  <2> QED
    BY <2>1, HonestBystander
<1>5. ASSUME NEW c \in Clients, Refuse(c) \/ DeadlinePassed(c)
      PROVE  Honest'
  <2>1. UNCHANGED <<jobs, running, done, reply>> /\ answer' = [answer EXCEPT ![c] = "err"]
    BY <1>5 DEF Refuse, DeadlinePassed, Write, pool
  <2> QED
    BY <2>1, HonestBystander DEF Inv, TypeOK
<1>6. ASSUME NEW c \in Clients, Collect(c)
      PROVE  Honest'
  <2>1. UNCHANGED <<jobs, running, done>>
    BY <1>6 DEF Collect
  <2>2. /\ \A d \in Clients : answer'[d] = IF d = c THEN reply[c] ELSE answer[d]
        /\ \A d \in Clients : reply'[d] = IF d = c THEN "none" ELSE reply[d]
    BY <1>6 DEF Collect, Write, Inv, TypeOK
  <2> QED
    BY <1>1, <1>2, <1>3, <2>1, <2>2 DEF Honest
<1>7. ASSUME NEW c \in Clients, Submit(c)
      PROVE  Honest'
  <2>1. /\ jobs' = Append(jobs, c) /\ UNCHANGED <<running, done, reply, answer>>
        /\ stage[c] \notin Sent /\ stage'[c] \in Sent
    BY <1>7 DEF Submit, Sent, Inv, TypeOK
  <2>2. \A i \in DOMAIN jobs : jobs[i] # c
    BY <2>1 DEF Honest
  <2>3. c \notin running /\ done[c] = "none"
    BY <2>1 DEF Honest
  <2>4. \A i, j \in DOMAIN jobs' : jobs'[i] = jobs'[j] => i = j
    BY <1>1, <2>1, <2>2, AppendOnce DEF Honest
  <2>5. \A i \in DOMAIN jobs' : jobs'[i] = c \/ (i \in DOMAIN jobs /\ jobs'[i] = jobs[i])
    BY <1>1, <2>1, <2>2, AppendOnce DEF Honest
  <2> QED
    BY <1>1, <1>2, <1>3, <2>1, <2>3, <2>4, <2>5 DEF Honest
<1>8. CASE Begin
  <2>1. /\ jobs # <<>> /\ jobs' = Tail(jobs) /\ running' = running \cup {Head(jobs)}
        /\ UNCHANGED <<done, reply, answer, stage>>
    BY <1>8 DEF Begin, serving
  <2>2. /\ 1 \in DOMAIN jobs /\ jobs[1] = Head(jobs)
        /\ \A i \in DOMAIN jobs' : /\ i + 1 \in DOMAIN jobs /\ jobs'[i] = jobs[i + 1]
                                   /\ jobs'[i] # Head(jobs)
        /\ \A i, j \in DOMAIN jobs' : jobs'[i] = jobs'[j] => i = j
    BY <1>1, <2>1, TailOnce DEF Honest
  <2> QED
    BY <2>1, <2>2 DEF Honest
<1>9. ASSUME NEW c \in Clients, End(c)
      PROVE  Honest'
  <2>1. PICK r \in {"ok", "err"} :
          /\ done' = [done EXCEPT ![c] = r]
          /\ reply' = [reply EXCEPT ![c] = IF stage[c] = "wait" THEN r ELSE "none"]
    BY <1>9 DEF End
  <2>2. /\ c \in running /\ running' = running \ {c}
        /\ UNCHANGED <<jobs, stage, answer>>
    BY <1>9 DEF End, serving
  <2>3. /\ \A d \in Clients : done'[d] = IF d = c THEN r ELSE done[d]
        /\ \A d \in Clients : d # c => reply'[d] = reply[d]
        /\ reply'[c] \in {r, "none"}
    BY <2>1 DEF Inv, TypeOK
  <2>4. answer[c] # "ok" /\ stage[c] \in Sent /\ \A i \in DOMAIN jobs : jobs[i] # c
    BY <2>2 DEF Honest
  <2> QED
    BY <1>1, <1>2, <2>2, <2>3, <2>4 DEF Honest
<1>10. CASE Stopped
  <2>1. /\ jobs' = <<>> /\ running' = {} /\ UNCHANGED done
        /\ \A d \in Clients : reply'[d] = "none" /\ answer'[d] = "none"
    BY <1>10 DEF Stopped, All
  <2> QED
    BY <1>3, <2>1, EmptySeq DEF Honest
<1> QED
  BY <1>4, <1>5, <1>6, <1>7, <1>8, <1>9, <1>10 DEF Next, WorkerStep

\* Every step of the service and its clients is a step of the promise or none.
LEMMA PromiseStep ==
  ASSUME Inv, Honest, [Next]_vars
  PROVE  [Promise!Next]_Promise!vars
<1> DEFINE Callers == Clients \ Probes
<1> USE DEF Promise!Next, Promise!vars, Promise!CarryOut, Promise!Tell
<1>1. CASE UNCHANGED <<outcome, done>>
  BY <1>1
<1>2. ASSUME NEW c \in Callers, UNCHANGED done,
             \/ Told(c, "err")
             \/ Told(c, answer[c]) /\ answer[c] # "none"
      PROVE  [Promise!Next]_Promise!vars
  <2>1. PICK v \in {"ok", "err"} : Told(c, v) /\ (v = "ok" => done[c] = "ok")
    BY <1>2 DEF Inv, TypeOK, Verdicts, Honest
  <2>2. CASE outcome[c] # "none"
    BY <1>1, <1>2, <2>1, <2>2 DEF Told
  <2>3. CASE outcome[c] = "none"
    <3>1. outcome' = [outcome EXCEPT ![c] = v]
      BY <2>1, <2>3 DEF Told
    <3>2. [d \in Callers |-> outcome'[d]] = [[d \in Callers |-> outcome[d]] EXCEPT ![c] = v]
      BY <3>1 DEF Inv, TypeOK
    <3> QED
      BY <1>2, <2>1, <2>3, <3>2
  <2> QED
    BY <2>2, <2>3
<1>3. ASSUME NEW c \in Clients, ClientStep(c)
      PROVE  [Promise!Next]_Promise!vars
  <2>1. UNCHANGED done
    BY <1>3 DEF ClientStep, GiveUp, Connect, OpenFail, Send, Leave, Receive, SendFail, pool
  <2>2. CASE c \in Probes
    <3>1. \A d \in Callers : outcome'[d] = outcome[d]
      BY <1>3, <2>2 DEF ClientStep, GiveUp, Connect, OpenFail, Send, Leave, Receive,
                        SendFail, Told, Inv, TypeOK
    <3> QED
      BY <2>1, <3>1
  <2>3. CASE c \notin Probes
    <3>1. CASE GiveUp(c) \/ OpenFail(c) \/ Receive(c) \/ SendFail(c)
      BY <1>2, <2>1, <2>3, <3>1 DEF GiveUp, OpenFail, Receive, SendFail
    <3>2. CASE Connect(c) \/ Send(c) \/ Leave(c)
      BY <1>1, <2>1, <2>3, <3>2 DEF Connect, Send, Leave
    <3> QED
      BY <1>3, <3>1, <3>2 DEF ClientStep
  <2> QED
    BY <2>2, <2>3
<1>4. ASSUME NEW c \in Clients, End(c)
      PROVE  [Promise!Next]_Promise!vars
  <2>1. PICK r \in {"ok", "err"} : done' = [done EXCEPT ![c] = r]
    BY <1>4 DEF End
  <2>2. UNCHANGED outcome /\ done[c] = "none"
    BY <1>4 DEF End, callers, Honest
  <2>3. CASE c \in Probes
    <3>1. \A d \in Callers : done'[d] = done[d]
      BY <2>1, <2>3 DEF Inv, TypeOK
    <3> QED
      BY <2>2, <3>1
  <2>4. CASE c \notin Probes
    <3>1. [d \in Callers |-> done'[d]] = [[d \in Callers |-> done[d]] EXCEPT ![c] = r]
      BY <2>1, <2>4 DEF Inv, TypeOK
    <3> QED
      BY <2>2, <2>4, <3>1
  <2> QED
    BY <2>3, <2>4
<1>5. CASE \/ UNCHANGED vars \/ Accept \/ EventFails \/ Pop \/ Begin \/ Stop \/ Stopped
           \/ \E c \in Clients : WorkerStep(c)
  BY <1>1, <1>5 DEF vars, Accept, NewInstance, Listen, HandOver, EventFails, Pop, Begin,
     Stop, Stopped, WorkerStep, ReadNothing, Refuse, Submit, Collect, DeadlinePassed,
     Finish, callers, pool
<1> QED
  BY <1>3, <1>4, <1>5 DEF Next

\* A round trip over the pipe implements PipePromise: at most one execution, one
\* verdict, and "ok" only for a command carried out with success, however the
\* threads interleave, time out or hang, and wherever the service is stopped.
THEOREM PipeRefinement == Spec => ImplementsPipe
<1>1. Init => Promise!Init
  BY DEF Init, All, Promise!Init
<1>2. Inv /\ Honest /\ [Next]_vars => (Inv /\ Honest)' /\ [Promise!Next]_Promise!vars
  BY InvInductive, HonestInductive, PromiseStep
<1> QED
  BY <1>1, <1>2, InvInit, HonestInit, PTL DEF Spec, ImplementsPipe, Promise!Spec

-----------------------------------------------------------------------------
(* A connection that woke the accept loop is served.                       *)

\* The event is signalled only by a connection to an instance that listens.
Signalled == acceptor = "made" => event = FALSE

LEMMA SignalledInductive ==
  ASSUME Signalled, [Next]_vars PROVE Signalled'
<1> USE DEF Signalled, accept, callers, serving, pool
<1>1. CASE UNCHANGED vars
  BY <1>1 DEF vars
<1>2. ASSUME NEW c \in Clients, ClientStep(c) PROVE Signalled'
  BY <1>2 DEF ClientStep, GiveUp, Connect, OpenFail, Send, Leave, Receive, SendFail
<1>3. ASSUME NEW c \in Clients, WorkerStep(c) \/ End(c) PROVE Signalled'
  BY <1>3 DEF WorkerStep, ReadNothing, Refuse, Submit, Collect, DeadlinePassed, Finish, End
<1>4. CASE Accept \/ EventFails
  BY <1>4 DEF Accept, NewInstance, Listen, HandOver, EventFails
<1>5. CASE Pop \/ Begin \/ Stop \/ Stopped
  BY <1>5 DEF Pop, Begin, Stop, Stopped
<1> QED
  BY <1>1, <1>2, <1>3, <1>4, <1>5 DEF Next

Handed(c) ==
  /\ stage[c] = "attached" /\ event => stage'[c] \in {"attached", "queued"}
  /\ stage[c] = "queued" => stage'[c] \in {"queued", "read"}

\* Only the accept loop and the workers take a connection over from each other.
LEMMA HandedOver ==
  ASSUME Inv, Signalled, [Next]_vars, svc' # "stopped", NEW d \in Clients
  PROVE  Handed(d)
<1> USE DEF Handed, accept, callers, serving, pool
<1>t. stage \in [Clients -> Stages] /\ hold \in Clients \cup {None}
      /\ (stage[d] = "attached") = (hold = d)
  BY DEF Inv, TypeOK, Owned
<1>1. CASE stage' = stage
  BY <1>1
<1>2. ASSUME NEW c \in Clients, stage' = [stage EXCEPT ![c] = stage'[c]],
             stage[c] \notin {"attached", "queued"}
      PROVE  Handed(d)
  BY <1>2, <1>t
<1>3. ASSUME NEW c \in Clients, ClientStep(c) PROVE Handed(d)
  <2>1. CASE Connect(c)
    <3>1. stage[c] = "none" /\ stage' = [stage EXCEPT ![c] = "attached"]
      BY <2>1 DEF Connect, Inv, Fresh
    <3> QED
      BY <3>1, <1>t
  <2>2. CASE GiveUp(c) \/ OpenFail(c) \/ Send(c) \/ Leave(c) \/ Receive(c) \/ SendFail(c)
    BY <2>2, <1>1 DEF GiveUp, OpenFail, Send, Leave, Receive, SendFail
  <2> QED
    BY <1>3, <2>1, <2>2 DEF ClientStep
<1>4. ASSUME NEW c \in Clients, WorkerStep(c) PROVE Handed(d)
  <2>1. /\ stage[c] \notin {"attached", "queued"}
        /\ \E v \in {"gone", "flush", "wait"} : stage' = [stage EXCEPT ![c] = v]
    BY <1>4 DEF WorkerStep, ReadNothing, Refuse, Submit, Collect, DeadlinePassed, Finish, Write
  <2> QED
    BY <2>1, <1>t
<1>5. CASE HandOver
  <2>1. stage' = [stage EXCEPT ![hold] = "queued"] /\ hold \in Clients
    BY <1>5, <1>t DEF HandOver
  <2> QED
    BY <2>1, <1>t
<1>6. CASE EventFails
  <2>1. event = FALSE /\ (hold = None \/ stage' = [stage EXCEPT ![hold] = "gone"])
        /\ (hold = None => stage' = stage)
    BY <1>6 DEF EventFails, Drop, Signalled
  <2> QED
    BY <2>1, <1>t
<1>7. CASE Pop
  <2>1. Head(queue) \in Clients /\ stage[Head(queue)] = "queued"
    <3>1. queue \in Seq(Clients) /\ queue # <<>> /\ (\A i \in DOMAIN queue : stage[queue[i]] = "queued")
          /\ \A i, j \in DOMAIN queue : queue[i] = queue[j] => i = j
      BY <1>7 DEF Pop, Inv, TypeOK, Owned
    <3> QED
      BY <3>1, TailOnce
  <2>2. stage' = [stage EXCEPT ![Head(queue)] = "read"]
    BY <1>7 DEF Pop
  <2> QED
    BY <2>1, <2>2, <1>t
<1>8. CASE \/ UNCHANGED vars \/ NewInstance \/ Listen \/ Begin \/ Stop
           \/ \E c \in Clients : End(c)
  BY <1>8, <1>1 DEF vars, NewInstance, Listen, Begin, Stop, End
<1>9. ~Stopped
  BY DEF Stopped
<1> QED
  BY <1>3, <1>4, <1>5, <1>6, <1>7, <1>8, <1>9 DEF Next, Accept

\* A connection that has signalled the event is never orphaned while the service
\* runs or stops: the acceptor keeps it or hands it to the workers, and from the
\* channel it goes to a worker.
THEOREM ConnectionsAreKept == Spec => NeverOrphaned
<1>1. Init => Signalled
  BY DEF Init, Signalled
<1>2. Inv /\ Signalled /\ [Next]_vars
        => [\A c \in Clients : svc' # "stopped" =>
             /\ stage[c] = "attached" /\ event => stage'[c] \in {"attached", "queued"}
             /\ stage[c] = "queued" => stage'[c] \in {"queued", "read"}]_vars
  BY HandedOver DEF Handed
<1> QED
  BY <1>1, <1>2, InvInit, InvInductive, SignalledInductive, PTL DEF Spec, NeverOrphaned

=============================================================================
