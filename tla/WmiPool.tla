-------------------------------- MODULE WmiPool --------------------------------
(***************************************************************************)
(* The blocking pool (util/fixed_pool.rs), the WMI connections its threads *)
(* keep (hw/wmi_cache.rs), the retries of a query (util/retry.rs) and the  *)
(* resume from sleep that makes the connections stale.                     *)
(***************************************************************************)
EXTENDS Sequences, FiniteSets, Integers

CONSTANTS
  PoolWorkers, PoolCallers,
  MaxInFlight,    \* Semaphore of slots()
  MaxResumes,     \* bound on resumes from sleep
  MaxWmiFaults    \* bound on failed queries and on jobs that hang or panic

ASSUME WmiPoolAssumption ==
  /\ MaxInFlight \in Nat \ {0} /\ MaxResumes \in Nat /\ MaxWmiFaults \in Nat
  /\ IsFiniteSet(PoolWorkers) /\ IsFiniteSet(PoolCallers)

MaxRetries == 3
NoConn == -1

VARIABLES
  poolQueue,     \* jobs sent, by caller
  waiting,       \* callers in recv_timeout, each with its permit
  worker,        \* what a thread does, for whom, and which attempt it is at
  conn,          \* WMI_CACHE: a thread's connection, by the resumes before it was opened
  seenGeneration,\* WMI_CACHE_GENERATION of a thread
  generation,    \* WMI_INVALIDATION_GENERATION
  askedSince,    \* history: the generation when the attempt began
  resumes,       \* how often the machine woke up; the listener hears of it later
  wmiFaults

poolVars == <<poolQueue, waiting, worker, conn, seenGeneration, generation, askedSince,
              resumes, wmiFaults>>

Idling == [at |-> "idle", caller |-> "nobody", attempt |-> 0]
InFlight == Cardinality(waiting)

WorkerStates == [at : {"idle", "attempt", "query", "hung", "gone"},
                 caller : PoolCallers \cup {"nobody"}, attempt : 0..MaxRetries]
PoolTypeOK ==
  /\ poolQueue \in Seq(PoolCallers) /\ waiting \subseteq PoolCallers
  /\ worker \in [PoolWorkers -> WorkerStates]
  /\ conn \in [PoolWorkers -> {NoConn} \cup 0..MaxResumes]
  /\ seenGeneration \in [PoolWorkers -> 0..MaxResumes]
  /\ askedSince \in [PoolWorkers -> 0..MaxResumes]
  /\ generation \in 0..MaxResumes /\ resumes \in 0..MaxResumes
  /\ wmiFaults \in 0..MaxWmiFaults

PoolInit ==
  /\ poolQueue = <<>> /\ waiting = {} /\ worker = [w \in PoolWorkers |-> Idling]
  /\ conn = [w \in PoolWorkers |-> NoConn]
  /\ seenGeneration = [w \in PoolWorkers |-> 0] /\ generation = 0
  /\ askedSince = [w \in PoolWorkers |-> 0] /\ resumes = 0 /\ wmiFaults = 0

QueryFault == wmiFaults < MaxWmiFaults /\ wmiFaults' = wmiFaults + 1
Cache == <<conn, seenGeneration, generation, askedSince, resumes>>

\* run_blocking: a permit or an error at once; the job is queued and waited for. With no
\* thread left the channel is closed, the job is dropped and so is the wait.
Submit(c) ==
  /\ c \notin waiting /\ InFlight < MaxInFlight
  /\ \E w \in PoolWorkers : worker[w].at # "gone"
  /\ poolQueue' = Append(poolQueue, c) /\ waiting' = waiting \cup {c}
  /\ UNCHANGED <<worker, Cache, wmiFaults>>

\* recv_timeout is over: the permit comes back, the job stays where it is.
GiveUpOnJob(c) ==
  /\ c \in waiting /\ QueryFault /\ waiting' = waiting \ {c}
  /\ UNCHANGED <<poolQueue, worker, Cache>>

TakeJob(w) ==
  /\ worker[w].at = "idle" /\ poolQueue # <<>>
  /\ worker' = [worker EXCEPT ![w] = [at |-> "attempt", caller |-> Head(poolQueue), attempt |-> 0]]
  /\ poolQueue' = Tail(poolQueue)
  /\ UNCHANGED <<waiting, Cache, wmiFaults>>

\* An answer for a caller that has gone finds no receiver.
JobEnds(w, at) ==
  /\ worker' = [worker EXCEPT ![w] = [Idling EXCEPT !.at = at]]
  /\ waiting' = IF at = "hung" THEN waiting ELSE waiting \ {worker[w].caller}
  /\ UNCHANGED poolQueue

\* reset_if_invalidated, then the connection that is kept or a new one.
Current(w) == IF seenGeneration[w] = generation THEN conn[w] ELSE NoConn
AttemptOf(w, known) ==
  /\ worker[w].at = "attempt"
  /\ seenGeneration' = [seenGeneration EXCEPT ![w] = generation]
  /\ askedSince' = [askedSince EXCEPT ![w] = generation]
  /\ conn' = [conn EXCEPT ![w] = IF known = NoConn THEN resumes ELSE known]
  /\ worker' = [worker EXCEPT ![w].at = "query"]
  /\ UNCHANGED <<poolQueue, waiting, generation, resumes, wmiFaults>>
\* Mutant: the reset stands before the retries, not in them.
AttemptResetOnce(w) == AttemptOf(w, IF worker[w].attempt = 0 THEN Current(w) ELSE conn[w])
Attempt(w) == AttemptOf(w, Current(w))

\* WmiThreadCache::init fails: the attempt is over, nothing is kept.
CannotOpen(w) ==
  /\ worker[w].at = "attempt" /\ Current(w) = NoConn /\ QueryFault
  /\ seenGeneration' = [seenGeneration EXCEPT ![w] = generation]
  /\ conn' = [conn EXCEPT ![w] = NoConn]
  /\ IF worker[w].attempt < MaxRetries
     THEN worker' = [worker EXCEPT ![w].attempt = @ + 1] /\ UNCHANGED <<poolQueue, waiting>>
     ELSE JobEnds(w, "idle")
  /\ UNCHANGED <<generation, askedSince, resumes>>

\* The query is answered, or refused for good (access denied, no such class).
QueryAnswered(w) ==
  /\ worker[w].at = "query" /\ JobEnds(w, "idle")
  /\ UNCHANGED <<Cache, wmiFaults>>

\* is_connection_error: what is known to be dead goes, another error keeps the connection.
Dropped(w) == IF conn[w] < resumes THEN {NoConn} ELSE {NoConn, conn[w]}

\* It fails: after a pause once more, up to four times; then is_connection_error drops
\* the connection. One opened before the machine slept fails without being at fault.
QueryFails(w) ==
  /\ worker[w].at = "query"
  /\ IF conn[w] < resumes THEN UNCHANGED wmiFaults ELSE QueryFault
  /\ IF worker[w].attempt < MaxRetries
     THEN /\ worker' = [worker EXCEPT ![w].at = "attempt", ![w].attempt = @ + 1]
          /\ UNCHANGED <<poolQueue, waiting, conn>>
     ELSE JobEnds(w, "idle") /\ \E left \in Dropped(w) : conn' = [conn EXCEPT ![w] = left]
  /\ UNCHANGED <<seenGeneration, generation, askedSince, resumes>>

\* A query that never returns keeps its thread; a job that panics takes it away.
JobHangs(w) ==
  /\ worker[w].at = "query" /\ QueryFault /\ \E at \in {"hung", "gone"} : JobEnds(w, at)
  /\ UNCHANGED Cache

WakesUp ==
  /\ resumes < MaxResumes /\ resumes' = resumes + 1
  /\ UNCHANGED <<poolQueue, waiting, worker, conn, seenGeneration, generation, askedSince,
                 wmiFaults>>
\* on_resume in the power listener's thread.
Invalidate ==
  /\ generation < resumes /\ generation' = generation + 1
  /\ UNCHANGED <<poolQueue, waiting, worker, conn, seenGeneration, askedSince, resumes,
                 wmiFaults>>

WorkerStep(w) == TakeJob(w) \/ Attempt(w) \/ CannotOpen(w) \/ QueryAnswered(w) \/ QueryFails(w)
PoolNext ==
  \/ \E c \in PoolCallers : Submit(c) \/ GiveUpOnJob(c)
  \/ \E w \in PoolWorkers : WorkerStep(w) \/ JobHangs(w)
  \/ WakesUp \/ Invalidate

PoolSpec == PoolInit /\ [][PoolNext]_poolVars

-----------------------------------------------------------------------------
(* Properties.                                                             *)

\* An attempt that begins after the listener has told of the resume is not made on a
\* connection from before it, on no thread and at no retry (reset_if_invalidated).
NoStaleQuery == \A w \in PoolWorkers : worker[w].at = "query" => conn[w] >= askedSince[w]
================================================================================
