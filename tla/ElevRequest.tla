------------------------------ MODULE ElevRequest ------------------------------
(***************************************************************************)
(* How the app has a privileged command carried out: the ladder of         *)
(* elev_bridge.rs (bridge pipe, pipe retry, scheduled task, UAC prompt)    *)
(* and the helper process of elevated.rs that serves the last two rungs    *)
(* through files in a shared directory.                                    *)
(*                                                                         *)
(* A call is identified with its request id and its nonce.  Commands are   *)
(* abstract: carrying one out succeeds or fails.  Time passes in ticks of  *)
(* 15 seconds.  The caller is not an administrator (the direct dispatch of *)
(* an elevated process is not part of the ladder).                         *)
(***************************************************************************)
EXTENDS Integers, FiniteSets

CONSTANTS
  Calls,      \* the calls of run_elevated, each made once
  NoPrompt,   \* those made through run_elevated_no_prompt
  Timeout,    \* timeout_for_cmd of each call, in ticks
  Pipe,       \* what the pipe may do: "ok", "lost", "down"
  TaskInit,   \* the states the scheduled task may be in at first
  BreakerTripThreshold,   \* 3 in the code
  MaxKills,   \* bound: helpers killed
  None        \* no call

ASSUME ElevAssumption ==
  /\ IsFiniteSet(Calls) /\ None \notin Calls
  /\ NoPrompt \subseteq Calls
  /\ Timeout \in [Calls -> Nat \ {0}]
  /\ Pipe \subseteq {"ok", "lost", "down"}
  /\ TaskInit \subseteq {"good", "wrong", "missing"}
  /\ BreakerTripThreshold \in Nat \ {0}
  /\ MaxKills \in Nat

Fresh == 2               \* MAX_COMMAND_AGE_MS, inclusive
UacBudget == 2           \* the 35 s of the pool around the prompt
HealBudget == 3          \* its 30 s around the heal, which begin after the
                         \* payload was created: it is stale when they end

Task == <<None, 0>>      \* the one instance of the scheduled task
Uac(c, k) == <<c, k>>    \* the helper of the k-th prompt for call c
Helpers == {Task} \cup (Calls \X {1, 2})

VARIABLES
  pc,        \* per call: the rung it is on
  left,      \* per call: ticks until its current wait gives up
  lock,      \* ELEV_REQUEST_LOCK: the call that holds it
  file,      \* per call: is its command file in the directory?
  age,       \* per call: ticks since its payload was created
  result,    \* per call: its result file
  helper,    \* per helper process: what it is doing
  disk,      \* nonces.json
  task,      \* the registration of the scheduled task
  healTried, \* was a heal attempted within HEAL_COOLDOWN?  "hung": it still is
  declined,  \* UAC_DECLINED
  prompts,   \* prompts still open though their call has given up
  streak,    \* ELEVATED_BROKEN_STREAK
  filed,     \* history: how often helpers have dispatched each call
  served,    \* history: calls carried out with success at least once
  misses,    \* history: calls in a row that found neither pipe nor task
  kills

client  == <<pc, left, lock>>
dir     == <<file, age, result>>
infra   == <<task, healTried, declined, prompts>>
history == <<filed, served, misses, kills>>
vars == <<client, dir, helper, disk, infra, streak, history>>

Final == {"ok", "err"}
Phases == {"idle", "pipe", "retry", "write", "run", "heal", "rerun", "uac",
           "ask1", "wait1", "poll", "rewrite", "ask2", "wait2"} \cup Final
MaxLeft == UacBudget + CHOOSE t \in {Timeout[c] : c \in Calls} :
                         \A c \in Calls : Timeout[c] <= t

Off == [state |-> "off", todo |-> {}, cur |-> None, loaded |-> FALSE, mem |-> {}]

Init ==
  /\ pc = [c \in Calls |-> "idle"] /\ left = [c \in Calls |-> 0] /\ lock = None
  /\ file = [c \in Calls |-> FALSE] /\ age = [c \in Calls |-> 0]
  /\ result = [c \in Calls |-> "none"]
  /\ helper = [h \in Helpers |-> Off] /\ disk = {}
  /\ task \in TaskInit /\ healTried = "no"
  /\ declined \in BOOLEAN   \* perhaps since an earlier call of the session
  /\ prompts = {}
  /\ streak = 0
  /\ filed = [c \in Calls |-> 0]
  /\ served = {} /\ misses = 0 /\ kills = 0

Goto(c, p) == pc' = [pc EXCEPT ![c] = p]
Unlock == lock' = None

-----------------------------------------------------------------------------
(* The calling side: run_elevated_impl.                                    *)

Acquire(c) ==
  /\ pc[c] = "idle" /\ lock = None
  /\ lock' = c /\ Goto(c, "pipe")
  /\ UNCHANGED <<left, dir, helper, disk, infra, streak, history>>

\* The pipe answers, with success.
PipeOk(c) ==
  /\ pc[c] \in {"pipe", "retry"} /\ "ok" \in Pipe
  /\ served' = served \cup {c}
  /\ streak' = 0 /\ misses' = 0
  /\ Goto(c, "ok") /\ Unlock
  /\ UNCHANGED <<left, dir, helper, disk, infra, filed, kills>>

\* It does not: the service is down or fails the command, or carries it out and
\* the answer is late or unusable ("lost"), so that it may be done again.
\* One retry, then the breaker, then the task.
PipeFail(c) ==
  /\ pc[c] \in {"pipe", "retry"}
  /\ \/ "lost" \in Pipe /\ served' = served \cup {c}
     \/ "down" \in Pipe /\ UNCHANGED served
  /\ IF pc[c] = "pipe"
       THEN Goto(c, "retry") /\ UNCHANGED lock
       ELSE IF c \in NoPrompt /\ streak >= BreakerTripThreshold
              THEN Goto(c, "err") /\ Unlock
              ELSE Goto(c, "write") /\ UNCHANGED lock
  /\ UNCHANGED <<left, dir, helper, disk, infra, streak, filed, misses, kills>>

\* The payload is created, signed and put in place by a rename, unless the
\* key or the disk says no.
WriteCommand(c) ==
  /\ pc[c] = "write"
  /\ \/ /\ file' = [file EXCEPT ![c] = TRUE] /\ age' = [age EXCEPT ![c] = 0]
        /\ result' = [result EXCEPT ![c] = "none"]
        /\ Goto(c, "run") /\ UNCHANGED lock
     \/ Goto(c, "err") /\ Unlock /\ UNCHANGED dir
  /\ UNCHANGED <<left, helper, disk, infra, streak, history>>

\* schtasks /run: a second instance is ignored (MultipleInstancesPolicy
\* IgnoreNew) and a task with the wrong command starts something else; all
\* three count as success.
RunTask ==
  /\ task # "missing"
  /\ IF task = "good" /\ helper[Task].state = "off"
       THEN helper' = [helper EXCEPT ![Task] = [Off EXCEPT !.state = "start"]]
       ELSE UNCHANGED helper

StartPoll(c) == Goto(c, "poll") /\ left' = [left EXCEPT ![c] = Timeout[c]]

RunHoldingLock(c) ==
  /\ pc[c] = "run" /\ UNCHANGED lock
  /\ \/ RunTask /\ StartPoll(c)
     \/ Goto(c, "heal") /\ UNCHANGED helper
        /\ left' = [left EXCEPT ![c] = HealBudget]
  /\ UNCHANGED <<dir, disk, infra, streak, history>>

\* The lock is released before anything is awaited.
Run(c) ==
  /\ pc[c] = "run" /\ Unlock
  /\ \/ RunTask /\ StartPoll(c)
     \/ Goto(c, "heal") /\ UNCHANGED helper
        /\ left' = [left EXCEPT ![c] = HealBudget]
  /\ UNCHANGED <<dir, disk, infra, streak, history>>

\* No rung is left without a prompt: the command is withdrawn.
NoPath(c) ==
  /\ IF c \in NoPrompt
       THEN /\ file' = [file EXCEPT ![c] = FALSE]
            /\ misses' = misses + 1 /\ Goto(c, "err")
       ELSE Goto(c, "uac") /\ UNCHANGED <<file, misses>>
  /\ UNCHANGED <<left, lock, helper>>

\* ensure_task_correct_path.  Within the cooldown it claims AlreadyCorrect
\* unseen.  A task that is wrong, or that the query does not show, is deleted
\* before the right one is created, which may fail.
Heal(c) ==
  /\ pc[c] = "heal"
  /\ healTried' = IF healTried = "no" THEN "yes" ELSE healTried
  /\ \/ /\ healTried # "no" \/ task = "good"
        /\ Goto(c, "rerun") /\ UNCHANGED <<task, left, lock, helper, file, misses>>
     \/ /\ healTried = "no" /\ task' = "good"
        /\ Goto(c, "rerun") /\ UNCHANGED <<left, lock, helper, file, misses>>
     \/ /\ healTried = "no" /\ task' \in {task, "missing"}
        /\ NoPath(c)
  /\ UNCHANGED <<age, result, disk, declined, prompts, streak, filed,
                 served, kills>>

\* The heal outlives its budget: the call fails and leaves the command file
\* behind, and the heal goes on without it.
HealTimeout(c) ==
  /\ pc[c] = "heal" /\ left[c] = 0 /\ healTried = "no"
  /\ healTried' = "hung" /\ Goto(c, "err")
  /\ UNCHANGED <<left, lock, dir, helper, disk, task, declined, prompts, streak,
                 history>>

LateHeal ==
  /\ healTried = "hung" /\ healTried' = "yes"
  /\ task' \in {task, "good", "missing"}
  /\ UNCHANGED <<client, dir, helper, disk, declined, prompts, streak, history>>

\* A run that succeeds only now is counted as a failure of the path.
Rerun(c) ==
  /\ pc[c] = "rerun"
  /\ \/ /\ RunTask /\ StartPoll(c)
        /\ streak' = streak + 1
        /\ UNCHANGED <<lock, file, misses>>
     \/ NoPath(c) /\ UNCHANGED streak
  /\ UNCHANGED <<age, result, disk, infra, filed, served, kills>>

-----------------------------------------------------------------------------
(* The UAC prompt: launch_elevated_via_uac, on a pool thread with a budget. *)

Round(c) == IF pc[c] \in {"uac", "ask1", "wait1"} THEN 1 ELSE 2

Withdraw(c) == file' = [file EXCEPT ![c] = FALSE] /\ Goto(c, "err")

\* A prompt declined earlier is not repeated.
Ask(c) ==
  /\ pc[c] \in {"uac", "rewrite"}
  /\ IF declined
       THEN Withdraw(c) /\ UNCHANGED left
       ELSE /\ Goto(c, IF pc[c] = "uac" THEN "ask1" ELSE "ask2")
            /\ left' = [left EXCEPT ![c] = UacBudget]
            /\ UNCHANGED file
  /\ UNCHANGED <<lock, age, result, helper, disk, infra, streak, history>>

Launch(h) == helper' = [helper EXCEPT ![h] = [Off EXCEPT !.state = "start"]]

Accept(c) ==
  /\ pc[c] \in {"ask1", "ask2"}
  /\ Launch(Uac(c, Round(c)))
  /\ Goto(c, IF Round(c) = 1 THEN "wait1" ELSE "wait2")
  /\ UNCHANGED <<left, lock, dir, disk, infra, streak, history>>

\* The user declines, which is remembered, or the launch fails.
Decline(c) ==
  /\ pc[c] \in {"ask1", "ask2"}
  /\ declined' \in {TRUE, declined} /\ Withdraw(c)
  /\ UNCHANGED <<left, lock, age, result, helper, disk, task, healTried,
                 prompts, streak, history>>

\* The budget is used up with the prompt on screen: the call fails and leaves
\* both the prompt and the command file behind.
Abandon(c) ==
  /\ pc[c] \in {"ask1", "ask2"} /\ left[c] = 0
  /\ prompts' = prompts \cup {Uac(c, Round(c))} /\ Goto(c, "err")
  /\ UNCHANGED <<left, lock, dir, helper, disk, task, healTried, declined,
                 streak, history>>

LateAnswer(h) ==
  /\ h \in prompts /\ prompts' = prompts \ {h}
  /\ \/ Launch(h) /\ UNCHANGED declined
     \/ declined' \in {TRUE, declined} /\ UNCHANGED helper
  /\ UNCHANGED <<client, dir, disk, task, healTried, streak, history>>

\* The caller's turn after the helper: it polls, with the failure counted; or,
\* the second time, looks for the result at once.
Waited(c) ==
  /\ pc[c] = "wait1"
  /\ helper[Uac(c, 1)].state = "off" \/ left[c] = 0
  /\ streak' = streak + 1 /\ StartPoll(c)
  /\ UNCHANGED <<lock, dir, helper, disk, infra, history>>

WaitFailed(c) ==
  /\ pc[c] \in {"wait1", "wait2"} /\ left[c] = 0
  /\ Goto(c, "err")
  /\ UNCHANGED <<left, lock, dir, helper, disk, infra, streak, history>>

WaitedInVain(c) ==
  /\ pc[c] = "wait2" /\ result[c] = "none"
  /\ helper[Uac(c, 2)].state = "off" \/ left[c] = 0
  /\ Goto(c, "err")
  /\ UNCHANGED <<left, lock, dir, helper, disk, infra, streak, history>>

-----------------------------------------------------------------------------
(* The result.                                                             *)

\* A result without a signature is refused; only a polled success closes the
\* breaker.
TakeAnyResult(c) ==
  /\ \/ pc[c] = "poll"
     \/ pc[c] = "wait2" /\ (helper[Uac(c, 2)].state = "off" \/ left[c] = 0)
  /\ result[c] # "none"
  /\ Goto(c, IF result[c] \in {"ok", "unsigned"} THEN "ok" ELSE "err")
  /\ IF pc[c] = "poll" /\ result[c] = "ok"
       THEN streak' = 0 /\ misses' = 0
       ELSE UNCHANGED <<streak, misses>>
  /\ result' = [result EXCEPT ![c] = "none"]
  /\ file' = [file EXCEPT ![c] = FALSE]
  /\ UNCHANGED <<left, lock, age, helper, disk, infra, filed, served, kills>>

TakeResult(c) ==
  /\ \/ pc[c] = "poll"
     \/ pc[c] = "wait2" /\ (helper[Uac(c, 2)].state = "off" \/ left[c] = 0)
  /\ result[c] # "none"
  /\ Goto(c, IF result[c] = "ok" THEN "ok" ELSE "err")
  /\ IF pc[c] = "poll" /\ result[c] = "ok"
       THEN streak' = 0 /\ misses' = 0
       ELSE UNCHANGED <<streak, misses>>
  /\ result' = [result EXCEPT ![c] = "none"]
  /\ file' = [file EXCEPT ![c] = FALSE]
  /\ UNCHANGED <<left, lock, age, helper, disk, infra, filed, served, kills>>

\* Out of time.  A call that may not prompt withdraws the command; another
\* writes the same payload again, in case it was consumed, and prompts.
PollTimeoutLeaving(c) ==
  /\ pc[c] = "poll" /\ left[c] = 0
  /\ IF c \in NoPrompt
       THEN Goto(c, "err") /\ UNCHANGED file
       ELSE Goto(c, "rewrite") /\ file' = [file EXCEPT ![c] = TRUE]
  /\ UNCHANGED <<left, lock, age, result, helper, disk, infra, streak, history>>

PollTimeout(c) ==
  /\ pc[c] = "poll" /\ left[c] = 0
  /\ IF c \in NoPrompt
       THEN Withdraw(c)
       ELSE Goto(c, "rewrite") /\ file' = [file EXCEPT ![c] = TRUE]
  /\ UNCHANGED <<left, lock, age, result, helper, disk, infra, streak, history>>

-----------------------------------------------------------------------------
(* The helper process: run, process_pending and the nonce store.           *)

\* select_all_pending_commands: the task drains whatever has no result yet, a
\* prompted helper serves its own call.  With nothing to do it leaves an
\* unsigned result and exits.
Pending == {c \in Calls : file[c] /\ result[c] = "none"}

List(h) ==
  /\ helper[h].state = "start"
  /\ LET own == h[1]
         todo == IF h = Task THEN Pending ELSE {c \in {own} : file[c]}
     IN IF todo # {}
          THEN /\ helper' = [helper EXCEPT ![h].state = "work", ![h].todo = todo]
               /\ UNCHANGED result
          ELSE /\ helper' = [helper EXCEPT ![h] = Off]
               /\ result' = IF h = Task THEN result
                                        ELSE [result EXCEPT ![own] = "unsigned"]
  /\ UNCHANGED <<client, file, age, disk, infra, streak, history>>

\* process_pending up to the dispatch.  A command is refused that is gone or
\* stale, or when the key cannot be read.  The first verified command loads the
\* nonce store; the store is written back at every third nonce.
AnyAge(c) == TRUE
IsFresh(c) == age[c] <= Fresh

Seen(h) == IF helper[h].loaded THEN helper[h].mem ELSE disk

Refuse(h, c) ==
  /\ helper' = [helper EXCEPT ![h].todo = @ \ {c}]
  /\ result' = [result EXCEPT ![c] = "err"]
  /\ UNCHANGED <<disk, filed>>

Take(h, c) ==
  /\ helper[h].state = "work" /\ helper[h].cur = None /\ c \in helper[h].todo
  /\ file' = [file EXCEPT ![c] = FALSE]
  /\ \/ Refuse(h, c)
     \/ /\ file[c] /\ IsFresh(c) /\ c \in Seen(h)
        /\ helper' = [helper EXCEPT ![h].todo = @ \ {c},
                                    ![h].loaded = TRUE, ![h].mem = Seen(h)]
        /\ result' = [result EXCEPT ![c] = "err"]
        /\ UNCHANGED <<disk, filed>>
     \/ /\ file[c] /\ IsFresh(c) /\ c \notin Seen(h)
        /\ LET mem == Seen(h) \cup {c} IN
             /\ helper' = [helper EXCEPT ![h].todo = @ \ {c}, ![h].cur = c,
                                         ![h].loaded = TRUE, ![h].mem = mem]
             /\ disk' = IF Cardinality(mem) % 3 = 0 THEN mem ELSE disk
        /\ filed' = [filed EXCEPT ![c] = @ + 1]
        /\ result' = [result EXCEPT ![c] = "none"]
  /\ UNCHANGED <<client, age, infra, streak, served, misses, kills>>

\* The dispatched command ends and its signed result is put in place.
Answer(h) ==
  /\ helper[h].cur # None
  /\ LET c == helper[h].cur IN
       \/ result' = [result EXCEPT ![c] = "ok"] /\ served' = served \cup {c}
       \/ result' = [result EXCEPT ![c] = "err"] /\ UNCHANGED served
  /\ helper' = [helper EXCEPT ![h].cur = None]
  /\ UNCHANGED <<client, file, age, disk, infra, streak, filed, misses, kills>>

\* The batch is done: the nonces are written over whatever is there.
Exit(h) ==
  /\ helper[h].state = "work" /\ helper[h].todo = {} /\ helper[h].cur = None
  /\ disk' = IF helper[h].loaded THEN helper[h].mem ELSE disk
  /\ helper' = [helper EXCEPT ![h] = Off]
  /\ UNCHANGED <<client, dir, infra, streak, history>>

\* The helper crashes, or the task's ExecutionTimeLimit ends it.
Kill(h) ==
  /\ helper[h].state # "off" /\ kills < MaxKills
  /\ kills' = kills + 1
  /\ helper' = [helper EXCEPT ![h] = Off]
  /\ UNCHANGED <<client, dir, disk, infra, streak, filed, served, misses>>

-----------------------------------------------------------------------------

InWait(c) == pc[c] \in {"heal", "poll", "ask1", "wait1", "ask2", "wait2"}
Waiting(c) == pc[c] \in {"heal", "poll", "ask1", "wait1", "ask2", "wait2"} /\ left[c] > 0

Tick ==
  /\ \E c \in Calls : Waiting(c)
  /\ left' = [c \in Calls |-> IF Waiting(c) THEN left[c] - 1 ELSE left[c]]
  /\ age' = [c \in Calls |-> IF age[c] <= Fresh THEN age[c] + 1 ELSE age[c]]
  /\ UNCHANGED <<pc, lock, file, result, helper, disk, infra, streak, history>>

Step(c) ==
  \/ PipeOk(c) \/ PipeFail(c) \/ WriteCommand(c) \/ Run(c)
  \/ Heal(c) \/ HealTimeout(c) \/ Rerun(c)
  \/ Ask(c) \/ Abandon(c) \/ Waited(c) \/ WaitFailed(c) \/ WaitedInVain(c)
  \/ TakeResult(c) \/ PollTimeout(c)

Serve(h) == List(h) \/ Answer(h) \/ Exit(h) \/ \E c \in Calls : Take(h, c)

Next ==
  \/ \E c \in Calls : Acquire(c) \/ Step(c) \/ Accept(c) \/ Decline(c)
  \/ \E h \in Helpers : Serve(h) \/ Kill(h) \/ LateAnswer(h)
  \/ LateHeal \/ Tick

\* Fair: the callers' tasks are polled, the lock is handed out and time passes.
\* The helpers, the user and the pipe owe nothing.  A call takes finitely many
\* steps, so that fairness of all calls together is as good as of each.
Fairness ==
  /\ WF_vars(\E c \in Calls : Acquire(c) \/ Step(c))
  /\ WF_vars(Tick)

Spec == Init /\ [][Next]_vars
FairSpec == Spec /\ Fairness

-----------------------------------------------------------------------------
(* Properties.                                                             *)

TypeOK ==
  /\ pc \in [Calls -> Phases] /\ left \in [Calls -> 0..MaxLeft]
  /\ lock \in Calls \cup {None}
  /\ file \in [Calls -> BOOLEAN] /\ age \in [Calls -> 0..(Fresh + 1)]
  /\ result \in [Calls -> {"none", "ok", "err", "unsigned"}]
  /\ \A h \in Helpers :
       /\ helper[h].state \in {"off", "start", "work"}
       /\ helper[h].todo \subseteq Calls /\ helper[h].mem \subseteq Calls
       /\ helper[h].cur \in Calls \cup {None} /\ helper[h].loaded \in BOOLEAN
  /\ disk \subseteq Calls
  /\ task \in {"good", "wrong", "missing"}
  /\ healTried \in {"no", "hung", "yes"} /\ declined \in BOOLEAN
  /\ prompts \subseteq Helpers \ {Task}
  /\ streak \in 0..(2 * Cardinality(Calls))
  /\ filed \in [Calls -> 0..3]
  /\ served \subseteq Calls /\ misses \in 0..Cardinality(Calls)
  /\ kills \in 0..MaxKills

\* A call that reports success was carried out with success: no stale, foreign
\* or unsigned result is ever taken for one.
OkMeansServed == \A c \in Calls : pc[c] = "ok" => c \in served

\* A command whose timeout exceeds the freshness window is dispatched from its
\* file at most once: the payload written again after the timeout is stale.
SlowAtMostOnce == \A c \in Calls : Timeout[c] > Fresh => filed[c] <= 1

\* Once a call that may not prompt has reported failure, no helper begins to
\* carry it out: on every way out its command file is gone or too old.
GivenUpStaysUndone ==
  [][\A c \in NoPrompt : pc[c] = "err" => filed'[c] = filed[c]]_vars

\* Every call returns, whatever pipe, task, helpers and user do.
EveryCallReturns == <>(\A c \in Calls : pc[c] \in Final)

\* The nonce makes a request count once (elevated.rs, process_pending).
NonceCountsOnce == \A c \in Calls : filed[c] <= 1

\* After BREAKER_TRIP_THRESHOLD calls in a row that found no path the circuit
\* is open (elev_bridge.rs, the comment on the breaker).
BreakerOpens == misses >= BreakerTripThreshold => streak >= BreakerTripThreshold

=============================================================================
