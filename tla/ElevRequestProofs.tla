--------------------------- MODULE ElevRequestProofs ---------------------------
(***************************************************************************)
(* Proofs about the ladder of elevated calls and the helper, for any       *)
(* number of calls, prompts, helpers and kills: a success was carried out, *)
(* a call given up stays undone, and a command with a long timeout is      *)
(* dispatched from its file once.                                          *)
(***************************************************************************)
EXTENDS ElevRequest, NumberTheorems

\* Where the command file is not written yet, and where only a prompt leads.
Early == {"idle", "pipe", "retry", "write"}
Prompting == {"uac", "ask1", "wait1", "rewrite", "ask2", "wait2"}
Results == {"none", "ok", "err", "unsigned"}

LadderTypes ==
  /\ pc \in [Calls -> Phases] /\ left \in [Calls -> Nat] /\ age \in [Calls -> Nat]
  /\ file \in [Calls -> BOOLEAN] /\ filed \in [Calls -> Nat] /\ result \in [Calls -> Results]

CallInv(c) ==
  /\ pc[c] \in Early => file[c] = FALSE /\ filed[c] = 0
  /\ c \in NoPrompt => pc[c] \notin Prompting
  \* What a call that may not prompt leaves behind is too old to be dispatched,
  /\ c \in NoPrompt /\ pc[c] = "err" => file[c] = FALSE \/ age[c] > Fresh
  \* as a heal that uses up its budget has taken that long.
  /\ pc[c] = "heal" => age[c] + left[c] > Fresh
  \* A long poll outlives the payload, so that only the first file counts.
  /\ Timeout[c] > Fresh =>
       /\ pc[c] = "poll" => age[c] + left[c] > Fresh
       /\ filed[c] <= 1
       /\ file[c] = TRUE /\ age[c] <= Fresh => filed[c] = 0
  /\ pc[c] = "ok" \/ result[c] = "ok" => c \in served

Inv == LadderTypes /\ \A c \in Calls : CallInv(c)

-----------------------------------------------------------------------------
(* The steps.                                                              *)

\* What a step says of the call it is about is enough.
LEMMA OthersKeep ==
  ASSUME Inv, NEW c \in Calls, LadderTypes', CallInv(c)', served \subseteq served',
         \A d \in Calls \ {c} :
           /\ pc'[d] = pc[d] /\ left'[d] = left[d] /\ age'[d] = age[d]
           /\ file'[d] = file[d] /\ filed'[d] = filed[d] /\ result'[d] = result[d]
  PROVE  Inv'
BY DEF Inv, CallInv

LEMMA CallerKeeps ==
  ASSUME Inv, NEW c \in Calls, Acquire(c) \/ Step(c) \/ Accept(c) \/ Decline(c)
  PROVE  Inv'
<1> USE DEF Phases, Final, Results, Early, Prompting, Fresh
<1>0. /\ CallInv(c) /\ LadderTypes
      /\ Timeout[c] \in Nat
  BY ElevAssumption DEF Inv
<1> SUFFICES /\ LadderTypes' /\ CallInv(c)' /\ served \subseteq served'
             /\ \A d \in Calls \ {c} :
                  /\ pc'[d] = pc[d] /\ left'[d] = left[d] /\ age'[d] = age[d]
                  /\ file'[d] = file[d] /\ filed'[d] = filed[d] /\ result'[d] = result[d]
  BY OthersKeep
<1>1. CASE Acquire(c)
  BY <1>0, <1>1 DEF Acquire, Goto, dir, infra, history, LadderTypes, CallInv
<1>2. CASE PipeOk(c)
  BY <1>0, <1>2 DEF PipeOk, Goto, Unlock, dir, infra, LadderTypes, CallInv
<1>3. CASE PipeFail(c)
  BY <1>0, <1>3 DEF PipeFail, Goto, Unlock, dir, infra, LadderTypes, CallInv
<1>4. CASE WriteCommand(c)
  <2>1. pc[c] = "write" /\ UNCHANGED <<left, filed, served>>
    BY <1>4 DEF WriteCommand, history
  <2>2. CASE /\ file' = [file EXCEPT ![c] = TRUE] /\ age' = [age EXCEPT ![c] = 0]
             /\ result' = [result EXCEPT ![c] = "none"] /\ pc' = [pc EXCEPT ![c] = "run"]
    <3>1. LadderTypes' /\ pc'[c] = "run" /\ result'[c] = "none" /\ filed'[c] = 0
      BY <1>0, <2>1, <2>2 DEF LadderTypes, CallInv
    <3> QED
      BY <1>0, <2>1, <2>2, <3>1 DEF LadderTypes, CallInv
  <2>3. CASE pc' = [pc EXCEPT ![c] = "err"] /\ UNCHANGED <<file, age, result>>
    BY <1>0, <2>1, <2>3 DEF LadderTypes, CallInv
  <2> QED
    BY <1>4, <2>2, <2>3 DEF WriteCommand, Goto, dir
<1>5. CASE Run(c)
  BY <1>0, <1>5 DEF Run, RunTask, StartPoll, HealBudget, Goto, Unlock, dir, infra, history,
     LadderTypes, CallInv
<1>6. CASE Heal(c)
  BY <1>0, <1>6 DEF Heal, NoPath, Goto, LadderTypes, CallInv
<1>7. CASE HealTimeout(c)
  BY <1>0, <1>7 DEF HealTimeout, Goto, dir, history, LadderTypes, CallInv
<1>8. CASE Rerun(c)
  <2>1. pc[c] = "rerun" /\ UNCHANGED <<age, result, filed, served>>
    BY <1>8 DEF Rerun
  <2>2. CASE /\ pc' = [pc EXCEPT ![c] = "poll"] /\ left' = [left EXCEPT ![c] = Timeout[c]]
             /\ UNCHANGED file
    BY <1>0, <2>1, <2>2 DEF LadderTypes, CallInv
  <2>3. CASE NoPath(c)
    BY <1>0, <2>1, <2>3 DEF NoPath, Goto, LadderTypes, CallInv
  <2> QED
    BY <1>8, <2>2, <2>3 DEF Rerun, StartPoll, Goto
<1>9. CASE Ask(c)
  <2>1. pc[c] \in {"uac", "rewrite"} /\ UNCHANGED <<age, result, filed, served>>
    BY <1>9 DEF Ask, history
  <2>2. CASE Withdraw(c) /\ UNCHANGED left
    BY <1>0, <2>1, <2>2 DEF Withdraw, Goto, LadderTypes, CallInv
  <2>3. CASE /\ pc' = [pc EXCEPT ![c] = IF pc[c] = "uac" THEN "ask1" ELSE "ask2"]
             /\ left' = [left EXCEPT ![c] = 2] /\ UNCHANGED file
    BY <1>0, <2>1, <2>3 DEF LadderTypes, CallInv
  <2> QED
    BY <1>9, <2>2, <2>3 DEF Ask, Goto, UacBudget
<1>10. CASE Abandon(c)
  BY <1>0, <1>10 DEF Abandon, Goto, dir, history, LadderTypes, CallInv
<1>11. CASE Waited(c)
  BY <1>0, <1>11 DEF Waited, StartPoll, Goto, dir, infra, history, LadderTypes, CallInv
<1>12. CASE WaitFailed(c) \/ WaitedInVain(c)
  BY <1>0, <1>12 DEF WaitFailed, WaitedInVain, Goto, dir, infra, history, LadderTypes, CallInv
<1>13. CASE TakeResult(c)
  BY <1>0, <1>13 DEF TakeResult, Goto, infra, LadderTypes, CallInv
<1>14. CASE PollTimeout(c)
  <2>1. pc[c] = "poll" /\ left[c] = 0 /\ UNCHANGED <<left, age, result, filed, served>>
    BY <1>14 DEF PollTimeout, history
  <2>2. CASE Withdraw(c)
    BY <1>0, <2>1, <2>2 DEF Withdraw, Goto, LadderTypes, CallInv
  <2>3. CASE /\ c \notin NoPrompt /\ pc' = [pc EXCEPT ![c] = "rewrite"]
             /\ file' = [file EXCEPT ![c] = TRUE]
    BY <1>0, <2>1, <2>3 DEF LadderTypes, CallInv
  <2> QED
    BY <1>14, <2>2, <2>3 DEF PollTimeout, Goto
<1>15. CASE Accept(c)
  BY <1>0, <1>15 DEF Accept, Goto, Round, dir, infra, history, LadderTypes, CallInv
<1>16. CASE Decline(c)
  BY <1>0, <1>16 DEF Decline, Withdraw, Goto, history, LadderTypes, CallInv
<1> QED
  BY <1>1, <1>2, <1>3, <1>4, <1>5, <1>6, <1>7, <1>8, <1>9, <1>10, <1>11, <1>12, <1>13, <1>14,
     <1>15, <1>16 DEF Step

LEMMA TakeKeeps ==
  ASSUME Inv, NEW h \in Helpers, NEW c \in Calls, Take(h, c) PROVE Inv'
<1> USE DEF Results, Early, Fresh
<1>0. CallInv(c) /\ LadderTypes
  BY DEF Inv
<1>1. /\ file' = [file EXCEPT ![c] = FALSE]
      /\ UNCHANGED <<pc, left, age, served>>
  BY DEF Take, client
<1>2. \/ filed' = filed /\ result' = [result EXCEPT ![c] = "err"]
      \/ /\ filed' = [filed EXCEPT ![c] = @ + 1] /\ result' = [result EXCEPT ![c] = "none"]
         /\ file[c] = TRUE /\ age[c] <= Fresh
  BY <1>0 DEF Take, Refuse, IsFresh, LadderTypes
<1>3. LadderTypes' /\ CallInv(c)'
  BY <1>0, <1>1, <1>2 DEF LadderTypes, CallInv
<1> QED
  BY <1>0, <1>1, <1>2, <1>3, OthersKeep DEF LadderTypes

\* Of the helpers' other steps only an answer makes a result "ok".
LEMMA HelperKeeps ==
  ASSUME Inv, NEW h \in Helpers,
         List(h) \/ Answer(h) \/ Exit(h) \/ Kill(h) \/ LateAnswer(h)
  PROVE  Inv'
<1>1. UNCHANGED <<pc, left, age, file, filed>>
  BY DEF List, Answer, Exit, Kill, LateAnswer, client, dir, history
<1>2. /\ result' \in [Calls -> Results] /\ served \subseteq served'
      /\ \A d \in Calls : result'[d] = "ok" => result[d] = "ok" \/ d \in served'
  <2>1. CASE Answer(h)
    BY <2>1 DEF Answer, Inv, LadderTypes, Results
  <2>2. CASE List(h)
    BY <2>2 DEF List, history, Inv, LadderTypes, Results
  <2>3. CASE Exit(h) \/ Kill(h) \/ LateAnswer(h)
    BY <2>3 DEF Exit, Kill, LateAnswer, dir, history, Inv, LadderTypes, Results
  <2> QED
    BY <2>1, <2>2, <2>3
<1> QED
  BY <1>1, <1>2 DEF Inv, LadderTypes, CallInv

LEMMA TickKeeps == ASSUME Inv, Tick PROVE Inv'
<1>1. /\ UNCHANGED <<pc, file, result, filed, served>>
      /\ left' = [c \in Calls |-> IF Waiting(c) THEN left[c] - 1 ELSE left[c]]
      /\ age' = [c \in Calls |-> IF age[c] <= Fresh THEN age[c] + 1 ELSE age[c]]
  BY DEF Tick, history
<1>2. ASSUME NEW c \in Calls
      PROVE  /\ left'[c] \in Nat /\ age'[c] \in Nat /\ age'[c] >= age[c]
             /\ age[c] + left[c] > Fresh => age'[c] + left'[c] > Fresh
  <2>1. left[c] \in Nat /\ age[c] \in Nat
    BY DEF Inv, LadderTypes
  <2>2. left'[c] = (IF Waiting(c) THEN left[c] - 1 ELSE left[c]) /\ (Waiting(c) => left[c] > 0)
    BY <1>1 DEF Waiting
  <2>3. age'[c] = (IF age[c] <= Fresh THEN age[c] + 1 ELSE age[c])
    BY <1>1
  <2> QED
    BY <2>1, <2>2, <2>3 DEF Fresh
<1>3. left' \in [Calls -> Nat] /\ age' \in [Calls -> Nat]
  BY <1>1, <1>2
<1> QED
  BY <1>1, <1>2, <1>3 DEF Inv, LadderTypes, CallInv, Fresh

LEMMA StepKeeps == ASSUME Inv, [Next]_vars PROVE Inv'
<1>1. CASE UNCHANGED vars
  BY <1>1 DEF vars, client, dir, history, Inv, LadderTypes, CallInv
<1>2. CASE LateHeal
  BY <1>2 DEF LateHeal, client, dir, history, Inv, LadderTypes, CallInv
<1> QED
  BY <1>1, <1>2, CallerKeeps, TakeKeeps, HelperKeeps, TickKeeps DEF Next, Serve

LEMMA InitHolds == Init => Inv
BY DEF Init, Inv, LadderTypes, CallInv, Phases, Final, Results, Early, Prompting, Fresh

-----------------------------------------------------------------------------
(* The theorems.                                                           *)

\* A call that reports success was carried out with success, whatever results other
\* helpers, refusals and late prompts leave (run_elevated_impl).
THEOREM SuccessWasServed == Spec => []OkMeansServed
<1>1. Inv => OkMeansServed
  BY DEF Inv, CallInv, OkMeansServed
<1> QED
  BY <1>1, InitHolds, StepKeeps, PTL DEF Spec

\* A command whose timeout exceeds the freshness window is dispatched from its file once
\* at most, though the payload is written again after the timeout.
THEOREM SlowIsDispatchedOnce == Spec => []SlowAtMostOnce
<1>1. Inv => SlowAtMostOnce
  BY DEF Inv, CallInv, SlowAtMostOnce
<1> QED
  BY <1>1, InitHolds, StepKeeps, PTL DEF Spec

\* Once a call that may not prompt has reported failure no helper begins to carry it out,
\* though a heal that is out of time leaves the command file (its payload is stale then).
THEOREM GivenUpIsLeft == Spec => GivenUpStaysUndone
<1> DEFINE Undone == \A c \in NoPrompt : pc[c] = "err" => filed'[c] = filed[c]
<1>1. ASSUME Inv, [Next]_vars PROVE [Undone]_vars
  <2>1. CASE UNCHANGED filed
    BY <2>1
  <2>2. ASSUME NEW h \in Helpers, NEW c \in Calls, Take(h, c) PROVE Undone
    <3>1. filed' = filed \/ (filed' = [filed EXCEPT ![c] = @ + 1] /\ file[c] /\ age[c] <= Fresh)
      BY <2>2 DEF Take, Refuse, IsFresh
    <3>2. c \in NoPrompt /\ pc[c] = "err" => file[c] = FALSE \/ age[c] > Fresh
      BY <1>1 DEF Inv, CallInv
    <3>3. age[c] \in Nat /\ file[c] \in BOOLEAN /\ filed \in [Calls -> Nat]
          /\ NoPrompt \subseteq Calls
      BY <1>1, ElevAssumption DEF Inv, LadderTypes
    <3> QED
      BY <3>1, <3>2, <3>3 DEF Fresh
  <2>3. ASSUME Next, ~ \E h \in Helpers, c \in Calls : Take(h, c) PROVE UNCHANGED filed
    BY <2>3 DEF Next, Serve, Step, Acquire, PipeOk, PipeFail, WriteCommand, Run, Heal,
       HealTimeout, Rerun, Ask, Abandon, Waited, WaitFailed, WaitedInVain, TakeResult,
       PollTimeout, Accept, Decline, List, Answer, Exit, Kill, LateAnswer, LateHeal, Tick, history
  <2> QED
    BY <1>1, <2>1, <2>2, <2>3
<1> QED
  BY <1>1, InitHolds, StepKeeps, PTL DEF Spec, GivenUpStaysUndone

-----------------------------------------------------------------------------
(* The types, for which the files, the failures and the misses are counted. *)

Waits == {"run", "heal", "rerun", "uac", "ask1", "wait1", "poll"}
Past == {"poll", "rewrite", "ask2", "wait2", "ok", "err"}
PastCalls == {c \in Calls : pc[c] \in Past}
FailedCalls == {c \in Calls : pc[c] = "err"}

HelperStates == [state : {"off", "start", "work"}, todo : SUBSET Calls, cur : Calls \cup {None},
                 loaded : BOOLEAN, mem : SUBSET Calls]

\* Every part of the state is of its kind. A payload is written twice at most, and so
\* dispatched twice at most: the second time only once the first poll is out of time.
ClientTypes == left \in [Calls -> 0..MaxLeft] /\ lock \in Calls \cup {None}
FileTypes ==
  /\ age \in [Calls -> 0..(Fresh + 1)]
  /\ \A c \in Calls : /\ filed[c] \in 0..2 /\ (file[c] = TRUE => filed[c] <= 1)
                      /\ pc[c] \in Waits => filed[c] <= 1 /\ (file[c] = TRUE => filed[c] = 0)
HelperTypes == helper \in [Helpers -> HelperStates] /\ disk \subseteq Calls /\ served \subseteq Calls
InfraTypes ==
  /\ task \in {"good", "wrong", "missing"} /\ healTried \in {"no", "hung", "yes"}
  /\ declined \in BOOLEAN /\ prompts \subseteq Helpers \ {Task} /\ kills \in 0..MaxKills
\* A call is counted once by the breaker, on its way to its poll, and once as a miss.
Tallies ==
  /\ streak \in Nat /\ streak <= Cardinality(PastCalls)
  /\ misses \in Nat /\ misses <= Cardinality(FailedCalls)

LEMMA ElevConstants ==
  /\ IsFiniteSet(Calls) /\ None \notin Calls /\ Cardinality(Calls) \in Nat
  /\ Timeout \in [Calls -> Nat \ {0}] /\ MaxKills \in Nat /\ NoPrompt \subseteq Calls
  /\ BreakerTripThreshold \in Nat
  /\ TaskInit \subseteq {"good", "wrong", "missing"}
BY ElevAssumption, FS_CardinalityType

\* MaxLeft is the longest wait there is.
LEMMA LongestWait ==
  ASSUME NEW c \in Calls
  PROVE  MaxLeft \in Nat /\ Timeout[c] \in 0..MaxLeft /\ HealBudget \in 0..MaxLeft /\ UacBudget \in 0..MaxLeft
<1> DEFINE All == {Timeout[d] : d \in Calls}
           Longest == CHOOSE t \in All : \A d \in Calls : Timeout[d] <= t
<1>1. All \subseteq Nat /\ All # {}
  BY ElevConstants
<1>2. IsFiniteSet(All)
  <2>1. Timeout \in Surjection(Calls, All)
    BY ElevConstants DEF Surjection
  <2> QED
    BY <2>1, ElevConstants, FS_Surjection
<1>3. PICK t \in All : \A u \in All : u <= t
  BY <1>1, <1>2, GreatestOfFinite
<1>4. Longest \in All /\ \A d \in Calls : Timeout[d] <= Longest
  BY <1>3
<1>5. Longest \in Nat /\ Timeout[c] <= Longest /\ Timeout[c] \in Nat /\ Timeout[c] >= 1
  BY <1>1, <1>4, ElevConstants
<1>6. MaxLeft = 2 + Longest
  BY DEF MaxLeft, UacBudget
<1> HIDE DEF Longest
<1> QED
  BY <1>5, <1>6 DEF HealBudget, UacBudget

LEMMA ClientKeep ==
  ASSUME Inv, ClientTypes, [Next]_vars
  PROVE  ClientTypes'
<1>1. ASSUME NEW c \in Calls, NEW n \in 0..MaxLeft, left' = [left EXCEPT ![c] = n]
      PROVE  left' \in [Calls -> 0..MaxLeft]
  BY <1>1 DEF ClientTypes
<1>2. ASSUME NEW c \in Calls, Acquire(c) \/ Step(c) \/ Accept(c) \/ Decline(c)
      PROVE  /\ lock' \in {lock, c, None}
             /\ left' = left \/ \E n \in {Timeout[c], HealBudget, UacBudget} : left' = [left EXCEPT ![c] = n]
  BY <1>2 DEF Step, Acquire, PipeOk, PipeFail, WriteCommand, Run, Heal, HealTimeout, Rerun, NoPath, Ask,
     Abandon, Waited, WaitFailed, WaitedInVain, TakeResult, PollTimeout, Accept, Decline, StartPoll, Unlock
<1>3. ASSUME NEW c \in Calls, Acquire(c) \/ Step(c) \/ Accept(c) \/ Decline(c)
      PROVE  ClientTypes'
  BY <1>1, <1>2, <1>3, LongestWait DEF ClientTypes
<1>4. CASE Tick
  <2>1. lock' = lock /\ left' = [c \in Calls |-> IF Waiting(c) THEN left[c] - 1 ELSE left[c]]
    BY <1>4 DEF Tick
  <2>2. ASSUME NEW c \in Calls PROVE left'[c] \in 0..MaxLeft
    <3>1. left[c] \in 0..MaxLeft /\ MaxLeft \in Nat
      BY LongestWait DEF ClientTypes
    <3>2. Waiting(c) => left[c] > 0
      BY DEF Waiting
    <3> QED
      BY <2>1, <3>1, <3>2
  <2>3. left' \in [Calls -> 0..MaxLeft]
    BY <2>1, <2>2
  <2> QED
    BY <2>1, <2>3 DEF ClientTypes
<1>5. CASE UNCHANGED vars
  BY <1>5 DEF vars, client, ClientTypes
<1>6. ASSUME NEW h \in Helpers, Serve(h) \/ Kill(h) \/ LateAnswer(h) PROVE ClientTypes'
  BY <1>6 DEF Serve, List, Take, Answer, Exit, Kill, LateAnswer, client, ClientTypes
<1>7. CASE LateHeal
  BY <1>7 DEF LateHeal, client, ClientTypes
<1> QED
  BY <1>3, <1>4, <1>5, <1>6, <1>7 DEF Next

\* What a call does with its own file: it writes it, and again after its first poll.
LEMMA CallerFiles ==
  ASSUME Inv, FileTypes, NEW c \in Calls, Acquire(c) \/ Step(c) \/ Accept(c) \/ Decline(c)
  PROVE  FileTypes'
<1> USE DEF Phases, Final, Early, Waits
<1>1. /\ pc \in [Calls -> Phases] /\ file \in [Calls -> BOOLEAN] /\ CallInv(c)
      /\ filed[c] \in 0..2 /\ (file[c] = TRUE => filed[c] <= 1)
      /\ pc[c] \in Waits => filed[c] <= 1 /\ (file[c] = TRUE => filed[c] = 0)
  BY DEF Inv, LadderTypes, FileTypes
<1>2. /\ UNCHANGED filed
      /\ \A d \in Calls : d # c => pc'[d] = pc[d] /\ file'[d] = file[d]
      /\ age' = age \/ age' = [age EXCEPT ![c] = 0]
  BY <1>1 DEF Step, Acquire, PipeOk, PipeFail, WriteCommand, Run, Heal, HealTimeout, Rerun, NoPath, Ask, Withdraw,
     Abandon, Waited, WaitFailed, WaitedInVain, TakeResult, PollTimeout, Accept, Decline, StartPoll,
     Goto, dir, history
<1> DEFINE Moves == \/ file'[c] = TRUE /\ pc[c] = "write"
                    \/ file'[c] = TRUE /\ pc[c] = "poll" /\ pc'[c] = "rewrite"
                    \/ (file'[c] = FALSE \/ file'[c] = file[c]) /\ pc'[c] \notin Waits
                    \/ (file'[c] = FALSE \/ file'[c] = file[c]) /\ pc[c] \in Waits
<1>3. Moves
  <2>1. CASE Acquire(c) \/ PipeOk(c) \/ PipeFail(c)
    BY <1>1, <2>1 DEF Acquire, PipeOk, PipeFail, Goto, dir
  <2>2. CASE WriteCommand(c)
    BY <1>1, <2>2 DEF WriteCommand, Goto, dir
  <2>3. CASE Run(c)
    BY <1>1, <2>3 DEF Run, dir
  <2>4. CASE Heal(c)
    BY <1>1, <2>4 DEF Heal, NoPath
  <2>5. CASE HealTimeout(c)
    BY <1>1, <2>5 DEF HealTimeout, Goto, dir
  <2>6. CASE Rerun(c)
    BY <1>1, <2>6 DEF Rerun, NoPath
  <2>7. CASE Ask(c)
    BY <1>1, <2>7 DEF Ask, Withdraw, Goto
  <2>8. CASE Accept(c)
    BY <1>1, <2>8 DEF Accept, Round, Goto, dir
  <2>9. CASE Decline(c)
    BY <1>1, <2>9 DEF Decline, Withdraw, Goto
  <2>10. CASE Abandon(c) \/ Waited(c) \/ WaitFailed(c) \/ WaitedInVain(c)
    BY <1>1, <2>10 DEF Abandon, Waited, WaitFailed, WaitedInVain, Goto, dir
  <2>11. CASE TakeResult(c)
    BY <1>1, <2>11 DEF TakeResult, Goto
  <2>12. CASE PollTimeout(c)
    BY <1>1, <2>12 DEF PollTimeout, Withdraw, Goto
  <2> HIDE DEF Moves
  <2> QED
    BY <2>1, <2>2, <2>3, <2>4, <2>5, <2>6, <2>7, <2>8, <2>9, <2>10, <2>11, <2>12 DEF Step
<1>4. pc[c] \in Early => file[c] = FALSE /\ filed[c] = 0
  BY <1>1 DEF CallInv
<1>5. /\ filed'[c] \in 0..2 /\ (file'[c] = TRUE => filed'[c] <= 1)
      /\ pc'[c] \in Waits => filed'[c] <= 1 /\ (file'[c] = TRUE => filed'[c] = 0)
  <2>1. filed'[c] = filed[c]
    BY <1>2
  <2>2. CASE file'[c] = TRUE
    <3>1. filed[c] \in 0..1 /\ (pc'[c] \in Waits => filed[c] = 0)
      BY <1>1, <1>3, <1>4, <2>2
    <3> QED
      BY <2>1, <3>1
  <2>3. CASE file'[c] # TRUE
    <3>1. pc'[c] \in Waits => filed[c] <= 1
      BY <1>1, <1>3, <1>4, <2>3
    <3> QED
      BY <1>1, <2>1, <2>3, <3>1
  <2> QED
    BY <2>2, <2>3
<1>6. age' \in [Calls -> 0..(Fresh + 1)]
  BY <1>2 DEF FileTypes, Fresh
<1> QED
  BY <1>2, <1>5, <1>6 DEF FileTypes

LEMMA FilesKeep ==
  ASSUME Inv, FileTypes, [Next]_vars
  PROVE  FileTypes'
<1>1. CASE Tick
  <2>1. age' = [c \in Calls |-> IF age[c] <= Fresh THEN age[c] + 1 ELSE age[c]]
        /\ UNCHANGED <<pc, file, filed>>
    BY <1>1 DEF Tick, history
  <2>2. age' \in [Calls -> 0..(Fresh + 1)]
    <3>1. ASSUME NEW c \in Calls PROVE age'[c] \in 0..(Fresh + 1)
      BY <2>1 DEF FileTypes, Fresh
    <3> QED
      BY <2>1, <3>1
  <2> QED
    BY <2>1, <2>2 DEF FileTypes
<1>2. ASSUME NEW h \in Helpers, NEW c \in Calls, Take(h, c) PROVE FileTypes'
  <2>1. /\ file' = [file EXCEPT ![c] = FALSE] /\ UNCHANGED <<pc, age>>
        /\ filed' = filed \/ (filed' = [filed EXCEPT ![c] = @ + 1] /\ file[c] = TRUE)
    BY <1>2 DEF Take, Refuse, client, Inv, LadderTypes
  <2>2. filed \in [Calls -> Nat] /\ file \in [Calls -> BOOLEAN]
    BY DEF Inv, LadderTypes
  <2>3. /\ filed[c] \in 0..2 /\ (file[c] = TRUE => filed[c] <= 1)
        /\ pc[c] \in Waits => filed[c] <= 1 /\ (file[c] = TRUE => filed[c] = 0)
    BY DEF FileTypes
  <2>4. file'[c] = FALSE /\ (filed'[c] = filed[c] \/ (filed'[c] = filed[c] + 1 /\ file[c] = TRUE))
    BY <2>1, <2>2
  <2>5. \A d \in Calls : d # c => filed'[d] = filed[d] /\ file'[d] = file[d]
    BY <2>1, <2>2
  <2>6. /\ filed'[c] \in 0..2 /\ (file'[c] = TRUE => filed'[c] <= 1)
        /\ pc[c] \in Waits => filed'[c] <= 1 /\ (file'[c] = TRUE => filed'[c] = 0)
    BY <2>3, <2>4
  <2> QED
    BY <2>1, <2>5, <2>6 DEF FileTypes
<1>3. ASSUME NEW h \in Helpers, List(h) \/ Answer(h) \/ Exit(h) \/ Kill(h) \/ LateAnswer(h) PROVE FileTypes'
  BY <1>3 DEF List, Answer, Exit, Kill, LateAnswer, client, dir, history, FileTypes
<1>4. CASE LateHeal \/ UNCHANGED vars
  BY <1>4 DEF LateHeal, vars, client, dir, history, FileTypes
<1> QED
  BY <1>1, <1>2, <1>3, <1>4, CallerFiles DEF Next, Serve

LEMMA HelperKind == Off \in HelperStates /\ [Off EXCEPT !.state = "start"] \in HelperStates
BY DEF Off, HelperStates

\* The helpers, their batches and their nonces.
LEMMA HelpersKeep ==
  ASSUME Inv, HelperTypes, [Next]_vars
  PROVE  HelperTypes'
<1>1. ASSUME NEW h \in Helpers, NEW c \in Calls, Take(h, c) PROVE HelperTypes'
  <2>1. /\ helper[h] \in HelperStates /\ helper[h].mem \subseteq Calls /\ disk \subseteq Calls
        /\ Seen(h) \in SUBSET Calls /\ Seen(h) \cup {c} \in SUBSET Calls
    BY DEF HelperTypes, HelperStates, Seen
  <2> DEFINE rest == helper[h].todo \ {c}
  <2>2. rest \in SUBSET Calls
    BY <2>1 DEF HelperStates
  <2>3. /\ [helper[h] EXCEPT !.todo = rest] \in HelperStates
        /\ \A mem \in SUBSET Calls :
             /\ [helper[h] EXCEPT !.todo = rest, !.loaded = TRUE, !.mem = mem] \in HelperStates
             /\ [helper[h] EXCEPT !.todo = rest, !.cur = c, !.loaded = TRUE, !.mem = mem] \in HelperStates
    BY <2>1, <2>2 DEF HelperStates
  <2>4. \E s \in HelperStates : helper' = [helper EXCEPT ![h] = s]
    <3>1. \/ helper' = [helper EXCEPT ![h] = [helper[h] EXCEPT !.todo = rest]]
          \/ \E mem \in SUBSET Calls : helper' = [helper EXCEPT ![h] =
                [helper[h] EXCEPT !.todo = rest, !.loaded = TRUE, !.mem = mem]]
          \/ \E mem \in SUBSET Calls : helper' = [helper EXCEPT ![h] =
                [helper[h] EXCEPT !.todo = rest, !.cur = c, !.loaded = TRUE, !.mem = mem]]
      <4>1. helper \in [Helpers -> HelperStates]
        BY DEF HelperTypes
      <4>2. CASE Refuse(h, c)
        <5>1. helper' = [helper EXCEPT ![h].todo = rest]
          BY <4>2 DEF Refuse
        <5> QED
          BY <5>1
      <4>3. CASE helper' = [helper EXCEPT ![h].todo = rest, ![h].loaded = TRUE, ![h].mem = Seen(h)]
        <5>1. helper' = [helper EXCEPT ![h] = [helper[h] EXCEPT !.todo = rest, !.loaded = TRUE, !.mem = Seen(h)]]
          BY <4>1, <4>3 DEF HelperStates
        <5> QED
          BY <2>1, <5>1
      <4>4. CASE helper' = [helper EXCEPT ![h].todo = rest, ![h].cur = c,
                                          ![h].loaded = TRUE, ![h].mem = Seen(h) \cup {c}]
        <5>1. helper' = [helper EXCEPT ![h] = [helper[h] EXCEPT !.todo = rest, !.cur = c,
                                                                !.loaded = TRUE, !.mem = Seen(h) \cup {c}]]
          BY <4>1, <4>4 DEF HelperStates
        <5> QED
          BY <2>1, <5>1
      <4> QED
        BY <1>1, <4>2, <4>3, <4>4 DEF Take
    <3> QED
      BY <2>3, <3>1
  <2>5. disk' \subseteq Calls
    BY <1>1, <2>1 DEF Take, Refuse, HelperTypes
  <2>6. served' = served
    BY <1>1 DEF Take
  <2> QED
    BY <2>4, <2>5, <2>6 DEF HelperTypes
<1>2. ASSUME NEW h \in Helpers, List(h) \/ Answer(h) \/ Exit(h) \/ Kill(h) \/ LateAnswer(h) PROVE HelperTypes'
  <2>1. helper[h] \in HelperStates /\ helper \in [Helpers -> HelperStates]
    BY DEF HelperTypes
  <2>2. CASE List(h)
    <3>1. \E todo \in SUBSET Calls : \/ helper' = [helper EXCEPT ![h] = Off]
                                     \/ helper' = [helper EXCEPT ![h].state = "work", ![h].todo = todo]
      <4> DEFINE todo == IF h = Task THEN Pending ELSE {c \in {h[1]} : file[c]}
      <4>1. todo \in SUBSET Calls
        <5>1. Pending \in SUBSET Calls
          BY DEF Pending
        <5>2. h # Task => h[1] \in Calls
          BY DEF Helpers
        <5> QED
          BY <5>1, <5>2
      <4>2. helper' = [helper EXCEPT ![h] = Off] \/ helper' = [helper EXCEPT ![h].state = "work", ![h].todo = todo]
        BY <2>2 DEF List
      <4> QED
        BY <4>1, <4>2
    <3>2. \A todo \in SUBSET Calls : [helper[h] EXCEPT !.state = "work", !.todo = todo] \in HelperStates
      BY <2>1 DEF HelperStates
    <3>3. helper' \in [Helpers -> HelperStates]
      <4>1. PICK todo \in SUBSET Calls : \/ helper' = [helper EXCEPT ![h] = Off]
                                        \/ helper' = [helper EXCEPT ![h].state = "work", ![h].todo = todo]
        BY <3>1
      <4>2. CASE helper' = [helper EXCEPT ![h] = Off]
        BY <2>1, <4>2, HelperKind
      <4>3. CASE helper' = [helper EXCEPT ![h].state = "work", ![h].todo = todo]
        <5>1. helper' = [helper EXCEPT ![h] = [helper[h] EXCEPT !.state = "work", !.todo = todo]]
          BY <2>1, <4>3 DEF HelperStates
        <5> QED
          BY <2>1, <3>2, <5>1
      <4> QED
        BY <4>1, <4>2, <4>3
    <3> QED
      BY <2>2, <3>3 DEF List, history, HelperTypes
  <2>3. CASE Answer(h)
    <3>1. [helper[h] EXCEPT !.cur = None] \in HelperStates /\ helper[h].cur \in Calls \cup {None}
      BY <2>1 DEF HelperStates
    <3>2. helper' = [helper EXCEPT ![h] = [helper[h] EXCEPT !.cur = None]] /\ helper[h].cur # None
      BY <2>3 DEF Answer
    <3>3. served' \subseteq Calls
      BY <2>3, <3>1, <3>2 DEF Answer, HelperTypes
    <3>4. helper' \in [Helpers -> HelperStates]
      BY <2>1, <3>1, <3>2
    <3> QED
      BY <2>3, <3>3, <3>4 DEF Answer, HelperTypes
  <2>4. CASE Exit(h)
    <3>1. helper[h].mem \subseteq Calls
      BY <2>1 DEF HelperStates
    <3> QED
      BY <2>1, <2>4, <3>1, HelperKind DEF Exit, history, HelperTypes
  <2>5. CASE Kill(h)
    BY <2>1, <2>5, HelperKind DEF Kill, HelperTypes
  <2>6. CASE LateAnswer(h)
    BY <2>1, <2>6, HelperKind DEF LateAnswer, Launch, history, HelperTypes
  <2> QED
    BY <1>2, <2>2, <2>3, <2>4, <2>5, <2>6
<1>3. ASSUME NEW c \in Calls, Acquire(c) \/ Step(c) \/ Accept(c) \/ Decline(c) PROVE HelperTypes'
  <2>1. CASE Accept(c)
    <3>1. UNCHANGED <<disk, served>> /\ \E h : helper' = [helper EXCEPT ![h] = [Off EXCEPT !.state = "start"]]
      BY <2>1 DEF Accept, Launch, history
    <3> QED
      BY <3>1, HelperKind DEF HelperTypes
  <2>2. CASE Run(c) \/ Rerun(c)
    <3>1. UNCHANGED <<disk, served>> /\ (helper' = helper \/ helper' = [helper EXCEPT ![Task] = [Off EXCEPT !.state = "start"]])
      BY <2>2 DEF Run, Rerun, RunTask, NoPath, history
    <3> QED
      BY <3>1, HelperKind DEF HelperTypes
  <2>3. CASE Acquire(c) \/ PipeOk(c) \/ PipeFail(c) \/ WriteCommand(c) \/ Heal(c) \/ HealTimeout(c)
    BY <2>3 DEF Acquire, PipeOk, PipeFail, WriteCommand, Heal, NoPath, HealTimeout, history, HelperTypes
  <2>4. CASE Ask(c) \/ Abandon(c) \/ Waited(c) \/ WaitFailed(c) \/ WaitedInVain(c) \/ TakeResult(c)
             \/ PollTimeout(c) \/ Decline(c)
    BY <2>4 DEF Ask, Abandon, Waited, WaitFailed, WaitedInVain, TakeResult, PollTimeout, Decline, history, HelperTypes
  <2> QED
    BY <1>3, <2>1, <2>2, <2>3, <2>4 DEF Step
<1>4. CASE LateHeal \/ Tick \/ UNCHANGED vars
  BY <1>4 DEF LateHeal, Tick, vars, history, HelperTypes
<1> QED
  BY <1>1, <1>2, <1>3, <1>4 DEF Next, Serve

\* The task, the prompts and the kills.
LEMMA InfraKeep ==
  ASSUME Inv, InfraTypes, [Next]_vars
  PROVE  InfraTypes'
<1>1. ASSUME NEW c \in Calls, Acquire(c) \/ Step(c) \/ Accept(c) \/ Decline(c) PROVE InfraTypes'
  <2>1. CASE Heal(c)
    BY <2>1 DEF Heal, InfraTypes
  <2>2. CASE HealTimeout(c)
    BY <2>2 DEF HealTimeout, history, InfraTypes
  <2>3. CASE Abandon(c)
    <3>1. Uac(c, Round(c)) \in Helpers \ {Task}
      BY ElevConstants DEF Uac, Round, Helpers, Task
    <3> QED
      BY <2>3, <3>1 DEF Abandon, history, InfraTypes
  <2>4. CASE Decline(c)
    BY <2>4 DEF Decline, history, InfraTypes
  <2>5. CASE Acquire(c) \/ PipeOk(c) \/ PipeFail(c) \/ WriteCommand(c) \/ Run(c) \/ Rerun(c) \/ Accept(c)
    BY <2>5 DEF Acquire, PipeOk, PipeFail, WriteCommand, Run, Rerun, Accept, infra, history, InfraTypes
  <2>6. CASE Ask(c) \/ Waited(c) \/ WaitFailed(c) \/ WaitedInVain(c) \/ TakeResult(c) \/ PollTimeout(c)
    BY <2>6 DEF Ask, Waited, WaitFailed, WaitedInVain, TakeResult, PollTimeout, infra, history, InfraTypes
  <2> QED
    BY <1>1, <2>1, <2>2, <2>3, <2>4, <2>5, <2>6 DEF Step
<1>2. ASSUME NEW h \in Helpers, Serve(h) PROVE InfraTypes'
  BY <1>2 DEF Serve, List, Take, Answer, Exit, infra, history, InfraTypes
<1>3. ASSUME NEW h \in Helpers, Kill(h) PROVE InfraTypes'
  <2>1. kills' \in 0..MaxKills
    BY <1>3, ElevConstants DEF Kill, InfraTypes
  <2> QED
    BY <1>3, <2>1 DEF Kill, infra, InfraTypes
<1>4. ASSUME NEW h \in Helpers, LateAnswer(h) PROVE InfraTypes'
  BY <1>4 DEF LateAnswer, history, InfraTypes
<1>5. CASE LateHeal \/ Tick \/ UNCHANGED vars
  BY <1>5 DEF LateHeal, Tick, vars, infra, history, InfraTypes
<1> QED
  BY <1>1, <1>2, <1>3, <1>4, <1>5 DEF Next

\* A call is past its polls for good, and counted on the way there at most.
LEMMA CallerTallies ==
  ASSUME Inv, Tallies, NEW c \in Calls, Acquire(c) \/ Step(c) \/ Accept(c) \/ Decline(c)
  PROVE  Tallies'
<1> DEFINE Passes == streak' = streak + 1 /\ pc[c] \notin Past /\ pc'[c] \in Past
           Misses == misses' = misses + 1 /\ pc[c] # "err" /\ pc'[c] = "err"
           Counts == /\ pc[c] # "err" /\ (pc[c] \in Past => pc'[c] \in Past)
                     /\ streak' = streak \/ streak' = 0 \/ Passes
                     /\ misses' = misses \/ misses' = 0 \/ Misses
<1>1. pc \in [Calls -> Phases]
  BY DEF Inv, LadderTypes
<1>2. \A d \in Calls : d # c => pc'[d] = pc[d]
  BY <1>1 DEF Step, Acquire, PipeOk, PipeFail, WriteCommand, Run, Heal, HealTimeout, Rerun, NoPath, Ask, Withdraw,
     Abandon, Waited, WaitFailed, WaitedInVain, TakeResult, PollTimeout, Accept, Decline, StartPoll, Goto
<1>3. Counts
  <2> USE DEF Past, Phases, Final
  <2>1. CASE Acquire(c) \/ PipeOk(c) \/ PipeFail(c) \/ WriteCommand(c) \/ Run(c)
    BY <1>1, <2>1 DEF Acquire, PipeOk, PipeFail, WriteCommand, Run, StartPoll, Goto, history
  <2>2. CASE Heal(c)
    BY <1>1, <2>2 DEF Heal, NoPath, Goto
  <2>3. CASE HealTimeout(c)
    BY <1>1, <2>3 DEF HealTimeout, Goto, history
  <2>4. CASE Rerun(c)
    <3>1. CASE StartPoll(c) /\ streak' = streak + 1 /\ UNCHANGED misses
      BY <1>1, <2>4, <3>1 DEF Rerun, StartPoll, Goto
    <3>2. CASE NoPath(c) /\ UNCHANGED streak
      BY <1>1, <2>4, <3>2 DEF Rerun, NoPath, Goto
    <3> QED
      BY <2>4, <3>1, <3>2 DEF Rerun
  <2>5. CASE Ask(c)
    BY <1>1, <2>5 DEF Ask, Withdraw, Goto, history
  <2>6. CASE Accept(c) \/ Decline(c)
    <3>1. CASE Accept(c)
      <4>1. (pc[c] = "ask1" /\ pc'[c] = "wait1") \/ (pc[c] = "ask2" /\ pc'[c] = "wait2")
        <5>1. CASE pc[c] = "ask1"
          BY <1>1, <3>1, <5>1 DEF Accept, Round, Goto
        <5>2. CASE pc[c] = "ask2"
          BY <1>1, <3>1, <5>2 DEF Accept, Round, Goto
        <5> QED
          BY <3>1, <5>1, <5>2 DEF Accept
      <4> QED
        BY <3>1, <4>1 DEF Accept, history
    <3>2. CASE Decline(c)
      BY <1>1, <3>2 DEF Decline, Withdraw, Goto, history
    <3> QED
      BY <2>6, <3>1, <3>2
  <2>7. CASE Abandon(c) \/ WaitFailed(c) \/ WaitedInVain(c)
    BY <1>1, <2>7 DEF Abandon, WaitFailed, WaitedInVain, Goto, history
  <2>8. CASE Waited(c)
    BY <1>1, <2>8 DEF Waited, StartPoll, Goto, history
  <2>9. CASE TakeResult(c)
    BY <1>1, <2>9 DEF TakeResult, Goto
  <2>10. CASE PollTimeout(c)
    BY <1>1, <2>10 DEF PollTimeout, Withdraw, Goto, history
  <2> HIDE DEF Counts
  <2> QED
    BY <2>1, <2>2, <2>3, <2>4, <2>5, <2>6, <2>7, <2>8, <2>9, <2>10 DEF Step
<1>4. /\ PastCalls \in SUBSET Calls /\ PastCalls' \in SUBSET Calls /\ PastCalls \subseteq PastCalls'
      /\ FailedCalls \in SUBSET Calls /\ FailedCalls' \in SUBSET Calls /\ FailedCalls \subseteq FailedCalls'
  <2>1. \A d \in Calls : (pc[d] \in Past => pc'[d] \in Past) /\ (pc[d] = "err" => pc'[d] = "err")
    BY <1>2, <1>3
  <2> QED
    BY <2>1 DEF PastCalls, FailedCalls
<1>5. Passes => c \in PastCalls' /\ c \notin PastCalls
  BY DEF PastCalls
<1>6. Misses => c \in FailedCalls' /\ c \notin FailedCalls
  BY DEF FailedCalls
<1>7. /\ Cardinality(PastCalls) \in Nat /\ Cardinality(PastCalls') \in Nat
      /\ Cardinality(PastCalls) <= Cardinality(PastCalls')
      /\ Passes => Cardinality(PastCalls) + 1 <= Cardinality(PastCalls')
  BY <1>4, <1>5, ElevConstants, OneMore
<1>8. /\ Cardinality(FailedCalls) \in Nat /\ Cardinality(FailedCalls') \in Nat
      /\ Cardinality(FailedCalls) <= Cardinality(FailedCalls')
      /\ Misses => Cardinality(FailedCalls) + 1 <= Cardinality(FailedCalls')
  BY <1>4, <1>6, ElevConstants, OneMore
<1>9. streak' \in Nat /\ streak' <= Cardinality(PastCalls')
  BY <1>3, <1>7 DEF Tallies
<1>10. misses' \in Nat /\ misses' <= Cardinality(FailedCalls')
  BY <1>3, <1>8 DEF Tallies
<1> QED
  BY <1>9, <1>10 DEF Tallies

LEMMA TalliesKeep ==
  ASSUME Inv, Tallies, [Next]_vars
  PROVE  Tallies'
<1>1. CASE UNCHANGED <<pc, streak, misses>>
  BY <1>1 DEF Tallies, PastCalls, FailedCalls
<1>2. ASSUME NEW h \in Helpers, Serve(h) \/ Kill(h) \/ LateAnswer(h) PROVE UNCHANGED <<pc, streak, misses>>
  BY <1>2 DEF Serve, List, Take, Answer, Exit, Kill, LateAnswer, client, history
<1>3. CASE LateHeal \/ Tick \/ UNCHANGED vars
  BY <1>3, <1>1 DEF LateHeal, Tick, vars, client, history
<1> QED
  BY <1>1, <1>2, <1>3, CallerTallies DEF Next

TypeInv == Inv /\ ClientTypes /\ FileTypes /\ HelperTypes /\ InfraTypes /\ Tallies

LEMMA TypeInvHolds == Spec => []TypeInv
<1>1. Init => TypeInv
  <2> SUFFICES ASSUME Init PROVE TypeInv
    OBVIOUS
  <2>1. ClientTypes
    <3>1. \A c \in Calls : 0 \in 0..MaxLeft
      BY LongestWait
    <3> QED
      BY <3>1 DEF Init, ClientTypes
  <2>2. FileTypes
    BY DEF Init, FileTypes, Fresh
  <2>3. HelperTypes
    BY HelperKind DEF Init, HelperTypes
  <2>4. InfraTypes
    BY ElevConstants DEF Init, InfraTypes
  <2>5. Tallies
    <3>1. Cardinality(PastCalls) \in Nat /\ Cardinality(FailedCalls) \in Nat
      <4>1. PastCalls \in SUBSET Calls /\ FailedCalls \in SUBSET Calls
        BY DEF PastCalls, FailedCalls
      <4> QED
        BY <4>1, ElevConstants, OneMore
    <3>2. streak = 0 /\ misses = 0
      BY DEF Init
    <3> QED
      BY <3>1, <3>2 DEF Tallies
  <2> QED
    BY <2>1, <2>2, <2>3, <2>4, <2>5, InitHolds DEF TypeInv
<1>2. TypeInv /\ [Next]_vars => TypeInv'
  BY StepKeeps, ClientKeep, FilesKeep, HelpersKeep, InfraKeep, TalliesKeep DEF TypeInv
<1> QED
  BY <1>1, <1>2, PTL DEF Spec

\* Every part of the ladder, the directory and the helpers stays of its kind: no wait is longer
\* than the longest timeout, the breaker counts a call once at most, and a payload that is
\* written twice is dispatched twice at most.
THEOREM ElevTypeCorrect == Spec => []TypeOK
<1>1. ASSUME TypeInv PROVE TypeOK
  <2> USE DEF TypeInv
  <2>1. /\ pc \in [Calls -> Phases] /\ left \in [Calls -> 0..MaxLeft] /\ lock \in Calls \cup {None}
        /\ file \in [Calls -> BOOLEAN] /\ age \in [Calls -> 0..(Fresh + 1)]
        /\ result \in [Calls -> {"none", "ok", "err", "unsigned"}]
    BY <1>1 DEF Inv, LadderTypes, Results, ClientTypes, FileTypes
  <2>2. \A h \in Helpers :
          /\ helper[h].state \in {"off", "start", "work"}
          /\ helper[h].todo \subseteq Calls /\ helper[h].mem \subseteq Calls
          /\ helper[h].cur \in Calls \cup {None} /\ helper[h].loaded \in BOOLEAN
    <3> SUFFICES ASSUME NEW h \in Helpers
                 PROVE  /\ helper[h].state \in {"off", "start", "work"}
                        /\ helper[h].todo \subseteq Calls /\ helper[h].mem \subseteq Calls
                        /\ helper[h].cur \in Calls \cup {None} /\ helper[h].loaded \in BOOLEAN
      OBVIOUS
    <3>1. helper[h] \in HelperStates
      BY <1>1 DEF HelperTypes
    <3> QED
      BY <3>1 DEF HelperStates
  <2>3. disk \subseteq Calls /\ served \subseteq Calls
    BY <1>1 DEF HelperTypes
  <2>4. /\ task \in {"good", "wrong", "missing"} /\ healTried \in {"no", "hung", "yes"}
        /\ declined \in BOOLEAN /\ prompts \subseteq Helpers \ {Task} /\ kills \in 0..MaxKills
    BY <1>1 DEF InfraTypes
  <2>5. filed \in [Calls -> 0..3]
    BY <1>1 DEF Inv, LadderTypes, FileTypes
  <2>6. streak \in 0..(2 * Cardinality(Calls)) /\ misses \in 0..Cardinality(Calls)
    <3>1. PastCalls \in SUBSET Calls /\ FailedCalls \in SUBSET Calls
      BY DEF PastCalls, FailedCalls
    <3>2. /\ Cardinality(PastCalls) \in Nat /\ Cardinality(PastCalls) <= Cardinality(Calls)
          /\ Cardinality(FailedCalls) \in Nat /\ Cardinality(FailedCalls) <= Cardinality(Calls)
      BY <3>1, ElevConstants, OneMore
    <3> QED
      BY <1>1, <3>2, ElevConstants DEF Tallies
  <2> QED
    BY <2>1, <2>2, <2>3, <2>4, <2>5, <2>6 DEF TypeOK
<1> QED
  BY <1>1, TypeInvHolds, PTL

\* A payload is dispatched from its file twice at most, whatever the timeouts, the helpers and
\* the prompts: the second time after the poll that the first did not answer.
THEOREM DispatchedTwiceAtMost == Spec => [](\A c \in Calls : filed[c] <= 2)
<1>1. TypeInv => \A c \in Calls : filed[c] <= 2
  BY DEF TypeInv, FileTypes
<1> QED
  BY <1>1, TypeInvHolds, PTL
================================================================================
