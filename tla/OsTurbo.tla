-------------------------------- MODULE OsTurbo --------------------------------
(***************************************************************************)
(* OS Turbo (hw/os_turbo.rs): background processes are throttled and the   *)
(* power scheme is raised by commands that run in the bridge service; a    *)
(* recovery snapshot on disk remembers what to put back. A worker in the   *)
(* app looks every 30 s whether processes have drifted and has the bridge  *)
(* throttle them again.                                                    *)
(***************************************************************************)
EXTENDS Naturals

CONSTANTS Procs,       \* throttle candidates, by process id
          MaxRestarts, \* bound on exits whose process id is used again
          MaxTurboFaults, \* bound on failed writes, crashes and user actions
          Overlap      \* a refresh may run beside set_os_turbo in the bridge

ASSUME TurboAssumption == MaxRestarts \in Nat /\ MaxTurboFaults \in Nat /\ Overlap \in BOOLEAN

WorkerFailureThreshold == 3
NoSnap == [scheme |-> "none", procs |-> <<>>]

VARIABLES
  enabled,     \* HKLM Enabled
  snap,        \* os_turbo_recovery.json: the scheme, each process's identity and state
  scheme,      \* the active power scheme: mine, other, or high (HIGH_PERFORMANCE_SCHEME)
  proc,        \* per process id: its identity and power state, own, eco or other
  setJob,      \* set_os_turbo in the bridge: where it is
  sweepJob,    \* refresh_os_turbo in the bridge: idle or apply
  seen,        \* per job: the snapshot it works from
  todo,        \* per job: the processes it has not come to
  failed,      \* the disabling has failed to restore a process or the scheme
  turboWorker, \* the worker of the app: off, on, sweep (awaits the refresh)
  stopAsked,   \* WorkerState.stop
  streak, backoff,  \* consecutive_failures, backoff_until in the future
  lost,        \* history: the snapshot was deleted from outside
  turboFaults

turboVars == <<enabled, snap, scheme, proc, setJob, sweepJob, seen, todo, failed, turboWorker,
               stopAsked, streak, backoff, lost, turboFaults>>
bridgeJobs == <<setJob, sweepJob, seen, todo, failed>>
workerVars == <<turboWorker, stopAsked, streak, backoff>>

PowerStates == {"own", "eco", "other"}
Schemes == {"mine", "other", "high"}
Identities == [gen : 0..MaxRestarts, state : PowerStates]
Snapshots ==
  {NoSnap} \cup [scheme : Schemes, procs : UNION {[S -> Identities] : S \in SUBSET Procs}]

TurboTypeOK ==
  /\ enabled \in BOOLEAN /\ snap \in Snapshots /\ scheme \in Schemes
  /\ proc \in [Procs -> Identities]
  /\ setJob \in {"idle", "flag", "raise", "apply", "restore", "lower", "unflag", "remove"}
  /\ sweepJob \in {"idle", "apply"}
  /\ seen \in [{"set", "sweep"} -> Snapshots] /\ todo \in [{"set", "sweep"} -> SUBSET Procs]
  /\ {failed, stopAsked, backoff, lost} \subseteq BOOLEAN /\ turboWorker \in {"off", "on", "sweep"}
  /\ streak \in 0..WorkerFailureThreshold /\ turboFaults \in 0..MaxTurboFaults

TurboInit ==
  /\ enabled = FALSE /\ snap = NoSnap /\ scheme = "mine"
  /\ proc = [p \in Procs |-> [gen |-> 0, state |-> "own"]]
  /\ setJob = "idle" /\ sweepJob = "idle" /\ failed = FALSE
  /\ seen = [j \in {"set", "sweep"} |-> NoSnap] /\ todo = [j \in {"set", "sweep"} |-> {}]
  /\ turboWorker = "on" /\ stopAsked = FALSE /\ streak = 0 /\ backoff = FALSE
  /\ lost = FALSE /\ turboFaults = 0

Fault == turboFaults < MaxTurboFaults /\ turboFaults' = turboFaults + 1

\* A write either works, or fails with or without its effect.
Works == UNCHANGED turboFaults

-----------------------------------------------------------------------------
(* set_os_turbo(true).                                                     *)

\* capture_recovery_snapshot and save_recovery_snapshot: the processes that can
\* be opened and read. A snapshot or a flag already there ends the command.
Enable ==
  /\ setJob = "idle" /\ (Overlap \/ sweepJob = "idle")
  /\ ~enabled /\ snap = NoSnap
  /\ \E S \in SUBSET Procs :
       snap' = [scheme |-> scheme, procs |-> [p \in S |-> proc[p]]]
  /\ seen' = [seen EXCEPT !["set"] = snap'] /\ setJob' = "flag"
  /\ UNCHANGED <<enabled, scheme, proc, sweepJob, todo, failed, workerVars, lost, turboFaults>>

PersistOn ==
  /\ setJob = "flag"
  /\ \/ Works /\ enabled' = TRUE /\ setJob' = "raise"
     \/ Fault /\ setJob' = "idle" /\ UNCHANGED enabled
  /\ UNCHANGED <<snap, scheme, proc, sweepJob, seen, todo, failed, workerVars, lost>>

RaiseScheme ==
  /\ setJob = "raise"
  /\ \/ Works /\ scheme' = "high" /\ setJob' = "apply"
        /\ todo' = [todo EXCEPT !["set"] = DOMAIN seen["set"].procs]
     \/ Fault /\ scheme' \in {scheme, "high"} /\ setJob' = "idle" /\ UNCHANGED todo
  /\ UNCHANGED <<enabled, snap, proc, sweepJob, seen, failed, workerVars, lost>>

\* The process of the snapshot is still the one that has its id.
SameProcess(job, p) == proc[p].gen = seen[job].procs[p].gen

\* One process of enable_os_turbo or of refresh_os_turbo (throttle_readback).
ThrottleOne(job, p) ==
  /\ p \in todo[job] /\ todo' = [todo EXCEPT ![job] = @ \ {p}]
  /\ IF SameProcess(job, p)
     THEN \/ Works /\ proc' = [proc EXCEPT ![p].state = "eco"]
          \/ Fault /\ \E s \in {proc[p].state, "eco"} : proc' = [proc EXCEPT ![p].state = s]
     ELSE Works /\ UNCHANGED proc
  /\ UNCHANGED <<enabled, snap, scheme, setJob, sweepJob, seen, failed, workerVars, lost>>

\* set_os_turbo returns and the app starts its worker (start_worker): after a failed
\* write the command fails and the worker is left as it is.
Enabled ==
  /\ setJob = "apply" /\ todo["set"] = {}
  /\ setJob' = "idle"
  /\ \/ stopAsked' = FALSE /\ turboWorker' = IF turboWorker = "off" THEN "on" ELSE turboWorker
     \/ UNCHANGED <<turboWorker, stopAsked>>
  /\ UNCHANGED <<enabled, snap, scheme, proc, sweepJob, seen, todo, failed, streak, backoff,
                 lost, turboFaults>>

-----------------------------------------------------------------------------
(* set_os_turbo(false).                                                    *)

Disable ==
  /\ setJob = "idle" /\ (Overlap \/ sweepJob = "idle")
  /\ snap # NoSnap
  /\ seen' = [seen EXCEPT !["set"] = snap]
  /\ todo' = [todo EXCEPT !["set"] = DOMAIN snap.procs]
  /\ failed' = FALSE /\ setJob' = "restore"
  /\ UNCHANGED <<enabled, snap, scheme, proc, sweepJob, workerVars, lost, turboFaults>>

\* A throttled process gets its original state; one that has exited, or has changed
\* its state since, is left alone.
RestoreOne(p) ==
  /\ setJob = "restore" /\ p \in todo["set"]
  /\ todo' = [todo EXCEPT !["set"] = @ \ {p}]
  /\ IF SameProcess("set", p) /\ proc[p].state = "eco"
     THEN \/ /\ Works /\ proc' = [proc EXCEPT ![p].state = seen["set"].procs[p].state]
             /\ UNCHANGED failed
          \/ Fault /\ failed' = TRUE /\ UNCHANGED proc
     ELSE Works /\ UNCHANGED <<proc, failed>>
  /\ UNCHANGED <<enabled, snap, scheme, setJob, sweepJob, seen, workerVars, lost>>

\* Mutant: a process that could not be restored does not stop the end.
LowerSchemeAnyway ==
  /\ setJob = "restore" /\ todo["set"] = {}
  /\ LET mayLower == scheme = "high" /\ seen["set"].scheme # "high" IN
     /\ Works /\ scheme' = IF mayLower THEN seen["set"].scheme ELSE scheme
     /\ setJob' = "unflag"
  /\ UNCHANGED <<enabled, snap, proc, sweepJob, seen, todo, failed, workerVars, lost>>

\* The scheme is put back if it is still Turbo's; a failure before or now keeps the
\* flag and the snapshot.
LowerScheme ==
  /\ setJob = "restore" /\ todo["set"] = {}
  /\ LET mayLower == scheme = "high" /\ seen["set"].scheme # "high" IN
     \/ /\ Works /\ scheme' = IF mayLower THEN seen["set"].scheme ELSE scheme
        /\ setJob' = IF failed THEN "idle" ELSE "unflag"
     \/ mayLower /\ Fault /\ setJob' = "idle" /\ UNCHANGED scheme
  /\ UNCHANGED <<enabled, snap, proc, sweepJob, seen, todo, failed, workerVars, lost>>

PersistOff ==
  /\ setJob = "unflag"
  /\ \/ Works /\ enabled' = FALSE /\ setJob' = "remove"
     \/ Fault /\ setJob' = "idle" /\ UNCHANGED enabled
  /\ UNCHANGED <<snap, scheme, proc, sweepJob, seen, todo, failed, workerVars, lost>>

\* remove_recovery_snapshot; after it the app stops its worker (stop_worker).
RemoveSnapshot ==
  /\ setJob = "remove" /\ setJob' = "idle"
  /\ \/ Works /\ snap' = NoSnap /\ stopAsked' = TRUE
     \/ Fault /\ UNCHANGED <<snap, stopAsked>>
  /\ UNCHANGED <<enabled, scheme, proc, sweepJob, seen, todo, failed, turboWorker, streak, backoff,
                 lost>>

-----------------------------------------------------------------------------
(* The worker and refresh_os_turbo.                                        *)

\* run_sweep: not while disabled, stopped or backing off; the bridge is asked only
\* when a process of the snapshot has drifted (measure_sweep).
Drifted == \E p \in DOMAIN snap.procs : proc[p].gen = snap.procs[p].gen /\ proc[p].state # "eco"
Sweep ==
  /\ turboWorker = "on" /\ ~stopAsked /\ enabled /\ ~backoff /\ (Overlap \/ setJob = "idle")
  /\ \/ /\ Drifted
        /\ turboWorker' = "sweep" /\ sweepJob' = "apply"
        /\ seen' = [seen EXCEPT !["sweep"] = snap]
        /\ todo' = [todo EXCEPT !["sweep"] = DOMAIN snap.procs]
        /\ UNCHANGED <<streak, turboFaults>>
     \/ streak' = 0   \* nothing has drifted, or the bridge is not there
        /\ UNCHANGED <<turboWorker, sweepJob, seen, todo, turboFaults>>
  /\ UNCHANGED <<enabled, snap, scheme, proc, setJob, failed, stopAsked, backoff, lost>>

Refreshed ==
  /\ sweepJob = "apply" /\ todo["sweep"] = {}
  /\ sweepJob' = "idle" /\ turboWorker' = "on" /\ streak' = 0
  /\ UNCHANGED <<enabled, snap, scheme, proc, setJob, seen, todo, failed, stopAsked, backoff,
                 lost, turboFaults>>

\* The bridge is busy or its command fails half-way: note_failure.
RefreshFails ==
  /\ turboWorker = "sweep"
  /\ turboWorker' = "on"
  /\ streak' = IF streak < WorkerFailureThreshold THEN streak + 1 ELSE streak
  /\ backoff' = (streak' >= WorkerFailureThreshold)
  /\ sweepJob' = "idle" /\ todo' = [todo EXCEPT !["sweep"] = {}]
  /\ UNCHANGED <<enabled, snap, scheme, proc, setJob, seen, failed, stopAsked, lost,
                 turboFaults>>

BackoffEnds ==
  /\ backoff /\ backoff' = FALSE
  /\ UNCHANGED <<enabled, snap, scheme, proc, bridgeJobs, turboWorker, stopAsked, streak, lost,
                 turboFaults>>

\* The loop sees the flag at its tick.
WorkerStops ==
  /\ turboWorker = "on" /\ stopAsked
  /\ turboWorker' = "off"
  /\ UNCHANGED <<enabled, snap, scheme, proc, bridgeJobs, stopAsked, streak, backoff, lost,
                 turboFaults>>

-----------------------------------------------------------------------------
(* The surroundings.                                                       *)

\* The bridge service is killed in the middle.
BridgeDies ==
  /\ Fault /\ ~(setJob = "idle" /\ sweepJob = "idle")
  /\ setJob' = "idle" /\ sweepJob' = "idle" /\ todo' = [j \in {"set", "sweep"} |-> {}]
  /\ turboWorker' = IF turboWorker = "sweep" THEN "on" ELSE turboWorker
  /\ UNCHANGED <<enabled, snap, scheme, proc, seen, failed, stopAsked, streak, backoff, lost>>

\* A process exits and another gets its id.
Restart(p) ==
  /\ proc[p].gen < MaxRestarts
  /\ proc' = [proc EXCEPT ![p] = [gen |-> @.gen + 1, state |-> "own"]]
  /\ UNCHANGED <<enabled, snap, scheme, bridgeJobs, workerVars, lost, turboFaults>>

\* The user takes another scheme, or something changes a process's state.
Change ==
  /\ Fault
  /\ \/ scheme' = "other" /\ UNCHANGED proc
     \/ \E p \in Procs : proc' = [proc EXCEPT ![p].state = "other"] /\ UNCHANGED scheme
  /\ UNCHANGED <<enabled, snap, bridgeJobs, workerVars, lost>>

\* An installation cleans ProgramData; get_os_turbo then takes a fresh snapshot.
LoseSnapshot ==
  /\ Fault /\ enabled /\ snap # NoSnap /\ setJob = "idle" /\ ~lost
  /\ snap' = NoSnap /\ lost' = TRUE
  /\ UNCHANGED <<enabled, scheme, proc, bridgeJobs, workerVars>>
AutoRepair ==
  /\ enabled /\ snap = NoSnap
  /\ snap' = [scheme |-> scheme, procs |-> proc]
  /\ UNCHANGED <<enabled, scheme, proc, bridgeJobs, workerVars, lost, turboFaults>>

SetSteps == Enable \/ PersistOn \/ RaiseScheme \/ Enabled \/ Disable \/ LowerScheme
            \/ PersistOff \/ RemoveSnapshot \/ \E p \in Procs : RestoreOne(p)
SweepSteps == Sweep \/ Refreshed \/ RefreshFails \/ BackoffEnds \/ WorkerStops

TurboNext ==
  \/ SetSteps \/ SweepSteps
  \/ \E p \in Procs, job \in {"set", "sweep"} :
       (job = "set" => setJob = "apply") /\ ThrottleOne(job, p)
  \/ BridgeDies \/ Change \/ LoseSnapshot \/ AutoRepair \/ \E p \in Procs : Restart(p)

TurboSpec == TurboInit /\ [][TurboNext]_turboVars

-----------------------------------------------------------------------------
(* Properties.                                                             *)

\* What Turbo has changed can be put back: a process it throttles, and the scheme it
\* raised, are in the snapshot as they were before, through failed writes, exits and
\* reused ids, crashes of the service and changes by others (the reversible state of
\* S39-002). A snapshot deleted from outside is beyond it.
TurboIsReversible ==
  \/ lost
  \/ /\ \A p \in Procs : proc[p].state = "eco" =>
          p \in DOMAIN snap.procs /\ snap.procs[p].gen = proc[p].gen
            /\ snap.procs[p].state # "eco"
     /\ scheme = "high" => snap # NoSnap /\ snap.scheme # "high"
================================================================================
