---------------------------- MODULE InstallPromise ----------------------------
(***************************************************************************)
(* What an installation transaction promises, with no word of how.  At any *)
(* time one installation is in force.  A run first repairs what an         *)
(* interrupted run left, and opens only with the installation in force     *)
(* intact.  While open it may disturb the files.  It closes with an        *)
(* outcome only when the installation in force, the old one or one newly   *)
(* put in force, is intact; only an interruption closes it otherwise.      *)
(***************************************************************************)
VARIABLES
  inForce,   \* the installation that counts
  intact,    \* are its critical files the live ones?
  phase,     \* "closed", "repairing" or "open"
  outcome    \* how the last run ended

vars == <<inForce, intact, phase, outcome>>

Outcomes == {"ok", "aborted", "rolledback", "partial"}

Init == intact = TRUE /\ phase = "closed" /\ outcome = "none"

Begin == /\ phase = "closed"
         /\ phase' = "repairing" /\ outcome' = "none"
         /\ UNCHANGED <<inForce, intact>>

Repair == /\ phase = "repairing" /\ intact' \in BOOLEAN
          /\ UNCHANGED <<inForce, phase, outcome>>

Open == /\ phase = "repairing" /\ intact
        /\ phase' = "open"
        /\ UNCHANGED <<inForce, intact, outcome>>

Disturb == /\ phase = "open" /\ intact' \in BOOLEAN
           /\ UNCHANGED <<inForce, phase, outcome>>

PutInForce == /\ phase = "open" /\ intact' = TRUE
              /\ UNCHANGED <<phase, outcome>>

Close == /\ phase = "open" /\ intact
         /\ phase' = "closed" /\ outcome' \in Outcomes
         /\ UNCHANGED <<inForce, intact>>

Interrupt == /\ phase # "closed"
             /\ phase' = "closed" /\ outcome' = "crashed"
             /\ UNCHANGED <<inForce, intact>>

Next == Begin \/ Repair \/ Open \/ Disturb \/ PutInForce \/ Close \/ Interrupt

Spec == Init /\ [][Next]_vars

=============================================================================
