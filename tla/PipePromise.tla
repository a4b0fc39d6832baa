------------------------------ MODULE PipePromise ------------------------------
(***************************************************************************)
(* What one round trip over the bridge pipe promises its caller: the       *)
(* command is carried out at most once, the caller gets exactly one        *)
(* verdict, and "ok" only for a command that was carried out with success. *)
(* A caller that is told "err" knows nothing: the command may have been    *)
(* carried out, or may be carried out later.                               *)
(***************************************************************************)
CONSTANT Clients

VARIABLES
  outcome,   \* per client: what its caller was told
  done       \* per client: how its command ended, once it has

vars == <<outcome, done>>

Init == /\ outcome = [c \in Clients |-> "none"]
        /\ done = [c \in Clients |-> "none"]

CarryOut(c) == /\ done[c] = "none"
               /\ \E r \in {"ok", "err"} : done' = [done EXCEPT ![c] = r]
               /\ UNCHANGED outcome

Tell(c) == /\ outcome[c] = "none"
           /\ \/ done[c] = "ok" /\ outcome' = [outcome EXCEPT ![c] = "ok"]
              \/ outcome' = [outcome EXCEPT ![c] = "err"]
           /\ UNCHANGED done

Next == \E c \in Clients : CarryOut(c) \/ Tell(c)

Spec == Init /\ [][Next]_vars

=============================================================================
