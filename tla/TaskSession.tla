------------------------------ MODULE TaskSession ------------------------------
(***************************************************************************)
(* What an interactive benchmark promises run.py about one attempt at a    *)
(* task, whatever the planner, its workers and the docker host do: the     *)
(* environment is started at most once, judged at most once and before it  *)
(* is torn down, and the verdict is handed over only when no environment   *)
(* is left that nobody tried to remove.  The one exception is a start that *)
(* ended without an answer: what it may have started keeps no name under   *)
(* which the program could remove it, and is never judged.                 *)
(***************************************************************************)

CONSTANT Unjudged   \* no verdict: it counts as reward 0

VARIABLES container, \* "none", "up", "gone" (its removal was tried) or "lost"
                     \* (it may be up, and nobody tries to remove it)
          verdict,   \* the reward, or Unjudged
          delivered  \* interactive_verify has returned or raised

Init ==
  /\ container = "none"
  /\ verdict = Unjudged
  /\ delivered = FALSE

Start ==
  /\ ~delivered
  /\ container = "none" /\ container' = "up"
  /\ UNCHANGED <<verdict, delivered>>

(* What was started by then is removed at once, or lost. *)
StartFails ==
  /\ ~delivered
  /\ container = "none" /\ container' \in {"gone", "lost"}
  /\ UNCHANGED <<verdict, delivered>>

(* An attempt without a container (a local workspace) is judged as it is. *)
Judge ==
  /\ ~delivered
  /\ container \in {"none", "up"}
  /\ verdict = Unjudged
  /\ verdict' \in {0, 1}
  /\ UNCHANGED <<container, delivered>>

Remove ==
  /\ ~delivered
  /\ container = "up" /\ container' = "gone"
  /\ UNCHANGED <<verdict, delivered>>

Deliver ==
  /\ ~delivered
  /\ container # "up"
  /\ delivered' = TRUE
  /\ UNCHANGED <<container, verdict>>

Next == Start \/ StartFails \/ Judge \/ Remove \/ Deliver

Spec == Init /\ [][Next]_<<container, verdict, delivered>>

===============================================================================
