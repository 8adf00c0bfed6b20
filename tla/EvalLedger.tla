------------------------------ MODULE EvalLedger ------------------------------
(***************************************************************************)
(* What an output directory of the evaluation pipeline promises, whatever  *)
(* mode of eval_pipeline/run.py fills it and however often the process is  *)
(* killed and started again: every task gets at most one prediction, the   *)
(* prediction is never replaced, and the verification of a task judges the *)
(* prediction that is on file.                                             *)
(*                                                                         *)
(* A task may be judged without a prediction on file only from the start   *)
(* (Legacy): the interactive mode flushes the verification row before the  *)
(* prediction row, so an earlier run that was killed can have left one.    *)
(***************************************************************************)

CONSTANTS Tasks,     \* the tasks of the benchmark
          Answers,   \* the answers a prediction may hold
          None,      \* no row
          Legacy     \* a verification row some earlier interactive run left

VARIABLES pred,      \* the answer of the task's prediction row, or None
          ver        \* the answer its verification row judges, Legacy, or None

Init ==
  /\ pred \in [Tasks -> Answers \cup {None}]
  /\ ver \in [Tasks -> Answers \cup {None, Legacy}]
  /\ \A t \in Tasks : ver[t] \in {None, Legacy, pred[t]}

(* A first and final prediction for t. *)
Predict(t, a) ==
  /\ pred[t] = None
  /\ pred' = [pred EXCEPT ![t] = a]
  /\ UNCHANGED ver

(* The prediction on file is judged, once. *)
Judge(t) ==
  /\ pred[t] # None
  /\ ver[t] = None
  /\ ver' = [ver EXCEPT ![t] = pred[t]]
  /\ UNCHANGED pred

Next == \E t \in Tasks : Judge(t) \/ \E a \in Answers : Predict(t, a)

Spec == Init /\ [][Next]_<<pred, ver>>

===============================================================================
