---------------------------- MODULE AttemptedEval ----------------------------
(***************************************************************************)
(* The pass@k modes of eval_pipeline/run.py: a pool runs up to PassK       *)
(* attempts of every unverified task, the main thread collects the futures *)
(* and writes two rows for each, in an order that depends on the mode:     *)
(*   "attempted"    _run_attempted_noninteractive: prediction, verdict;    *)
(*   "interactive"  _run_interactive: verdict, then the prediction if the  *)
(*                  file has none for the task.                            *)
(* The process can be killed between any two steps and started again, an   *)
(* attempt can raise, and so can the writing of a row.                     *)
(*                                                                         *)
(* Abstractions.  A verdict row is its pass_at_k list, a reward being 0 or *)
(* 1.  A prediction row is its number of attempts and the sum of their     *)
(* costs, an attempt costing 1.  The dicts of the process agree with the   *)
(* files at the keys the code reads, so they are not state of their own.   *)
(* A row fits its stream's buffer, so it is in the file once it is flushed *)
(* and a kill before that loses it; a failing write leaves no torn row.    *)
(***************************************************************************)
EXTENDS Naturals, Sequences, SequencesExt, FiniteSets

CONSTANTS Tasks,
          PassK,     \* args.pass_k
          None,      \* no task
          MaxRuns    \* bound: how often the command is started

ASSUME AttemptedAssumption ==
  /\ PassK \in Nat \ {0}
  /\ MaxRuns \in Nat
  /\ None \notin Tasks

VARIABLES
  mode,       \* the mode in which the directory is filled
  predFile,   \* predictions.jsonl: the rows of each task
  verFile,    \* verification.jsonl: the rows of each task
  runs,       \* how often the command was started
  main,       \* "down", "running", "aborting" (the collecting loop raised; the
              \* executor waits for the other futures), "failed" or "reported"
  fut,        \* "none", "submitted", "done", "raised", "handled" (both rows are
              \* written) or "unwritten" (writing one of them raised)
  rewards,    \* the rewards of the attempts of a future
  cost,       \* the costs its attempt entries hold, summed
  collecting, \* the task between its two rows, or None
  paid,       \* history: attempts that ran, over all runs
  interrupted,\* history: a run was killed, or its collecting loop raised
  orphaned,   \* history: tasks killed between their two rows
  unwritten   \* history: tasks one of whose rows raised when it was written

files == <<predFile, verFile>>
work == <<fut, rewards, cost>>
history == <<paid, interrupted, orphaned, unwritten>>
vars == <<mode, files, runs, main, work, collecting, history>>

-------------------------------------------------------------------------------
(* A row that a one-shot run left: it has no "attempts". *)
OldRow == [attempts |-> 0, cost |-> 1]

Init ==
  /\ mode \in {"attempted", "interactive"}
  /\ predFile \in [Tasks -> {<<>>, <<OldRow>>}]
  /\ verFile = [t \in Tasks |-> <<>>]
  /\ runs = 0
  /\ main = "down"
  /\ fut = [t \in Tasks |-> "none"]
  /\ rewards = [t \in Tasks |-> <<>>]
  /\ cost = [t \in Tasks |-> 0]
  /\ collecting = None
  /\ paid = [t \in Tasks |-> 0]
  /\ interrupted = FALSE
  /\ orphaned = {}
  /\ unwritten = {}

(* A bug the code does not have: a task with a prediction is run again,    *)
(* verified or not.                                                        *)
ToRun_Predicted == {t \in Tasks : verFile[t] = <<>> \/ predFile[t] # <<>>}

(* to_run *)
ToRun == {t \in Tasks : verFile[t] = <<>>}

Start ==
  /\ main \notin {"running", "aborting"}
  /\ runs < MaxRuns
  /\ runs' = runs + 1
  /\ main' = "running"
  /\ fut' = [t \in Tasks |-> IF t \in ToRun THEN "submitted" ELSE "none"]
  /\ UNCHANGED <<mode, files, rewards, cost, collecting, history>>

(* The threads are gone. *)
Idle ==
  /\ fut' = [t \in Tasks |-> "none"]
  /\ rewards' = [t \in Tasks |-> <<>>]
  /\ cost' = [t \in Tasks |-> 0]
  /\ collecting' = None

Crash ==
  /\ main \in {"running", "aborting"}
  /\ main' = "down"
  /\ Idle
  /\ interrupted' = TRUE
  /\ orphaned' = orphaned \cup ({collecting} \ {None})
  /\ UNCHANGED <<mode, files, runs, paid, unwritten>>

-------------------------------------------------------------------------------
(* A bug the code does not have: the attempts are counted one too late. *)
Attempt_OneMore(t) ==
  /\ fut[t] = "submitted"
  /\ paid' = [paid EXCEPT ![t] = @ + 1]
  /\ \E reward \in {0, 1} :
       /\ rewards' = [rewards EXCEPT ![t] = Append(@, reward)]
       /\ cost' = [cost EXCEPT ![t] = @ + 1]
       /\ fut' = IF reward > 0 \/ Len(rewards[t]) = PassK
                 THEN [fut EXCEPT ![t] = "done"] ELSE fut
  /\ UNCHANGED <<mode, files, runs, main, collecting, interrupted, orphaned, unwritten>>

(* One round of _one or _run_one_task: it raises, or its reward is kept    *)
(* and a success or the last attempt ends the future.  An interactive      *)
(* attempt whose trajectory.json is missing counts as free.                *)
Attempt(t) ==
  /\ fut[t] = "submitted"
  /\ paid' = [paid EXCEPT ![t] = @ + 1]
  /\ \/ /\ fut' = [fut EXCEPT ![t] = "raised"]
        /\ UNCHANGED <<rewards, cost>>
     \/ \E reward \in {0, 1}, c \in {0, 1} :
          /\ c = 0 => mode = "interactive"
          /\ rewards' = [rewards EXCEPT ![t] = Append(@, reward)]
          /\ cost' = [cost EXCEPT ![t] = @ + c]
          /\ fut' = IF reward > 0 \/ Len(rewards[t]) + 1 = PassK
                    THEN [fut EXCEPT ![t] = "done"] ELSE fut
  /\ UNCHANGED <<mode, files, runs, main, collecting, interrupted, orphaned, unwritten>>

(* A bug the code does not have: only the last attempt is merged. *)
PredictionRow_LastAttempt(t) ==
  [attempts |-> 1, cost |-> IF cost[t] = 0 THEN 0 ELSE 1]

(* _merge_attempt_entries and _merge_interactive_attempt_entries *)
PredictionRow(t) == [attempts |-> Len(rewards[t]), cost |-> cost[t]]

AddPrediction(t) == predFile' = [predFile EXCEPT ![t] = Append(@, PredictionRow(t))]
AddVerdict(t) == verFile' = [verFile EXCEPT ![t] = Append(@, rewards[t])]

(* A bug the code does not have: the verdict is flushed first. *)
WriteFirstRow_VerdictFirst(t) ==
  /\ main = "running" /\ collecting = None
  /\ fut[t] = "done"
  /\ collecting' = t
  /\ AddVerdict(t) /\ UNCHANGED predFile
  /\ UNCHANGED <<mode, runs, main, work, history>>

(* as_completed yields a future; the first row is flushed. *)
WriteFirstRow(t) ==
  /\ main = "running" /\ collecting = None
  /\ fut[t] = "done"
  /\ collecting' = t
  /\ IF mode = "attempted"
     THEN AddPrediction(t) /\ UNCHANGED verFile
     ELSE AddVerdict(t) /\ UNCHANGED predFile
  /\ UNCHANGED <<mode, runs, main, work, history>>

(* A bug the code does not have: only a task that passed gets its row. *)
WriteSecondRow_OnlyPassed(t) ==
  /\ collecting = t
  /\ collecting' = None
  /\ fut' = [fut EXCEPT ![t] = "handled"]
  /\ IF mode = "attempted"
     THEN AddVerdict(t) /\ UNCHANGED predFile
     ELSE /\ UNCHANGED verFile
          /\ IF predFile[t] = <<>> /\ Last(rewards[t]) > 0
             THEN AddPrediction(t) ELSE UNCHANGED predFile
  /\ UNCHANGED <<mode, runs, main, rewards, cost, history>>

(* The second row is flushed; interactive modes keep an older prediction. *)
WriteSecondRow(t) ==
  /\ collecting = t
  /\ collecting' = None
  /\ fut' = [fut EXCEPT ![t] = "handled"]
  /\ IF mode = "attempted"
     THEN AddVerdict(t) /\ UNCHANGED predFile
     ELSE /\ UNCHANGED verFile
          /\ IF predFile[t] = <<>> THEN AddPrediction(t) ELSE UNCHANGED predFile
  /\ UNCHANGED <<mode, runs, main, rewards, cost, history>>

(* Writing a row raises out of the collecting loop. *)
WriteRaises(t) ==
  /\ main' = "aborting"
  /\ fut' = [fut EXCEPT ![t] = "unwritten"]
  /\ collecting' = None
  /\ interrupted' = TRUE
  /\ unwritten' = unwritten \cup {t}
  /\ UNCHANGED <<mode, runs, rewards, cost, paid, orphaned>>

(* A bug the code does not have: a row that cannot be written is skipped.  *)
FirstRowFails_Skipped(t) ==
  /\ main = "running" /\ collecting = None
  /\ fut[t] = "done"
  /\ AddVerdict(t) \/ UNCHANGED verFile
  /\ IF mode = "attempted" THEN AddPrediction(t) \/ UNCHANGED predFile
     ELSE UNCHANGED predFile
  /\ fut' = [fut EXCEPT ![t] = "unwritten"]
  /\ interrupted' = TRUE
  /\ unwritten' = unwritten \cup {t}
  /\ UNCHANGED <<mode, runs, main, collecting, rewards, cost, paid, orphaned>>

(* json.dumps, write or flush of the first row raises.  Non-interactive    *)
(* modes have by then put none, one or both rows into their buffers, which *)
(* leaving the with statement flushes if it can: each row may reach its    *)
(* file without the other.                                                 *)
FirstRowFails(t) ==
  /\ main = "running" /\ collecting = None
  /\ fut[t] = "done"
  /\ AddVerdict(t) \/ UNCHANGED verFile
  /\ IF mode = "attempted" THEN AddPrediction(t) \/ UNCHANGED predFile
     ELSE UNCHANGED predFile
  /\ WriteRaises(t)

(* The second row raises, with the first in its file. *)
SecondRowFails(t) ==
  /\ collecting = t
  /\ IF mode = "attempted"
     THEN /\ AddVerdict(t) \/ UNCHANGED verFile
          /\ UNCHANGED predFile
     ELSE /\ predFile[t] = <<>>
          /\ AddPrediction(t) \/ UNCHANGED predFile
          /\ UNCHANGED verFile
  /\ WriteRaises(t)

(* fut.result() raises out of the collecting loop. *)
Abort(t) ==
  /\ main = "running" /\ collecting = None
  /\ fut[t] = "raised"
  /\ main' = "aborting"
  /\ UNCHANGED <<mode, files, runs, work, collecting, history>>

(* A bug the code does not have: the executor waits for futures that       *)
(* nobody runs any more to be collected.                                   *)
Fail_AllHandled ==
  /\ main = "aborting"
  /\ \A t \in Tasks : fut[t] \in {"none", "raised", "handled", "unwritten"}
  /\ main' = "failed"
  /\ Idle
  /\ interrupted' = TRUE
  /\ UNCHANGED <<mode, files, runs, paid, orphaned, unwritten>>

(* The executor has waited for every other future; their results are       *)
(* dropped, the exception ends the command and no report is printed.       *)
Fail ==
  /\ main = "aborting"
  /\ \A t \in Tasks : fut[t] # "submitted"
  /\ main' = "failed"
  /\ Idle
  /\ interrupted' = TRUE
  /\ UNCHANGED <<mode, files, runs, paid, orphaned, unwritten>>

Report ==
  /\ main = "running" /\ collecting = None
  /\ \A t \in Tasks : fut[t] \in {"none", "handled"}
  /\ main' = "reported"
  /\ Idle
  /\ UNCHANGED <<mode, files, runs, history>>

-------------------------------------------------------------------------------
Collector ==
  \/ \E t \in Tasks : \/ WriteFirstRow(t) \/ WriteSecondRow(t)
                       \/ FirstRowFails(t) \/ SecondRowFails(t) \/ Abort(t)
  \/ Fail \/ Report

Next == Start \/ Crash \/ Collector \/ \E t \in Tasks : Attempt(t)

(* The main thread keeps going and every attempt ends: the model and       *)
(* Docker calls it makes carry timeouts.                                   *)
Fairness == WF_vars(Collector) /\ \A t \in Tasks : WF_vars(Attempt(t))

Spec == Init /\ [][Next]_vars /\ Fairness

-------------------------------------------------------------------------------
PredictionRows == [attempts : 0..PassK, cost : 0..PassK]

Futures == {"none", "submitted", "done", "raised", "handled", "unwritten"}

(* The shape of the files and of the control state; no task ever runs more *)
(* than PassK attempts in one run.                                         *)
TypeOK ==
  /\ mode \in {"attempted", "interactive"}
  /\ predFile \in [Tasks -> Seq(PredictionRows)]
  /\ verFile \in [Tasks -> Seq(Seq({0, 1}))]
  /\ runs \in 0..MaxRuns
  /\ main \in {"down", "running", "aborting", "failed", "reported"}
  /\ fut \in [Tasks -> Futures]
  /\ rewards \in [Tasks -> Seq({0, 1})]
  /\ cost \in [Tasks -> Nat] /\ paid \in [Tasks -> Nat]
  /\ \A t \in Tasks : cost[t] <= Len(rewards[t]) /\ paid[t] <= PassK * runs
  /\ collecting \in Tasks \cup {None}
  /\ interrupted \in BOOLEAN
  /\ orphaned \subseteq Tasks /\ unwritten \subseteq Tasks

(* Whatever is killed when, a task is judged by one row, and a run that    *)
(* gets to its report has judged every task.                               *)
JudgedOnce ==
  \A t \in Tasks : /\ Len(verFile[t]) <= 1
                   /\ main = "reported" => Len(verFile[t]) = 1

(* A verdict never stands without a prediction row, also after kills and   *)
(* aborts, except where a row of that very task could not be written: non- *)
(* interactive, it is the row of the very attempts it judges; interactive, *)
(* a kill between the two rows leaves a verdict alone as well.             *)
VerdictHasItsPrediction ==
  \A t \in Tasks : verFile[t] # <<>> =>
    IF mode = "attempted"
    THEN \/ t \in unwritten
         \/ /\ predFile[t] # <<>>
            /\ Last(predFile[t]).attempts = Len(verFile[t][1])
    ELSE predFile[t] # <<>> \/ t \in orphaned \cup unwritten \cup {collecting}

(* The tasks that are judged and have no prediction, and never get one: no *)
(* later run takes them again.                                             *)
Lost == {t \in Tasks : verFile[t] # <<>> /\ predFile[t] = <<>> /\ collecting # t}

(* However the runs end, each of them loses the prediction of at most one  *)
(* task: the collecting loop ends with the first row it cannot write, and  *)
(* is between the rows of at most one task when it is killed.              *)
OneLostPerRun == Cardinality(Lost) <= runs

(* As long as no run was killed or failed, the prediction row of a judged  *)
(* task counts every attempt that ran, whichever of them passed, and its   *)
(* cost is what the attempts cost (interactive: what their trajectories    *)
(* tell).  A row that an older one-shot run left stays as it is.           *)
AttemptsAccounted ==
  (~interrupted /\ main = "reported") =>
    \A t \in Tasks :
      LET row == Last(predFile[t])
      IN  row # OldRow =>
            /\ row.attempts = paid[t] /\ row.cost <= paid[t]
            /\ mode = "attempted" => row.cost = paid[t]

(* Every started command ends, also when a future raised. *)
RunEnds == (main = "running") ~> (main \notin {"running", "aborting"})

-------------------------------------------------------------------------------
(* The inductive invariant. *)

Live == main \in {"running", "aborting"}

(* Attempts of this run that ran. *)
Ran(t) == Len(rewards[t]) + (IF fut[t] = "raised" THEN 1 ELSE 0)

(* The futures of a run, and none while the command is not running. *)
FutureSound ==
  /\ ~Live => collecting = None /\ \A t \in Tasks : fut[t] = "none"
  /\ Live => runs > 0
  /\ \A t \in Tasks :
       /\ Ran(t) <= PassK
       /\ fut[t] = "none" => rewards[t] = <<>> /\ cost[t] = 0
       /\ fut[t] = "submitted" => Len(rewards[t]) < PassK
       /\ fut[t] \in {"done", "handled", "unwritten"} => Len(rewards[t]) > 0
       /\ mode = "attempted" => cost[t] = Len(rewards[t])

(* No run pays for more than its own attempts. *)
PaidSound ==
  Live => \A t \in Tasks : paid[t] <= PassK * (runs - 1) + Ran(t)

(* A task is run exactly if it has no verdict, and gets it when its future *)
(* is handled, or, interactive, one step earlier.                          *)
VerdictSound ==
  \A t \in Tasks :
    /\ Len(verFile[t]) <= 1
    /\ (Live /\ fut[t] \in {"none", "handled"}) => Len(verFile[t]) = 1
    /\ main = "reported" => Len(verFile[t]) = 1
    /\ (fut[t] \in {"submitted", "done", "raised"} /\ collecting # t) => verFile[t] = <<>>

(* Between its two rows. *)
CollectSound ==
  \A t \in Tasks : collecting = t =>
    /\ main = "running" /\ fut[t] = "done"
    /\ IF mode = "attempted"
       THEN /\ verFile[t] = <<>> /\ predFile[t] # <<>>
            /\ Last(predFile[t]) = PredictionRow(t)
       ELSE Len(verFile[t]) = 1

RowAccounted(t) ==
  LET row == Last(predFile[t])
  IN  row # OldRow =>
        /\ row.attempts = paid[t] /\ row.cost <= paid[t]
        /\ mode = "attempted" => row.cost = paid[t]

(* Attempts are accounted for in the memory of the run until they are in   *)
(* the row.                                                                *)
AccountSound ==
  ~interrupted =>
    \A t \in Tasks :
      IF verFile[t] # <<>> /\ collecting # t
      THEN RowAccounted(t)
      ELSE /\ paid[t] = Ran(t)
           /\ (collecting = t /\ mode = "attempted")
                \/ predFile[t] \in {<<>>, <<OldRow>>}

(* The run that leaves a task half written is over. *)
LossSound ==
  LET half == orphaned \cup unwritten
  IN  /\ IsFiniteSet(half)
      /\ Cardinality(half) <= IF main = "running" THEN runs - 1 ELSE runs

IInv ==
  /\ TypeOK /\ FutureSound /\ PaidSound /\ VerdictSound /\ CollectSound
  /\ VerdictHasItsPrediction /\ AccountSound /\ LossSound

===============================================================================
