---------------------------- MODULE PlannerEpisode ----------------------------
(***************************************************************************)
(* One attempt at a task of an interactive benchmark: a planner model is   *)
(* asked turn after turn, its tool calls delegate subtasks to a SubAgent   *)
(* or run commands, and the outcome is judged.  The three benchmarks have  *)
(* a loop of their own each, and two have a flat variant without workers:  *)
(*   "terminalbench", "terminalbench_flat"   benchmarks/terminalbench.py   *)
(*   "swebench", "swebench_flat"             benchmarks/swebench.py        *)
(*   "rubric"                                benchmarks/rubric_workflow.py *)
(* They differ in what an exception reaches and in when they are judged.   *)
(* The SubAgent's loop (agents/subagent.py) is modelled step by step.      *)
(*                                                                         *)
(* Abstractions.  A model call that is billed costs 1.  A tool call is its *)
(* effect: "empty" lacks an instruction or command, "malformed" has        *)
(* arguments of the wrong type, "other" names a tool the mode lacks.  The  *)
(* files that outlive the attempt are "none", "old" (left in the same      *)
(* directory by an attempt that was killed) or "new".                      *)
(***************************************************************************)
EXTENDS Naturals, Sequences

CONSTANTS MaxAttempts,  \* self.max_attempts: planner turns
          MaxSteps,     \* self.subagent_max_steps
          MaxCalls,     \* bound: tool calls in a turn
          OldCost,      \* the cost in an old trajectory.json
          Unjudged      \* no verdict yet: it is returned as 0

ASSUME PlannerAssumption ==
  /\ MaxAttempts \in Nat \ {0} /\ MaxSteps \in Nat \ {0}
  /\ MaxCalls \in Nat \ {0} /\ OldCost \in Nat
  /\ Unjudged \notin {0, 1}

VARIABLES
  mode,          \* the benchmark and its variant
  pc,
  attempt,       \* planner turns on the trajectory
  calls,         \* the tool calls of this turn still to be processed
  open,          \* tool calls in the conversation without a tool message
  step, tries,   \* the SubAgent's step and the failed calls of this step
  tokens,        \* its prompt_tokens + completion_tokens
  usages,        \* the sum of planner_usages and subagent_usages
  routed,        \* len(routed_models)
  container,     \* "none", "up", "gone" (its removal was tried) or "lost" (it
                 \* may be up, and the executor knows no name to remove it by)
  reward,        \* 0, 1 or Unjudged
  last_error,    \* some error is recorded
  submit_called,
  report,        \* rubric: results/solution_report.md exists
  score,         \* reward.txt or uno_planner_score.json
  trajectory,    \* trajectory.json; "torn" if its write was interrupted
  cost,          \* the cost run.py puts in the attempt's entry
  spent,         \* history: billed model calls
  dropped        \* history: billed calls whose answer was not used

loop == <<attempt, calls, open>>
worker == <<step, tries, tokens>>
result == <<reward, last_error, submit_called>>
disk == <<report, score, trajectory>>
bill == <<spent, dropped>>
vars == <<mode, pc, loop, worker, usages, routed, container, result, disk,
          cost, bill>>

-------------------------------------------------------------------------------
Modes == {"terminalbench", "terminalbench_flat", "swebench", "swebench_flat", "rubric"}
TerminalBench == {"terminalbench", "terminalbench_flat"}
SWEBench == {"swebench", "swebench_flat"}
Flat == {"terminalbench_flat", "swebench_flat"}

Turns == IF mode \in Flat THEN MaxSteps ELSE MaxAttempts

Kinds ==
  {"submit", "empty", "malformed", "other"}
    \cup (IF mode \in Flat THEN {"execute"} ELSE {})
    \cup (IF mode = "terminalbench_flat" THEN {} ELSE {"delegate"})

(* Where the loop goes when it is done: the rubric is scored only after    *)
(* the cleanup.                                                            *)
AfterLoop == IF mode = "rubric" THEN "cleanup" ELSE "verify"

Init ==
  /\ mode \in Modes
  /\ pc = "start"
  /\ attempt = 0 /\ calls = <<>> /\ open = 0
  /\ step = 0 /\ tries = 0 /\ tokens = 0
  /\ usages = 0 /\ routed = 0
  /\ container = "none"
  /\ reward = Unjudged /\ last_error = FALSE /\ submit_called = FALSE
  /\ report \in (IF mode = "rubric" THEN BOOLEAN ELSE {FALSE})
  /\ score \in (IF mode \in SWEBench THEN {"none"} ELSE {"none", "old"})
  /\ trajectory \in {"none", "old"} \cup (IF mode = "rubric" THEN {"torn"} ELSE {})
  /\ cost = 0
  /\ spent = 0 /\ dropped = 0

(* executor.start_container.  One that fails has started nothing, removes  *)
(* what it started (local Docker, SWE-bench), or never learns of it: a     *)
(* /start of the remote executor that times out leaves session_id None,    *)
(* and a docker run of SWE-bench that does leaves container_id None, so    *)
(* that every cleanup returns at once.  The rubric has no container, and   *)
(* its start is outside the try.                                           *)
StartContainer ==
  /\ pc = "start"
  /\ \/ /\ container' = "up" /\ pc' = "ask"
        /\ UNCHANGED last_error
     \/ /\ last_error' = TRUE
        /\ IF mode = "rubric"
           THEN pc' = "raised" /\ UNCHANGED container
           ELSE pc' = "cleanup" /\ container' \in {"none", "gone", "lost"}
  /\ UNCHANGED <<mode, loop, worker, usages, routed, reward, submit_called,
                 disk, cost, bill>>

-------------------------------------------------------------------------------
(* The planner's turn *)

BudgetUsed ==
  /\ pc = "ask"
  /\ attempt = Turns
  /\ pc' = AfterLoop
  /\ UNCHANGED <<mode, loop, worker, usages, routed, container, result, disk,
                 cost, bill>>

(* router.chat_completions raises, possibly over an answer it was billed   *)
(* for (no choices).  Terminal-Bench and SWE-bench leave the loop and run  *)
(* the tests; the rubric's outer except takes it.                          *)
PlannerFails ==
  /\ pc = "ask"
  /\ attempt < Turns
  /\ \E billed \in {0, 1} : spent' = spent + billed /\ dropped' = dropped + billed
  /\ last_error' = TRUE
  /\ pc' = AfterLoop
  /\ UNCHANGED <<mode, loop, worker, usages, routed, container, reward,
                 submit_called, disk, cost>>

(* A bug the code does not have: one turn too many. *)
PlannerAnswers_OneMore ==
  /\ pc = "ask"
  /\ attempt <= Turns
  /\ spent' = spent + 1 /\ usages' = usages + 1
  /\ attempt' = attempt + 1
  /\ calls' = <<"other">> /\ open' = open + 1 /\ pc' = "calls"
  /\ UNCHANGED <<mode, worker, routed, container, result, disk, cost, dropped>>

(* The response, its usage and its calls go on record; one without calls   *)
(* ends the loop.                                                          *)
PlannerAnswers ==
  /\ pc = "ask"
  /\ attempt < Turns
  /\ spent' = spent + 1
  /\ usages' = usages + 1
  /\ attempt' = attempt + 1
  /\ \/ /\ last_error' = TRUE       \* no tool call
        /\ pc' = AfterLoop
        /\ UNCHANGED <<calls, open>>
     \/ \E n \in 1..MaxCalls : \E cs \in [1..n -> Kinds] :
          /\ calls' = cs
          /\ open' = open + n
          /\ pc' = "calls"
          /\ UNCHANGED last_error
  /\ UNCHANGED <<mode, worker, routed, container, reward, submit_called, disk,
                 cost, dropped>>

NextTurn ==
  /\ pc = "calls"
  /\ calls = <<>>
  /\ pc' = "ask"
  /\ UNCHANGED <<mode, loop, worker, usages, routed, container, result, disk,
                 cost, bill>>

(* Later calls of the same turn stay unanswered; the planner is not asked  *)
(* again.                                                                  *)
Submit ==
  /\ pc = "calls" /\ calls # <<>>
  /\ Head(calls) = "submit"
  /\ open' = open - 1
  /\ calls' = <<>>
  /\ submit_called' = TRUE
  /\ pc' = AfterLoop
  /\ UNCHANGED <<mode, attempt, worker, usages, routed, container, reward,
                 last_error, disk, cost, bill>>

(* The head of calls got its tool message. *)
Answered == calls' = Tail(calls) /\ open' = open - 1

(* A bug the code does not have: an empty instruction is skipped without   *)
(* an answer.                                                              *)
SkipCall_Silently ==
  /\ pc = "calls" /\ calls # <<>>
  /\ Head(calls) \in {"empty", "other"}
  /\ IF Head(calls) = "empty" THEN calls' = Tail(calls) /\ UNCHANGED open ELSE Answered
  /\ UNCHANGED <<mode, pc, attempt, worker, usages, routed, container, result,
                 disk, cost, bill>>

SkipCall ==
  /\ pc = "calls" /\ calls # <<>>
  /\ Head(calls) \in {"empty", "other"}
  /\ Answered
  /\ UNCHANGED <<mode, pc, attempt, worker, usages, routed, container, result,
                 disk, cost, bill>>

(* args.get or strip raises; the outer except takes it, without tests. *)
MalformedCall ==
  /\ pc = "calls" /\ calls # <<>>
  /\ Head(calls) = "malformed"
  /\ last_error' = TRUE
  /\ pc' = "cleanup"
  /\ UNCHANGED <<mode, loop, worker, usages, routed, container, reward,
                 submit_called, disk, cost, bill>>

(* A flat mode's command; its failures and timeouts are output. *)
ExecuteCommand ==
  /\ pc = "calls" /\ calls # <<>>
  /\ Head(calls) = "execute"
  /\ Answered
  /\ UNCHANGED <<mode, pc, attempt, worker, usages, routed, container, result,
                 disk, cost, bill>>

-------------------------------------------------------------------------------
(* The SubAgent *)

Delegate ==
  /\ pc = "calls" /\ calls # <<>>
  /\ Head(calls) = "delegate"
  /\ pc' = "subagent"
  /\ step' = 0 /\ tries' = 0 /\ tokens' = 0
  /\ UNCHANGED <<mode, loop, usages, routed, container, result, disk, cost, bill>>

(* The worker's answer is "finish", or a command that is run or a hint     *)
(* that is sent back, each of which uses the step up.  Only commands write *)
(* the report; _exec does not raise.                                       *)
WorkerAnswers ==
  /\ pc = "subagent"
  /\ spent' = spent + 1
  /\ tokens' = tokens + 1
  /\ tries' = 0
  /\ step' = step + 1
  /\ \/ pc' = "finished" /\ UNCHANGED report
     \/ /\ pc' = IF step + 1 = MaxSteps THEN "finished" ELSE "subagent"
        /\ report' \in {report} \cup (IF mode = "rubric" THEN {TRUE} ELSE {})
  /\ UNCHANGED <<mode, loop, usages, routed, container, result, score,
                 trajectory, cost, dropped>>

(* A bug the code does not have: a failing call is repeated until it works.*)
WorkerFails_NoLimit ==
  /\ pc = "subagent"
  /\ tries' = 1 - tries
  /\ UNCHANGED <<mode, pc, loop, step, tokens, usages, routed, container, result,
                 disk, cost, bill>>

(* The model call raises, or has no choices.  It is tried once more unless *)
(* the message speaks of quota or balance; then the subtask ends in status *)
(* "error".                                                                *)
WorkerFails ==
  /\ pc = "subagent"
  /\ \E billed \in {0, 1} : spent' = spent + billed /\ dropped' = dropped + billed
  /\ \/ /\ tries = 0
        /\ tries' = 1 /\ UNCHANGED pc
     \/ pc' = "finished" /\ UNCHANGED tries
  /\ UNCHANGED <<mode, loop, step, tokens, usages, routed, container, result,
                 disk, cost>>

(* A bug the code does not have: a subtask's tokens replace the sum. *)
DelegationReturns_LastOnly(t) ==
  /\ Answered
  /\ pc' = "calls"
  /\ routed' = routed + 1
  /\ usages' = attempt + t

(* The planner's loop books the result and answers the call. *)
DelegationReturns(t) ==
  /\ Answered
  /\ pc' = "calls"
  /\ routed' = routed + 1
  /\ usages' = usages + t

(* SubAgent.run raises: its constructor, or a command that is no string.   *)
(* Its tokens are gone.  The rubric does not catch it where it is called.  *)
WorkerRaises ==
  /\ pc = "subagent"
  /\ \/ step = 0 /\ tries = 0 /\ UNCHANGED spent /\ dropped' = dropped
     \/ spent' = spent + 1 /\ dropped' = dropped + tokens + 1
  /\ \/ /\ mode = "rubric"
        /\ last_error' = TRUE /\ pc' = "cleanup"
        /\ UNCHANGED <<calls, open, routed, usages>>
     \/ /\ mode # "rubric"
        /\ DelegationReturns(0)
        /\ UNCHANGED last_error
  /\ tokens' = 0
  /\ UNCHANGED <<mode, attempt, step, tries, container, reward, submit_called,
                 disk, cost>>

(* _summarize_finish_result: no summary model is set or it fails; it is     *)
(* booked with the subtask; or it is billed and does not parse.            *)
Finished ==
  /\ pc = "finished"
  /\ \E billed, used \in {0, 1} :
       /\ used <= billed
       /\ DelegationReturns(tokens + used)
       /\ spent' = spent + billed
       /\ dropped' = dropped + billed - used
  /\ tokens' = 0
  /\ UNCHANGED <<mode, attempt, step, tries, container, result, disk, cost>>

-------------------------------------------------------------------------------
(* Judging, cleaning up, and what is left on disk *)

(* executor.run_tests.  Terminal-Bench reads reward.txt from a directory   *)
(* of the host: a test script that fails before it writes leaves the file  *)
(* of an earlier attempt there.  A test set-up that fails is a reward of   *)
(* 0; a remote executor may raise.                                         *)
RunTests ==
  /\ pc = "verify"
  /\ pc' = "cleanup"
  /\ \/ /\ reward' \in {0, 1}
        /\ score' = "new"
        /\ UNCHANGED last_error
     \/ /\ mode \in TerminalBench
        /\ reward' \in {0} \cup (IF score = "old" THEN {1} ELSE {})
        /\ UNCHANGED <<score, last_error>>
     \/ /\ reward' = 0
        /\ last_error' = TRUE
        /\ UNCHANGED score
  /\ UNCHANGED <<mode, loop, worker, usages, routed, container, submit_called,
                 report, trajectory, cost, bill>>

(* A bug the code does not have: an exception passes by the cleanup. *)
Cleanup_NotOnError ==
  /\ pc = "cleanup"
  /\ container' = IF container = "up" /\ ~last_error THEN "gone" ELSE container
  /\ pc' = IF mode = "rubric" THEN "score" ELSE "save"
  /\ UNCHANGED <<mode, loop, worker, usages, routed, result, disk, cost, bill>>

(* The finally.  A removal that fails is logged and not tried again. *)
Cleanup ==
  /\ pc = "cleanup"
  /\ container' = IF container = "up" THEN "gone" ELSE container
  /\ pc' = IF mode = "rubric" THEN "score" ELSE "save"
  /\ UNCHANGED <<mode, loop, worker, usages, routed, result, disk, cost, bill>>

(* _score_report, only after a submit.  The scorer's exit code is not      *)
(* looked at: where it wrote nothing, the file of an earlier attempt is    *)
(* read; one that does not parse raises.                                   *)
ScoreReport ==
  /\ pc = "score"
  /\ \/ /\ ~submit_called \/ ~report \/ score = "none"
        /\ reward' = 0 /\ last_error' = TRUE /\ pc' = "save"
        /\ UNCHANGED score
     \/ /\ submit_called /\ report
        /\ \/ reward' \in {0, 1} /\ score' = "new" /\ pc' = "save"
           \/ score = "old" /\ reward' \in {0, 1} /\ pc' = "save" /\ UNCHANGED score
           \/ pc' = "raised" /\ UNCHANGED <<reward, score>>
        /\ UNCHANGED last_error
     \/ /\ submit_called /\ report       \* the scorer does not run
        /\ reward' = 0 /\ last_error' = TRUE /\ pc' = "save"
        /\ UNCHANGED score
  /\ UNCHANGED <<mode, loop, worker, usages, routed, container, submit_called,
                 report, trajectory, cost, bill>>

(* trajectory.json: Terminal-Bench and SWE-bench replace it atomically and *)
(* swallow errors; the rubric writes it in place and raises.               *)
SaveTrajectory ==
  /\ pc = "save"
  /\ \/ trajectory' = "new" /\ pc' = "entry"
     \/ mode # "rubric" /\ UNCHANGED trajectory /\ pc' = "entry"
     \/ mode = "rubric" /\ trajectory' = "torn" /\ pc' = "raised"
  /\ UNCHANGED <<mode, loop, worker, usages, routed, container, result, report,
                 score, cost, bill>>

(* _read_interactive_attempt_entry reads whatever file is there. *)
ReadEntry ==
  /\ pc = "entry"
  /\ cost' = CASE trajectory = "new" -> usages
               [] trajectory = "old" -> OldCost
               [] OTHER -> 0
  /\ pc' = "done"
  /\ UNCHANGED <<mode, loop, worker, usages, routed, container, result, disk, bill>>

-------------------------------------------------------------------------------
SubAgent == WorkerAnswers \/ WorkerFails \/ WorkerRaises \/ Finished

ToolCall == NextTurn \/ Submit \/ SkipCall \/ MalformedCall \/ ExecuteCommand \/ Delegate

Next ==
  \/ StartContainer
  \/ BudgetUsed \/ PlannerFails \/ PlannerAnswers
  \/ ToolCall
  \/ SubAgent
  \/ RunTests \/ Cleanup \/ ScoreReport \/ SaveTrajectory \/ ReadEntry

(* One thread; its model calls, commands and docker calls have timeouts. *)
Spec == Init /\ [][Next]_vars /\ WF_vars(Next)

-------------------------------------------------------------------------------
TypeOK ==
  /\ mode \in Modes
  /\ pc \in {"start", "ask", "calls", "subagent", "finished", "verify", "cleanup",
             "score", "save", "entry", "done", "raised"}
  /\ attempt \in 0..Turns
  /\ calls \in Seq(Kinds) /\ Len(calls) <= MaxCalls
  /\ open \in 0..MaxCalls
  /\ step \in 0..MaxSteps /\ tries \in {0, 1}
  /\ tokens \in Nat /\ usages \in Nat /\ routed \in Nat /\ cost \in Nat
  /\ spent \in Nat /\ dropped \in Nat
  /\ container \in {"none", "up", "gone", "lost"}
  /\ reward \in {Unjudged, 0, 1}
  /\ last_error \in BOOLEAN /\ submit_called \in BOOLEAN
  /\ report \in BOOLEAN
  /\ score \in {"none", "old", "new"}
  /\ trajectory \in {"none", "old", "torn", "new"}

Session == INSTANCE TaskSession WITH
  container <- IF mode = "rubric" THEN "none" ELSE container,
  verdict <- reward,
  delivered <- pc \in {"entry", "done", "raised"}

(* Whatever raises where, the environment is started and judged once, the  *)
(* verdict comes from an environment that is still there, and nothing is   *)
(* returned over a container nobody tried to remove, unless its very start *)
(* went unanswered.                                                        *)
SessionSpec == Session!Spec

(* Whenever the planner is asked, every tool call of the turns before has  *)
(* exactly one answer, whichever of its turn's calls were skipped,         *)
(* delegated, crashed or unknown; model APIs reject the request otherwise. *)
EveryCallAnswered == pc = "ask" => open = 0

(* A trajectory of this attempt accounts for every billed model call but   *)
(* those the code drops: calls without choices, workers that raised,       *)
(* summaries that do not parse.  Retries, several delegations in a turn    *)
(* and the summary model are counted once.                                 *)
CostAccounted ==
  (pc = "done" /\ trajectory = "new") => cost + dropped = spent

(* The attempt ends: steps, retries and turns are bounded. *)
EpisodeEnds == <>(pc \in {"done", "raised"})

(* terminalbench.py:764 and swebench.py:491 in the planner's prompt: "You   *)
(* have {self.max_attempts} delegation attempts."                          *)
DelegationsInBudget == mode \notin Flat => routed <= MaxAttempts

-------------------------------------------------------------------------------
(* The inductive invariant. *)

(* What the conversation lacks are the calls still to be processed. *)
OpenCalls ==
  /\ pc \in {"start", "ask"} => open = 0
  /\ pc \in {"calls", "subagent", "finished"} => open = Len(calls)
  /\ pc \in {"subagent", "finished"} => calls # <<>>

(* Every billed call is on the trajectory, with the running worker, or     *)
(* dropped.                                                                *)
Billed ==
  /\ spent = usages + dropped + tokens
  /\ pc = "subagent" => tokens = step /\ step < MaxSteps
  /\ pc \notin {"subagent", "finished"} => tokens = 0
  /\ (pc = "done" /\ trajectory = "new") => cost = usages

(* Where in the attempt the environment is up and the verdict is out. *)
Lifecycle ==
  /\ pc = "start" => container = "none" /\ reward = Unjudged
  /\ pc \in {"ask", "calls", "subagent", "finished", "verify"} =>
       container = "up" /\ reward = Unjudged
  /\ pc = "verify" => mode # "rubric"
  /\ (pc = "cleanup" /\ mode = "rubric") => reward = Unjudged
  /\ pc = "score" => mode = "rubric" /\ reward = Unjudged
  /\ pc \in {"score", "save", "entry", "done", "raised"} => container # "up"

IInv == TypeOK /\ OpenCalls /\ Billed /\ Lifecycle

===============================================================================
