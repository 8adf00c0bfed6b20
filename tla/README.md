# Uno-Orchestra in TLA+

TLA+ models of the parts of this repository whose correctness depends on the
order of events: what the evaluation pipeline keeps on disk across kills and
resumes, how a planner with its workers is run, billed and judged, what an RL
episode hands to the trainer, where training goes on after a kill, what happens
to a routed call that hangs, and which docker containers outlive the server that
made them. TLC checks each model on small instances; TLAPS proves the safety
properties of all eight for every value of their constants.

    tlc -config MCPipelinedEval.cfg MCPipelinedEval     # any run: its cfg, its MC module
    tlapm PipelinedEvalProofs.tla                       # and the seven other *Proofs modules

`PROJECT.json` lists the runs, the source lines each definition models (`map`),
for each property a mutation of the model that breaks it (`mutants`), the
hazards with the properties that watch them, and the findings.

## 1. Inventory

Own code: `uno_orchestor/` (harness, sub-agent), `env/` (RL environment),
`eval_pipeline/` (benchmarks, routers, executors, `run.py`), `scripts/`,
`configs/`, `data/`. `verl/` is a vendored RL framework, most of the repository's
lines; of it only the training loop and its checkpoints are considered, which
`scripts/rl/run_grpo_uno.sh` starts and a restarted run depends on.

| Component | State it keeps | Operations | Talks to | What is hard | Correct when |
|---|---|---|---|---|---|
| Pipelined evaluation (`run.py:90-212, 517-730`) | `predictions.jsonl`, `verification.jsonl`, two dicts, a queue, an event, two pools of futures | load/resume, generate, verify, report | routers, benchmarks | two threads that finish in either order; kills; failed writes; exceptions | one row per task, a verdict judges the prediction on file, a clean run loses nothing, the joins return |
| pass@k and interactive evaluation (`run.py:224-423`) | the same files, a pool, `trajectory.json` | attempts with early stop, merge, two rows per task | benchmarks with `interactive_verify` | a kill between the two rows; a future that raises; resume | verdict and prediction agree, costs are those of the attempts that ran |
| Sequential evaluation (`run.py:484-514`, `swebench.py:754-813`) | the same files, a report directory | generate all, `verify_batch` | the SWE-bench harness, a process of its own | unflushed verdicts, harnesses that outlive the command, reports of earlier runs | as the pipelined mode; a reward belongs to the answer on file |
| RL episode (`uno_rollout.py`, `envs.py`) | response mask, turn spans, round, done, metadata | generate, step, route, observe, finish | model server, harness, reward manager | truncation at `response_length` at every place; five ways a turn ends; two turn limits | spans partition the policy tokens, reward on the answer, the reported reason is true, it returns |
| Reward manager (`uno_reward.py`) | none | place reward, metrics | trainer | cut responses | reward on the last policy token of the answering turn |
| Route harness (`harness.py`, `skills/default.py`) | thread pool and its queue | `run_route`, `run_primitive`, three recipes | backends, callers | hard timeouts without cancellation, full pool, late answers, partly failed recipes | every call returns, tokens are reported, errors only when nothing answered |
| Primitive backends (`backends/`) | client cache | `run` | worker models, subprocesses | unsynchronised cache | a value, None or an exception |
| Docker life cycle (`docker_manager.py`, `docker_executor.py`, `remote_docker_server.py`) | containers, images, temporary directories, registered projects, sessions, the handler stack | start, cleanup, cleanup_all, signals | docker, HTTP clients | request threads against signal handlers, a handler on a handler, a non-reentrant lock, failing `down` | nothing leaks silently, nothing is cleaned twice, a signal ends the server |
| Remote docker client (`remote_docker_executor.py`) | session id | start, exec, run_tests, cleanup over HTTP | the server | client timeouts, lost and late calls | a client with a session id finds its session |
| Terminal-Bench planner (`terminalbench.py`) | messages, budget, usages, trajectory | planner turn, delegate, submit, verify | router, SubAgent, executor | several calls per turn, budget, crashes of the worker, files of killed attempts | container judged and removed once, every tool call answered, costs add up |
| SubAgent (`subagent.py`) | messages, step, token counts | LLM step with one retry, execute, finish, summarise | executor | retries, parse failures | steps bounded, tokens counted once |
| SWE-bench, rubric workflow | like the planner | planner loops, batch verification | executors, a scoring process | as the planner, stale scores | as the planner |
| Training loop (`ray_trainer.py`, `utils/checkpoint/`) | step, epoch, data position, weights, checkpoint directories, tracker file | load, step, save, rotate | workers, agent loops | a kill inside any write, removal before the new save, epoch boundaries | a resumed run goes on where the last save was, with parts that belong together |
| Routers (`routers/`) | none between calls | `route`, `chat_completions` | harness, model APIs | worker text inside the trace | the answer is the planner's |
| Verifiers, one-shot benchmarks | none | scoring | - | string rules | pure functions |
| Legacy `env_manager.py` | turn lists | reset, step | a trainer loop not in the repository | done environments | - |
| Scripts, configs, data | none | one-shot | - | - | - |

How the parts meet: `run.py` calls routers and benchmarks from pool threads; an
interactive benchmark drives a planner, which starts SubAgents in one container
made through `DockerComposeManager` locally or through the remote server. In
training, verl runs many `UnoAgentLoop.run` coroutines; each `env.step` runs on
a thread and blocks in `RouteHarness.run_route`, which shares one thread pool
among all episodes of the process.

## 2. Modules

| Module | Models | Status |
|---|---|---|
| `EvalLedger` | what an output directory promises: predict once, judge once what was predicted | abstract specification |
| `PipelinedEval` | `run_pipeline` with `_run_pipelined` and `_gen_one` | complete; implements `EvalLedger` |
| `SequentialEval` | `_run_sequential`, `verify_batch`, the harness | complete; implements `EvalLedger` |
| `AttemptedEval` | `_run_attempted_noninteractive`, `_run_interactive` | complete but for the trajectory file |
| `TaskSession` | what an interactive benchmark promises about one attempt: started, judged, removed once | abstract specification |
| `PlannerEpisode` | the planner loops of three benchmarks, two flat variants, `SubAgent.run`, the attempt's entry | complete but for live traces; implements `TaskSession` |
| `UnoEpisode` | `UnoAgentLoop.run`, `SingleUnoEnv.step`, the reward's place | complete but for shaping rewards |
| `TrainerLoop` | `fit`, `_save_checkpoint`, `_load_checkpoint`, checkpoint rotation | complete for the configuration of `run_grpo_uno.sh` |
| `RouteHarness` | `run_route`, its pool, backends, recipes | complete |
| `DockerProjects` | clients, compose projects, sessions, signals, exit | complete but for images, `exec` and `run_tests` |
| `<name>Proofs` | the theorems about `<name>`, one module for each of the eight | proved |
| `MC<name>` | the instance of `<name>` that TLC checks | |

### PipelinedEval

Variables have the names of the code. `predFile` and `verFile` are the rows per
task in file order, so that a second row is visible; a row is reduced to the
answer it holds or judges. One action per stretch of code without a visible
effect in between: `GenFutureDone` (a pool thread ends `_gen_one`), `GenNext`
(the generator's `as_completed` loop), `EntryAnswer`/`GenWrite`/`GenWriteFails`
(`fut.result()` or the error entry, the row, the flush), `GenPut`, `GenFinish` (the
`finally` that sets `gen_done`); `VerSubmit`, `VerCollect`, `VerFutureDone`,
`VerRecord`, `VerWriteFails`; and the exit test of the verifier's loop in the order
it is evaluated, `VerReadGenDone` and then `VerReadQueue`, with the generator free
to act in between. `Crash` is possible at every step and keeps the flushed rows;
`Start` is a new run on the same directory, which loads both files, with or
without `--skip_gen`. `ioFailed` remembers a write that raised.

The initial directory may hold predictions, verdicts about them and verdicts of a
pass@k run (`Legacy`), with their prediction or alone, as a kill or a failed write
between the two rows leaves them. It leaves out directories in which resumed pass@k
runs have put a second prediction row for a task: there `OneRowPerTask` is false
before this mode starts.

### SequentialEval

The main thread walks through generating, generated, harness, recording; `draining` is
the executor that waits for its futures after one raised. `StartHarness` gives the
unverified predictions to a harness process, which `Stop` (a kill, or the timeout that
only stops the `conda run` wrapper) leaves running among the `orphans`.
`HarnessReports` is what this or an orphaned harness writes to the report directory
that all runs share, `HarnessEnds` the walk that finds a task by its name in any report
(`ReportedResolved`). Verdict rows are not flushed: `RowSaved` lets them reach the file
in any order and any number before a crash. `resolved` is history: the answers
some harness found to be right.

### AttemptedEval

One module for two functions that differ in the order of the two rows a task
gets; `mode`, chosen by `Init`, says which of them runs. `Attempt` is one attempt of a pool thread, `WriteFirstRow` and
`WriteSecondRow` are what the collecting loop does, `collecting` marks the gap
in which a kill leaves one row without the other, `Abort` and `Fail` are the
`fut.result()` that raises and the executor that waits for the rest. Writing a row
can raise without a kill (`FirstRowFails`, `SecondRowFails`). The exception leaves the
loop, the executor waits as in `Abort`, and leaving the `with` flushes what the files'
buffers still hold: if `pout.flush()` raised in the attempted mode, the verdict may get
there alone, and in the interactive mode the verdict is on file before the prediction is
written at all. `unwritten` is history: the tasks this happened to. No later run takes such
a task again, because it is judged: `OneLostPerRun` bounds the predictions lost like this,
by kills and by failures, by one for each run. A row is taken to fit the
buffer of its stream, so a failing write leaves no part of it.
`_run_pipeline_eval` is not modelled: it calls `bench.pipeline_verify`, which no
benchmark of the repository has.

### PlannerEpisode

One attempt at a task as a single thread with the program counter `pc`: start, ask,
calls, subagent, finished, verify, cleanup, score, save, entry. `mode` says which of
the five loops runs; they share their actions and differ in a few guards: what an
exception reaches (`MalformedCall`, `WorkerRaises`, `StartContainer`), whether tests
run before the cleanup or the report is scored after it (`AfterLoop`, `RunTests`,
`ScoreReport`), and which tools exist (`Kinds`). `calls` are the tool calls of the
turn still to be processed, `open` those without a tool message.
`WorkerAnswers`, `WorkerFails`, `WorkerRaises` and `Finished` are `SubAgent.run`: its
steps, the one retry, the crash, the summary model. `ReadEntry` is the entry that
`run.py` makes of whatever trajectory is there. `report`, `score` and `trajectory` may
be left over from a killed attempt in the same directory. `spent` and `dropped` are
history: billed model calls, and those whose answer the code does not use.

`TaskSession` is what all five promise; the rubric, which has no container, maps to
the session that is judged without one. A start that gets no answer, a `docker run` or a
remote `/start` that times out, leaves a container its executor does not know and whose
cleanup therefore returns at once: the container is then `"lost"`, and `StartFails` says
that only this excuses a container nobody tries to remove.

### TrainerLoop

`pc` is load, train, save, advance. Weights are the number of batches they have
seen, so that the step counter, the weights and the dataloader's position can be
compared. `SaveOpens` and `SaveCloses` are the two ends of each write of
`_save_checkpoint` (actor, critic, `data.pt`, tracker; `NextPart` is their order), with
the removal of surplus checkpoints at the opening of a role's file; a `Crash` in
between leaves the file `Torn`. `LoadNothing`, `LoadRaises` and `LoadCheckpoint` are the
outcomes of `_load_checkpoint`. `BatchesLeft` keeps open what torchdata, which is not
in the repository, makes of a dataloader saved at the end of an epoch: a new epoch
or an iterator with nothing left; `epoch_lost` remembers the second.

### UnoEpisode

The coroutine and the `env.step` it awaits are one thread of control, so `pc`
walks through generate, step, route, waiting, stepping, stepped, returned. A policy turn
is a number of tokens and the tags the regular expressions find; the tags are
chosen freely, so malformed turns, answers with routes in the same turn and
empty turns all occur. `RouteRefused`, `RouteDone` and `RouteTimedOut` are the ways
out of `harness.run_route`; the timeout and the refusal leave the route loop, as the
`break`s do. `CreditTurn` is `_append_turn_credit`, `last_pos` the position
`UnoRewardManager` computes from the mask that `run` returns.

### RouteHarness

Callers, a FIFO of submitted calls, `PoolSize` threads. A call walks its recipe
with `NextPrimitive`; for each primitive the backends are asked in order
(`asked`), and each may answer (`AnswersOf`), decline or raise, or never come
back. `HardTimeout` is enabled as soon as a call is submitted, because
`fut.result(timeout)` counts from there, and leaves the call in the queue or on its
thread, because nothing cancels it.

### DockerProjects

A client per project (`client`) whose `/start` may be answered, fail or time out while the
server goes on, and whose `/cleanup` may be late or lost; a request thread per
project with the program counter `pc`, docker's own state (`container`), the manager's registry `active`, the store's `sessions`, and
the main thread as a stack: `frames` holds the running `cleanup_all` loops, a
signal pushes one, and a handler's `exit(1)` unwinds the whole stack into the next
stage of `main`: serve, finally (the store's `cleanup_all`), join (the thread pool),
atexit (the manager's `cleanup_all`), exited. A frame holds the manager's lock
at "snapshot" and "unregistering". `last_down` and `late` are history.

## 3. Runs

| Run | Instance | Shows |
|---|---|---|
| `pipelined` | 2 tasks, 3 starts | rows unique, verdicts about the prediction on file, nothing lost; both joins return; the directory behaves as `EvalLedger`; the inductive invariant of the proofs |
| `sequential` | 2 tasks, 2 answers, 3 starts | a reward is for the answer on file; `EvalLedger` again; the run ends |
| `attempted` | both functions, 2 tasks, pass@2, 2 starts | rows and costs agree, no verdict is repeated; a verdict without its prediction comes from a kill or a failing write between the two rows, at most one in each run; the run ends |
| `planner` | 5 variants, 2 turns, 2 calls a turn, 2 worker steps | tool calls answered, bill, `TaskSession`; the attempt ends |
| `episode` | 3 turns, 7 tokens, 2 tokens and 2 routes a turn | credit, reward, answered routes, reasons; every episode returns |
| `trainer` | 3 epochs of 2 batches, save every 4 steps, keep 0 (all), 1 or 2, 3 starts | resumed parts agree, resume where saved; training ends with its last checkpoint |
| `harness` | 2 callers with a call each, 1 thread | tokens, errors and timeouts of recipes; `run_route` returns even if the only thread hangs |
| `docker` | a project with a prebuilt image, one with a built one, their clients, 2 signals | leaks are accounted for, one cleanup per session, sessions held for their clients; the server exits unless its main thread waits for its own lock |
| `planner_docbudget`, `episode_docroute`, `docker_doc*` | the instance of the passing run, or a smaller one that shows it | a sentence of the repository that the code does not keep (section 5) |

Why these bounds are enough. Tasks interact only through the shared loop and
queue, and two suffice for any pair of events in the two threads; the starts are
bounded by 3 so that a run resumes from a directory that was itself resumed. Two answers
let a task's old report speak of another answer than the one on file. The
proofs remove these bounds, and those of the planner and the trainer. Two planner turns
of two calls have a call behind each kind of call, a turn behind each kind of
turn, and more delegations than turns; two worker steps have a step, and a failed
one, behind another. Six training steps saved at 4, at 6 and wherever an expiring
instance forces it give saves inside an epoch, at its end and at the very end,
and a keep limit of 1 or 2 removes a checkpoint while the tracker still names it or
names another one. An episode of three turns has a first, a middle and a
last turn; with seven tokens and up to two a turn the loop can use up its turns, and the response is filled exactly,
overfilled by one, by a policy turn and by an observation. One pool
thread and two callers give a full pool with a queue behind it. Two signals are the
least that interrupt a handler; two projects are the least that leave one of them
behind in a loop, and one of each kind the least that tell apart the directories
their `docker compose down` runs in.

Deadlock checking is off where the program stops: after the last start, the last
call, the returned episode or attempt, the finished training, the exited process. The liveness properties take its
place.

### Fairness

* `PipelinedEval`, `AttemptedEval`: weak fairness of each thread and each pool future
  while the process lives. Router and verifier calls have client timeouts,
  and their outcome, an exception included, ends the future. `Crash` and `Start` are not fair.
* `SequentialEval`: the command's thread and its pool make progress; the harness has a
  timeout (7200 s). Nothing is assumed of orphaned harnesses.
* `PlannerEpisode`: one thread, and its model calls, commands and docker calls have timeouts:
  weak fairness of the whole step. Which outcome a call has is never fair.
* `TrainerLoop`: a started trainer goes on until it is killed; `Crash` and `Start` are not fair.
* `UnoEpisode`: the coroutine and `env.step` proceed. `RouteDone` has no
  fairness: a worker may hang, and the harness's timeout is what is certain.
* `RouteHarness`: only time is fair: a caller that waits returns or times out.
  Nothing is assumed of pool threads.
* `DockerProjects`: the main thread proceeds when it can; docker commands run
  with a timeout of 60 s. The liveness property of the passing run excepts exactly
  the state in which the main thread, inside a handler, waits for the lock it holds itself.

## 4. Proofs

Each proof module assumes what its model assumes of the constants
(`PipelinedAssumption`, `SequentialAssumption`, `AttemptedAssumption`, `PlannerAssumption`,
`TrainerAssumption`, `EpisodeAssumption`, `HarnessAssumption`, `ProjectsAssumption`: special
values are distinct from ordinary ones, sizes are naturals) and nothing else. Each
has an inductive invariant `IInv`, which TLC has checked on the instance of the run, one lemma
per action or group of actions that keeps it, a theorem `Invariance` that joins
them, and theorems that follow from it. Every safety invariant that a passing run
checks is such a theorem.

`PipelinedEvalProofs`, for every finite set of tasks, every set of answers and every number
of runs: `TypeCorrect`, `OneRow_PerTask`, `Judged_OnFile`, `Nothing_Lost`, and
`ImplementsLedger`, the refinement of `EvalLedger` under the mapping "the one row of the
file, or None". The safety properties are not inductive: that a verification row is the
only one depends on every task being in at most one of queue, pending futures
and finished futures, and that nothing is lost depends on what the verifier
has learned when it has read `gen_done` but not yet the queue. `IInv` says
this in parts: `ThreadsOff` (nothing runs when the process is down), `QueueSound`
(the queue holds each task once, with the answer on file, unjudged and not
pending), `PendingSound`, `GeneratorSound` (which futures have written their row), `DictSound` (the dicts
agree with the files), `NothingDropped` (an unjudged prediction is queued,
pending, or still to be put there), `ControlSound` (what each control point implies
of event, pools and queue). Facts about rows and queues are lemmas of their own (`OneRow`, `FirstRow`,
`Dequeue`, `Enqueue`, `QueuesSound`). The refinement needs `IInv` to know that a write is
the first row of its task.

`SequentialEvalProofs`, for every set of tasks and answers and every number of runs:
`Reward_OfThisAnswer`, `OneRow_PerTask`, `ImplementsLedger`. The reward is found by the
task's name in reports anyone may have written; that it is about the answer on
file rests on a chain: a prediction row is never followed by another
(`Unpredicted`), so every batch (`BatchOnFile`), every orphan and every report
(`JudgeOnFile`) is about that row, and so is every verdict (`VerdictOnFile`).

`AttemptedEvalProofs`, for every set of tasks, every k and any number of runs:
`TypeCorrect`, `Judged_Once`, `Verdict_HasItsPrediction`, `One_LostPerRun`, `Attempts_Accounted`. What is on
file depends on what the run has in memory: `FutureSound` says which attempts a
future has behind it, `VerdictSound` and `CollectSound` which rows are there before,
in and behind the gap between the two writes, `PaidSound` that no run pays for more than its
own attempts, `AccountSound` follows what was paid in the memory of the run until a row
counts it, and `LossSound` counts the lost predictions of the runs that are over.

`PlannerEpisodeProofs`, for every number of turns, calls in a turn and worker
steps: `TypeCorrect`, `Every_CallAnswered`, `Cost_Accounted` and `ImplementsSession`. `OpenCalls`
ties the unanswered calls to those still to be processed, `Billed` says that every
billed call is on the trajectory, with the running worker or dropped, `Lifecycle` where the
container is up, gone or lost and the verdict out at each control point.

`TrainerLoopProofs`, for every number of batches and epochs, every save frequency and
set of keep limits, and any number of kills: `TypeCorrect`, `Resume_Consistent`,
`Resumes_WhereSaved`. `InStep` relates the counters at each point of a step, `OnDisk`
says that a whole file is of the step its directory is named for, `SaveProgress` that the files
before the one at hand are whole, and `Tracked` what the tracker promises of the
checkpoint it names: all of it without a keep limit, only its `data.pt` with one.
That is what the code can hold and why `Resumes_WhereSaved` excepts keep limits.

`UnoEpisodeProofs`, for every response length, turn limit and number of routes:
`TypeCorrect`, `Tokens_Credited`, `Reward_OnAnswer`, `Every_RouteAnswered`, `DoneReason_True`,
`BareAnswer_AfterRouting`. That the spans credit every policy token holds only when the
policy is to speak; in between `Partition` says it of the first `settled` tokens, and
`Playing` that what is behind them is the turn in progress, all policy tokens.
`SpeakSound`, `RouteSound`, `SteppedSound` and `RewardSound` say what the environment has done
and decided at each control point, and what the loop has made of it.
The mask is a sequence that is appended to and cut; lemmas on `Extends` carry
`Partition` over both.

`RouteHarnessProofs`, for every number of callers, routes and pool threads:
`TypeCorrect` (never more running calls than threads, although a timed-out call keeps its
thread), `Tokens_Reported`, `Error_MeansNoAnswer`. `CallSound` and `WorkSound` are the queue:
a call is in it once, from its submission until a thread takes it; without that a thread
could start a call that is done, and change what its caller has. `RecipeSound` says how far
a recipe may have come (`Shape`) and that it has ended exactly when its future is done, and
`ReturnSound` that a caller holds a timeout or the result of the finished recipe. The
lemmas `ResultOf` and `ErrorOf` are about the recipes alone.

`DockerProjectsProofs`, for every set of projects and any number of signals: `TypeCorrect`,
`Leaks_AccountedFor`, `Cleaned_Once`, `Session_Held`. The main thread is a stack of cleanup
loops of any height, of which only the top one moves. `FramesSound` holds for each: the projects it
still has are known, the store's are sessions no request can pop any more, and what it
unregisters has no containers. `ProjectSound` says that containers behind `register_project`
are known to the manager until an attempt to bring them down. `ExitSound` is the
argument about leaks: at exit, whatever a loop took over at its snapshot is accounted for,
or pending in that loop *or in one above it*. The second half is needed because a
handler's own snapshot clears `late`, and sufficient because the handler's loop ends
the process and the one below never goes on. `QuietSound` is the state before the first signal.
Two general lemmas carry most cases: `ProjectStep` for requests and clients, which
leave the stack alone, and `TopStep` for the main thread, which leaves requests alone.

Only model-checked: all liveness (`RunEnds`, `EpisodeReturns`, `EpisodeEnds`, `TrainingEnds`,
`RunRouteReturns`, `ShutdownEndsOrDeadlocks`), because fairness and ENABLED are beyond the
prover. The sum of a recipe's tokens is written as the number of its paid parts (each
costs one token or none), because what a fold computes cannot be proved either.

## 5. Findings

| Run | The text | The code |
|---|---|---|
| `episode_docroute` | "must emit at least one \<plan\>+\<route\> before a \<final_answer\>" (`envs.py:60-62`) | a plan without a route is enough |
| `docker_docall` | "Clean up all registered docker-compose projects" (`docker_manager.py:147`) | after a failed cleanup of its session the directory to run in is gone, the project is never tried again |
| `docker_docsignal` | "graceful shutdown" (`docker_manager.py:54`) | a second signal inside the lock's block waits for its own thread |
| `planner_docbudget` | "You have {self.max_attempts} delegation attempts." (`terminalbench.py:764`, `swebench.py:491`) | every `delegate_task` call of a turn is run; only turns are counted |

## 6. Not modelled, and the plan

What could follow:

1. Action properties and abstract specifications for the components that have none yet: a
   routed call that is answered once (`RouteHarness`), a container that is started, served
   and removed (`DockerProjects`), an episode that only extends its mask (`UnoEpisode`).
2. `RolloutSystem`: several `UnoEpisode`s over one `RouteHarness`, with `UnoEpisode`'s three
   route outcomes as the abstract harness that `RouteHarness` implements.
3. The docker manager that benchmark threads make lazily (`terminalbench.py:377`), as a
   second way into `DockerProjects`.
4. The rolling cost percentile of the reward as an operator, against a reference definition.

Left out, and why:

* Nearly all of `verl/`: tensor arithmetic, model definitions, kernels, engine workers and
  recipes this project does not start. A model of a loss or a kernel would be a
  transcription of its arithmetic, and TLC has no reals. Of the trainer, `resume_path`
  (the script uses `auto`), `async_save` (Megatron only) and the clock behind the ESI
  test, whose result is left open.
* Verifiers, log parsers, answer extraction, data loaders, the skill retriever and the
  one-shot scripts: pure functions of their input, or straight-line I/O.
* Routers other than as a call that answers, raises, or is billed and raises.
* Torn lines in the jsonl files: a resumed run raises until they are repaired by hand.
* The rubric's live trace and the environment variable around it: they decide only what
  people can watch.
* Docker images: `DockerProjects` follows containers, sessions and directories.
* `_run_pipeline_eval` and `run_hierarchical`: nothing calls the latter, and no benchmark has the
  method the former needs.
* The legacy environment manager: the loop around it is not in the repository.
