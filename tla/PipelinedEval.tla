---------------------------- MODULE PipelinedEval ----------------------------
(***************************************************************************)
(* _run_pipelined of eval_pipeline/run.py with the resume logic of         *)
(* run_pipeline around it: a generator thread turns tasks into prediction  *)
(* rows and queues them, a verifier thread turns queued predictions into   *)
(* verification rows, the main thread joins both.  The process can be      *)
(* killed between any two steps and started again on the same directory.   *)
(*                                                                         *)
(* Abstractions.  A prediction row is its answer.  A verification row is   *)
(* the answer it judges.  The pools of gen_workers and verify_workers      *)
(* threads are sets of futures that finish in any order, which covers      *)
(* every pool size.  The order of bench.load is arbitrary.  The 0.5 s      *)
(* sleep of the verifier changes no state and is left out.  A crash keeps  *)
(* what was flushed.                                                       *)
(***************************************************************************)
EXTENDS Naturals, Sequences, FiniteSets, Functions

CONSTANTS Tasks, Answers,
          Empty,     \* the answer "" of an entry made from an exception
          None,      \* absent
          Legacy,    \* a verdict of a pass@k mode, whose prediction may be missing
          Raised,    \* the outcome of a future whose call raised
          MaxRuns    \* bound: how often the command is started

ASSUME PipelinedAssumption ==
  /\ IsFiniteSet(Tasks)
  /\ Empty \in Answers
  /\ None \notin Answers /\ Legacy \notin Answers /\ Raised \notin Answers
  /\ None # Legacy /\ None # Raised /\ None \notin Tasks
  /\ MaxRuns \in Nat

VARIABLES
  predFile,      \* predictions.jsonl: the rows of each task, in file order
  verFile,       \* verification.jsonl, likewise
  runs,          \* how often the command was started
  main,          \* "down", "running" (the two joins) or "reported"
  skip_gen,      \* args.skip_gen of this run
  predictions, verification,    \* the dicts of this run
  queue,         \* verify_queue, of <<task, answer>>
  gen_done,      \* the event
  gpc, gcur,     \* generator thread: control state, task of its loop body
  genFut,        \* its futures: "none", "submitted", "done" or "handled"
  genRes,        \* their outcomes
  vpc,           \* verifier thread: control state
  doneFuts,      \* the list done_futs, as far as it is not yet processed
  verFut,        \* the dict pending: "none", "submitted" or "done"
  verArg,        \* the answer a pending future judges
  ioFailed       \* a row write raised in this run

files == <<predFile, verFile>>
genVars == <<gpc, gcur, genFut, genRes>>
verVars == <<vpc, doneFuts, verFut, verArg>>
dicts == <<predictions, verification>>
shared == <<queue, gen_done, dicts>>
proc == <<runs, main, skip_gen>>
vars == <<files, proc, shared, genVars, verVars, ioFailed>>

-------------------------------------------------------------------------------
(* The rows a loader finds: the last row of a task wins. *)
Loaded(file) ==
  [t \in Tasks |-> IF file[t] = <<>> THEN None ELSE file[t][Len(file[t])]]

(* A bug the code does not have: a task is generated until it is verified. *)
NeedGen_UntilVerified(preds, vers) == {t \in Tasks : vers[t] = None}

NeedGen(preds, vers) == {t \in Tasks : preds[t] = None}

(* A bug the code does not have: every prediction on file is queued again. *)
Ready_Predicted(preds, vers) == {t \in Tasks : preds[t] # None}

(* already_gen_unverified *)
Ready(preds, vers) == {t \in Tasks : preds[t] # None /\ vers[t] = None}

(* The ways to queue the tasks of S with their predictions, each once. *)
Queues(S, preds) ==
  {[i \in 1..Cardinality(S) |-> <<order[i], preds[order[i]]>>] :
     order \in Bijection(1..Cardinality(S), S)}

(* The directory as earlier runs can have left it: with predictions, with  *)
(* verdicts about them, and with verdicts of a pass@k run (Legacy), alone  *)
(* if that run was killed or failed before it wrote the prediction.  Left  *)
(* out are the directories in which resumed pass@k runs have put a second  *)
(* prediction row for a task.                                              *)
Init ==
  /\ predFile \in [Tasks -> {<<>>} \cup {<<a>> : a \in Answers}]
  /\ verFile \in [Tasks -> {<<>>, <<Legacy>>} \cup {<<a>> : a \in Answers}]
  /\ \A t \in Tasks : verFile[t] \in {<<>>, <<Legacy>>, predFile[t]}
  /\ runs = 0
  /\ main = "down"
  /\ skip_gen = FALSE
  /\ predictions = [t \in Tasks |-> None]
  /\ verification = [t \in Tasks |-> None]
  /\ queue = <<>>
  /\ gen_done = FALSE
  /\ gpc = "off" /\ gcur = None
  /\ genFut = [t \in Tasks |-> "none"]
  /\ genRes = [t \in Tasks |-> None]
  /\ vpc = "off" /\ doneFuts = {}
  /\ verFut = [t \in Tasks |-> "none"]
  /\ verArg = [t \in Tasks |-> None]
  /\ ioFailed = FALSE

(* The threads are off and hold nothing. *)
Idle ==
  /\ gpc' = "off" /\ gcur' = None
  /\ genFut' = [t \in Tasks |-> "none"]
  /\ genRes' = [t \in Tasks |-> None]
  /\ vpc' = "off" /\ doneFuts' = {}
  /\ verFut' = [t \in Tasks |-> "none"]
  /\ verArg' = [t \in Tasks |-> None]

(* The command starts: both files are loaded, the unverified predictions   *)
(* are queued, and the generator either leaves at once (skip_gen, nothing  *)
(* to do) or has submitted every task that needs a prediction.             *)
Start ==
  /\ main # "running"
  /\ runs < MaxRuns
  /\ runs' = runs + 1
  /\ main' = "running"
  /\ skip_gen' \in BOOLEAN
  /\ predictions' = Loaded(predFile)
  /\ verification' = Loaded(verFile)
  /\ queue' \in Queues(Ready(predictions', verification'), predictions')
  /\ gen_done' = FALSE
  /\ LET need == IF skip_gen' THEN {} ELSE NeedGen(predictions', verification')
     IN  genFut' = [t \in Tasks |-> IF t \in need THEN "submitted" ELSE "none"]
  /\ gpc' = "loop" /\ vpc' = "drain"
  /\ ioFailed' = FALSE
  /\ UNCHANGED <<files, gcur, genRes, doneFuts, verFut, verArg>>

(* The process is killed; what it held in memory is gone. *)
Crash ==
  /\ main = "running"
  /\ main' = "down"
  /\ Idle
  /\ queue' = <<>> /\ gen_done' = FALSE /\ ioFailed' = FALSE
  /\ predictions' = [t \in Tasks |-> None]
  /\ verification' = [t \in Tasks |-> None]
  /\ UNCHANGED <<files, runs, skip_gen>>

(* gen_thread.join(); ver_thread.join(); the report from the two dicts. *)
Report ==
  /\ main = "running"
  /\ gpc = "done" /\ vpc = "done"
  /\ main' = "reported"
  /\ Idle
  /\ UNCHANGED <<files, runs, skip_gen, shared, ioFailed>>

-------------------------------------------------------------------------------
(* The generator thread. *)

(* A pool thread leaves _gen_one, with an entry or an exception. *)
GenFutureDone(t) ==
  /\ genFut[t] = "submitted"
  /\ genFut' = [genFut EXCEPT ![t] = "done"]
  /\ \E r \in Answers \cup {Raised} : genRes' = [genRes EXCEPT ![t] = r]
  /\ UNCHANGED <<files, proc, shared, gpc, gcur, verVars, ioFailed>>

(* as_completed yields the next future. *)
GenNext(t) ==
  /\ gpc = "loop"
  /\ genFut[t] = "done"
  /\ gcur' = t
  /\ gpc' = "write"
  /\ UNCHANGED <<files, proc, shared, genFut, genRes, verVars, ioFailed>>

(* The except branch makes an entry with the answer "". *)
EntryAnswer(t) == IF genRes[t] = Raised THEN Empty ELSE genRes[t]

(* A bug the code does not have: the row waits in a buffer that a crash    *)
(* loses, no flush before the task is queued.                              *)
GenWrite_NoFlush ==
  /\ gpc = "write"
  /\ predictions' = [predictions EXCEPT ![gcur] = EntryAnswer(gcur)]
  /\ genFut' = [genFut EXCEPT ![gcur] = "handled"]
  /\ gpc' = "put"
  /\ UNCHANGED <<files, proc, queue, gen_done, verification, gcur, genRes,
                 verVars, ioFailed>>

(* The dict, the row and its flush, under pred_lock. *)
GenWrite ==
  /\ gpc = "write"
  /\ predictions' = [predictions EXCEPT ![gcur] = EntryAnswer(gcur)]
  /\ predFile' = [predFile EXCEPT ![gcur] = Append(@, EntryAnswer(gcur))]
  /\ genFut' = [genFut EXCEPT ![gcur] = "handled"]
  /\ gpc' = "put"
  /\ UNCHANGED <<verFile, proc, queue, gen_done, verification, gcur, genRes,
                 verVars, ioFailed>>

(* The write raises out of the loop.  The row may still reach the file     *)
(* when the with statement closes it.                                      *)
GenWriteFails ==
  /\ gpc = "write"
  /\ predictions' = [predictions EXCEPT ![gcur] = EntryAnswer(gcur)]
  /\ predFile' \in {predFile,
                    [predFile EXCEPT ![gcur] = Append(@, EntryAnswer(gcur))]}
  /\ genFut' = [genFut EXCEPT ![gcur] = "handled"]
  /\ gpc' = "shutdown"
  /\ gcur' = None
  /\ ioFailed' = TRUE
  /\ UNCHANGED <<verFile, proc, queue, gen_done, verification, genRes, verVars>>

(* The finished prediction is queued unless it is verified already. *)
GenPut ==
  /\ gpc = "put"
  /\ queue' = IF verification[gcur] = None
              THEN Append(queue, <<gcur, predictions[gcur]>>) ELSE queue
  /\ gpc' = "loop"
  /\ gcur' = None
  /\ UNCHANGED <<files, proc, gen_done, dicts, genFut, genRes, verVars,
                 ioFailed>>

(* A bug the code does not have: gen_done is not set in a finally block,   *)
(* so an exception in the loop leaves it unset.                            *)
GenFinish_NoFinally ==
  /\ \/ gpc = "loop" /\ \A t \in Tasks : genFut[t] \in {"none", "handled"}
     \/ gpc = "shutdown" /\ \A t \in Tasks : genFut[t] # "submitted"
  /\ gen_done' = (gpc = "loop")
  /\ gpc' = "done"
  /\ UNCHANGED <<files, proc, queue, dicts, gcur, genFut, genRes, verVars,
                 ioFailed>>

(* The loop is over, or an exception left it and the executor has waited   *)
(* for the other futures; either way the finally block sets gen_done.      *)
GenFinish ==
  /\ \/ gpc = "loop" /\ \A t \in Tasks : genFut[t] \in {"none", "handled"}
     \/ gpc = "shutdown" /\ \A t \in Tasks : genFut[t] # "submitted"
  /\ gen_done' = TRUE
  /\ gpc' = "done"
  /\ UNCHANGED <<files, proc, queue, dicts, gcur, genFut, genRes, verVars,
                 ioFailed>>

Generator ==
  \/ \E t \in Tasks : GenNext(t)
  \/ GenWrite \/ GenWriteFails \/ GenPut \/ GenFinish

-------------------------------------------------------------------------------
(* The verifier thread. *)

(* get_nowait and submit. *)
VerSubmit ==
  /\ vpc = "drain"
  /\ queue # <<>>
  /\ LET t == Head(queue)[1]
     IN  /\ verFut' = [verFut EXCEPT ![t] = "submitted"]
         /\ verArg' = [verArg EXCEPT ![t] = Head(queue)[2]]
  /\ queue' = Tail(queue)
  /\ UNCHANGED <<files, proc, gen_done, dicts, genVars, vpc, doneFuts, ioFailed>>

(* queue.Empty ends the drain; done_futs is computed. *)
VerCollect ==
  /\ vpc = "drain"
  /\ queue = <<>>
  /\ doneFuts' = {t \in Tasks : verFut[t] = "done"}
  /\ vpc' = "record"
  /\ UNCHANGED <<files, proc, shared, genVars, verFut, verArg, ioFailed>>

(* A pool thread leaves bench.verify; a raised exception scores 0. *)
VerFutureDone(t) ==
  /\ verFut[t] = "submitted"
  /\ verFut' = [verFut EXCEPT ![t] = "done"]
  /\ UNCHANGED <<files, proc, shared, genVars, vpc, doneFuts, verArg, ioFailed>>

(* pending.pop, the dict, the row and its flush, for one of done_futs. *)
VerRecord(t) ==
  /\ vpc = "record"
  /\ t \in doneFuts
  /\ doneFuts' = doneFuts \ {t}
  /\ verFut' = [verFut EXCEPT ![t] = "none"]
  /\ verification' = [verification EXCEPT ![t] = verArg[t]]
  /\ verFile' = [verFile EXCEPT ![t] = Append(@, verArg[t])]
  /\ UNCHANGED <<predFile, proc, queue, gen_done, predictions, genVars, vpc,
                 verArg, ioFailed>>

(* The write raises out of the loop. *)
VerWriteFails(t) ==
  /\ vpc = "record"
  /\ t \in doneFuts
  /\ doneFuts' = {}
  /\ verFut' = [verFut EXCEPT ![t] = "none"]
  /\ verification' = [verification EXCEPT ![t] = verArg[t]]
  /\ verFile' \in {verFile, [verFile EXCEPT ![t] = Append(@, verArg[t])]}
  /\ vpc' = "shutdown"
  /\ ioFailed' = TRUE
  /\ UNCHANGED <<predFile, proc, queue, gen_done, predictions, genVars, verArg>>

(* The executor waits for the pending calls; their results are dropped. *)
VerShutdown ==
  /\ vpc = "shutdown"
  /\ \A t \in Tasks : verFut[t] # "submitted"
  /\ vpc' = "done"
  /\ UNCHANGED <<files, proc, shared, genVars, doneFuts, verFut, verArg, ioFailed>>

(* The exit condition reads gen_done first ... *)
VerReadGenDone ==
  /\ vpc = "record"
  /\ doneFuts = {}
  /\ vpc' = IF gen_done THEN "exit" ELSE "drain"
  /\ UNCHANGED <<files, proc, shared, genVars, doneFuts, verFut, verArg, ioFailed>>

(* A bug the code does not have: the pending futures are not looked at. *)
VerReadQueue_IgnorePending ==
  /\ vpc = "exit"
  /\ vpc' = IF queue = <<>> THEN "done" ELSE "drain"
  /\ UNCHANGED <<files, proc, shared, genVars, doneFuts, verFut, verArg, ioFailed>>

(* ... and then the queue and the pending futures. *)
VerReadQueue ==
  /\ vpc = "exit"
  /\ vpc' = IF queue = <<>> /\ \A t \in Tasks : verFut[t] = "none"
            THEN "done" ELSE "drain"
  /\ UNCHANGED <<files, proc, shared, genVars, doneFuts, verFut, verArg, ioFailed>>

Verifier ==
  \/ VerSubmit \/ VerCollect \/ VerShutdown \/ VerReadGenDone \/ VerReadQueue
  \/ \E t \in Tasks : VerRecord(t) \/ VerWriteFails(t)

PoolThreads == \E t \in Tasks : GenFutureDone(t) \/ VerFutureDone(t)

-------------------------------------------------------------------------------
Next == Start \/ Crash \/ Report \/ Generator \/ Verifier \/ PoolThreads

Spec == Init /\ [][Next]_vars

(* Each thread keeps running, and every call of a pool thread returns: the *)
(* router's clients and the Docker calls of the benchmarks carry timeouts. *)
(* Nothing makes the user start the command again.                         *)
Fairness ==
  /\ WF_vars(Report)
  /\ WF_vars(Generator)
  /\ WF_vars(Verifier)
  /\ \A t \in Tasks : WF_vars(GenFutureDone(t)) /\ WF_vars(VerFutureDone(t))

FairSpec == Spec /\ Fairness

-------------------------------------------------------------------------------
(* The shape of every variable; in particular a row never holds anything   *)
(* but an answer, also when a future raised.                               *)
TypeOK ==
  /\ predFile \in [Tasks -> Seq(Answers)]
  /\ verFile \in [Tasks -> Seq(Answers \cup {Legacy})]
  /\ runs \in 0..MaxRuns
  /\ main \in {"down", "running", "reported"}
  /\ skip_gen \in BOOLEAN
  /\ predictions \in [Tasks -> Answers \cup {None}]
  /\ verification \in [Tasks -> Answers \cup {None, Legacy}]
  /\ queue \in Seq(Tasks \X Answers)
  /\ gen_done \in BOOLEAN
  /\ gpc \in {"off", "loop", "write", "put", "shutdown", "done"}
  /\ gcur \in Tasks \cup {None}
  /\ genFut \in [Tasks -> {"none", "submitted", "done", "handled"}]
  /\ genRes \in [Tasks -> Answers \cup {None, Raised}]
  /\ vpc \in {"off", "drain", "record", "exit", "shutdown", "done"}
  /\ doneFuts \subseteq Tasks
  /\ verFut \in [Tasks -> {"none", "submitted", "done"}]
  /\ verArg \in [Tasks -> Answers \cup {None}]
  /\ ioFailed \in BOOLEAN

(* However the runs, kills and failed writes fall, no task is generated    *)
(* into a second row or judged by a second row (need_gen, need_verify and  *)
(* the queue hand every task to one place at a time).                      *)
OneRowPerTask ==
  \A t \in Tasks : Len(predFile[t]) <= 1 /\ Len(verFile[t]) <= 1

(* A verification row judges the prediction that is on file: the row of    *)
(* the prediction is flushed before the task is queued, so no kill can     *)
(* leave the verdict without the answer it is about.                       *)
JudgedIsOnFile ==
  \A t \in Tasks : \A i \in 1..Len(verFile[t]) :
    verFile[t][i] # Legacy => predFile[t] = <<verFile[t][i]>>

(* The verifier's exit test loses nothing: when the report is printed and  *)
(* no write failed, every prediction has been judged, and unless skip_gen  *)
(* was given every task has a prediction.                                  *)
NothingLost ==
  (main = "reported" /\ ~ioFailed) =>
    \A t \in Tasks : /\ predictions[t] # None => verification[t] # None
                     /\ ~skip_gen => predictions[t] # None

(* Every run ends: also after an exception in either thread the two joins  *)
(* return, because gen_done is set in a finally block.                     *)
RunEnds == (main = "running") ~> (main # "running")

(* What a loader reads from the directory behaves like a ledger: first a   *)
(* prediction, never replaced, then one verdict on it.                     *)
Ledger == INSTANCE EvalLedger WITH pred <- Loaded(predFile), ver <- Loaded(verFile)

LedgerSpec == Ledger!Spec

-------------------------------------------------------------------------------
(* The inductive invariant: at every moment a task is in one place.        *)

Queued(t) == \E i \in 1..Len(queue) : queue[i][1] = t

(* The generator has the prediction of t on file but not yet in the queue. *)
Putting(t) == gpc = "put" /\ gcur = t

(* The prediction a on file is all that exists of t: no verdict, no future *)
(* of the generator that could write it again.                             *)
AwaitsVerdict(t, a) ==
  /\ predFile[t] = <<a>>
  /\ verFile[t] = <<>>
  /\ genFut[t] \in {"none", "handled"}
  /\ ~Putting(t)

(* Threads exist only while the main thread waits for them. *)
ThreadsOff ==
  main # "running" =>
    /\ gpc = "off" /\ vpc = "off" /\ doneFuts = {}
    /\ \A t \in Tasks : genFut[t] = "none" /\ verFut[t] = "none"

QueueSound ==
  main = "running" =>
    \A i \in 1..Len(queue) :
      /\ AwaitsVerdict(queue[i][1], queue[i][2])
      /\ verFut[queue[i][1]] = "none"
      /\ \A j \in 1..Len(queue) : queue[i][1] = queue[j][1] => i = j

PendingSound ==
  /\ \A t \in Tasks : verFut[t] # "none" => AwaitsVerdict(t, verArg[t])
  /\ \A t \in doneFuts : verFut[t] = "done"

GeneratorSound ==
  /\ \A t \in Tasks : /\ genFut[t] \in {"submitted", "done"} => predFile[t] = <<>>
                      /\ genFut[t] = "done" => genRes[t] # None
  /\ gpc = "write" => gcur \in Tasks /\ genFut[gcur] = "done"
  /\ gpc = "put" => /\ gcur \in Tasks
                    /\ genFut[gcur] = "handled"
                    /\ predFile[gcur] = <<predictions[gcur]>>

(* An answer the dict verification lacks is not on file either. *)
DictSound ==
  main = "running" => \A t \in Tasks : verification[t] = None => verFile[t] = <<>>

(* In a run without a failed write, every task that is not judged yet is   *)
(* still in the hands of a thread, a future or the queue.                  *)
NothingDropped ==
  (main = "running" /\ ~ioFailed) =>
    \A t \in Tasks :
      /\ predictions[t] # None =>
           verification[t] # None \/ Queued(t) \/ verFut[t] # "none" \/ Putting(t)
      /\ predictions[t] = None /\ ~skip_gen => genFut[t] \in {"submitted", "done"}

(* What the control state of each thread says about the work left. *)
ControlSound ==
  main = "running" =>
    /\ gen_done <=> gpc = "done"
    /\ gpc = "done" => \A t \in Tasks : genFut[t] # "submitted"
    /\ gpc = "done" /\ ~ioFailed =>
         \A t \in Tasks : genFut[t] \in {"none", "handled"}
    /\ "shutdown" \in {gpc, vpc} => ioFailed
    /\ vpc = "exit" => gen_done
    /\ vpc = "done" /\ ~ioFailed =>
         gen_done /\ queue = <<>> /\ \A t \in Tasks : verFut[t] = "none"

IInv ==
  /\ TypeOK
  /\ OneRowPerTask /\ JudgedIsOnFile /\ NothingLost
  /\ ThreadsOff /\ QueueSound /\ PendingSound /\ GeneratorSound /\ DictSound
  /\ NothingDropped /\ ControlSound

===============================================================================
