---------------------------- MODULE SequentialEval ----------------------------
(***************************************************************************)
(* The mode of eval_pipeline/run.py for SWE-bench one-shot: generate all,  *)
(* then verify_batch of benchmarks/swebench.py gives every unverified      *)
(* prediction to one run of the SWE-bench harness and reads its verdicts   *)
(* from a report directory that is the same in every run.  The harness is  *)
(* a process of its own: a kill or a timeout of the command leaves it      *)
(* running.  The command can be killed between any two steps and started   *)
(* again on the same directory.                                            *)
(*                                                                         *)
(* Abstractions.  A prediction row is its answer, a verification row its   *)
(* reward and the answer it judges, and the reports are the tasks they     *)
(* call resolved, each with the answer the harness ran.  The harness may   *)
(* call the same answer resolved once and not the next time.               *)
(***************************************************************************)
EXTENDS Naturals, Sequences

CONSTANTS Tasks, Answers,
          None,      \* absent
          Legacy,    \* judged by an interactive run that was killed
          MaxRuns    \* bound: how often the command is started

ASSUME SequentialAssumption ==
  /\ None \notin Answers /\ Legacy \notin Answers /\ None # Legacy
  /\ MaxRuns \in Nat

VARIABLES
  predFile,   \* predictions.jsonl: the rows of each task
  verFile,    \* verification.jsonl: the rows of each task
  runs,       \* how often the command was started
  main,       \* "down", "generating", "draining" (the loop was left by an
              \* exception, the executor waits), "generated", "harness",
              \* "recording", "failed" or "reported"
  skip_verify,
  fut,        \* "none", "submitted", "done", "raised" or "handled"
  batch,      \* the answers given to verify_batch, or None
  unsaved,    \* results whose rows have not reached the file
  resolved_ids,
  reports,    \* the <<task, answer>> the report directory calls resolved
  orphans,    \* what harnesses of killed runs are still judging
  resolved    \* history: the <<task, answer>> some harness ever resolved

files == <<predFile, verFile>>
judging == <<batch, unsaved, resolved_ids>>
harness == <<reports, orphans, resolved>>
vars == <<files, runs, main, skip_verify, fut, judging, harness>>

-------------------------------------------------------------------------------
(* The rows a loader finds: the last row of a task wins. *)
Loaded(file) ==
  [t \in Tasks |-> IF file[t] = <<>> THEN None ELSE file[t][Len(file[t])]]

NoBatch == [t \in Tasks |-> None]

(* The directory as one-shot or interactive runs can have left it. *)
Init ==
  /\ predFile \in [Tasks -> {<<>>} \cup {<<a>> : a \in Answers}]
  /\ verFile \in [Tasks -> {<<>>, <<[judged |-> Legacy, reward |-> 1]>>}]
  /\ runs = 0
  /\ main = "down"
  /\ skip_verify = FALSE
  /\ fut = [t \in Tasks |-> "none"]
  /\ batch = NoBatch /\ unsaved = {} /\ resolved_ids = {}
  /\ reports = {} /\ orphans = {} /\ resolved = {}

(* A bug the code does not have: a task is generated until it is verified. *)
NeedGen_UntilVerified == {t \in Tasks : verFile[t] = <<>>}

(* need_gen *)
NeedGen == {t \in Tasks : predFile[t] = <<>>}

Running == main \in {"generating", "draining", "generated", "harness", "recording"}

(* The command starts with or without --skip_gen and --skip_verify; the    *)
(* pool gets every task that needs a prediction.                           *)
Start ==
  /\ ~Running
  /\ runs < MaxRuns
  /\ runs' = runs + 1
  /\ main' = "generating"
  /\ skip_verify' \in BOOLEAN
  /\ \E need \in {NeedGen, {}} :
       fut' = [t \in Tasks |-> IF t \in need THEN "submitted" ELSE "none"]
  /\ UNCHANGED <<files, judging, harness>>

Given == {<<t, batch[t]>> : t \in {u \in Tasks : batch[u] # None}}

(* What the process held is gone; a harness it had started goes on. *)
Stop ==
  /\ fut' = [t \in Tasks |-> "none"]
  /\ batch' = NoBatch /\ unsaved' = {} /\ resolved_ids' = {}
  /\ orphans' = IF main = "harness" THEN orphans \cup Given ELSE orphans
  /\ UNCHANGED <<files, runs, skip_verify, reports, resolved>>

Crash ==
  /\ Running
  /\ main' = "down"
  /\ Stop

-------------------------------------------------------------------------------
(* Generating *)

(* _gen_one returns or raises. *)
FutureDone(t) ==
  /\ fut[t] = "submitted"
  /\ \E s \in {"done", "raised"} : fut' = [fut EXCEPT ![t] = s]
  /\ UNCHANGED <<files, runs, main, skip_verify, judging, harness>>

(* as_completed yields a future: its row is written and flushed.           *)
Collect(t) ==
  /\ main = "generating"
  /\ fut[t] = "done"
  /\ fut' = [fut EXCEPT ![t] = "handled"]
  /\ \E a \in Answers : predFile' = [predFile EXCEPT ![t] = Append(@, a)]
  /\ UNCHANGED <<verFile, runs, main, skip_verify, judging, harness>>

(* fut.result() raises, or the write does, whose row may be on file.       *)
CollectFails(t) ==
  /\ main = "generating"
  /\ fut[t] \in {"done", "raised"}
  /\ fut' = [fut EXCEPT ![t] = "handled"]
  /\ main' = "draining"
  /\ \/ UNCHANGED predFile
     \/ /\ fut[t] = "done"
        /\ \E a \in Answers : predFile' = [predFile EXCEPT ![t] = Append(@, a)]
  /\ UNCHANGED <<verFile, runs, skip_verify, judging, harness>>

(* A bug the code does not have: the executor waits for futures nobody     *)
(* collects any more.                                                      *)
GenerateFails_AllHandled ==
  /\ main = "draining"
  /\ \A t \in Tasks : fut[t] \in {"none", "handled"}
  /\ main' = "failed"
  /\ Stop

(* The executor has waited for the others, whose answers are dropped. *)
GenerateFails ==
  /\ main = "draining"
  /\ \A t \in Tasks : fut[t] # "submitted"
  /\ main' = "failed"
  /\ Stop

Generated ==
  /\ main = "generating"
  /\ \A t \in Tasks : fut[t] \in {"none", "handled"}
  /\ main' = "generated"
  /\ UNCHANGED <<files, runs, skip_verify, fut, judging, harness>>

-------------------------------------------------------------------------------
(* Verifying *)

(* A bug the code does not have: verdicts on file are made again. *)
Ordered_Judged == {t \in Tasks : predFile[t] # <<>>}

(* ordered *)
Ordered == {t \in Tasks : predFile[t] # <<>> /\ verFile[t] = <<>>}

NothingToVerify ==
  /\ main = "generated"
  /\ skip_verify \/ Ordered = {}
  /\ main' = "reported"
  /\ Stop

(* verify_batch writes the answers to the harness's input and starts it. *)
StartHarness ==
  /\ main = "generated"
  /\ ~skip_verify /\ Ordered # {}
  /\ batch' = [t \in Tasks |-> IF t \in Ordered THEN Loaded(predFile)[t] ELSE None]
  /\ main' = "harness"
  /\ UNCHANGED <<files, runs, skip_verify, fut, unsaved, resolved_ids, harness>>

(* The harness of this run, or an earlier one that nobody stopped, writes  *)
(* a report.                                                               *)
HarnessReports(t, a) ==
  /\ <<t, a>> \in orphans \/ (main = "harness" /\ <<t, a>> \in Given)
  /\ \/ reports' = reports \cup {<<t, a>>} /\ resolved' = resolved \cup {<<t, a>>}
     \/ reports' = reports \ {<<t, a>>} /\ UNCHANGED resolved
  /\ UNCHANGED <<files, runs, main, skip_verify, fut, judging, orphans>>

OrphanEnds(t, a) ==
  /\ <<t, a>> \in orphans
  /\ orphans' = orphans \ {<<t, a>>}
  /\ UNCHANGED <<files, runs, main, skip_verify, fut, judging, reports, resolved>>

(* The walk looks for the task's name in any report of the directory. *)
ReportedResolved(t) == \E p \in reports : p[1] = t

(* The harness exits, with whatever code and however far it came: a task   *)
(* without a report is judged 0.                                           *)
HarnessEnds ==
  /\ main = "harness"
  /\ resolved_ids' = {t \in Tasks : ReportedResolved(t)}
  /\ unsaved' = {t \in Tasks : batch[t] # None}
  /\ main' = "recording"
  /\ UNCHANGED <<files, runs, skip_verify, fut, batch, harness>>

(* subprocess.run raises: no harness, or its timeout, which stops only the *)
(* wrapper.  No verdict is recorded.                                       *)
HarnessFails ==
  /\ main = "harness"
  /\ main' = "failed"
  /\ Stop

(* A row reaches the file when the buffer spills or is closed, in any      *)
(* order of bench.load.                                                    *)
RowSaved(t) ==
  /\ main = "recording"
  /\ t \in unsaved
  /\ unsaved' = unsaved \ {t}
  /\ verFile' = [verFile EXCEPT ![t] =
       Append(@, [judged |-> batch[t], reward |-> IF t \in resolved_ids THEN 1 ELSE 0])]
  /\ UNCHANGED <<predFile, runs, main, skip_verify, fut, batch, resolved_ids, harness>>

RecordFails ==
  /\ main = "recording"
  /\ main' = "failed"
  /\ Stop

(* The file is closed and the report printed. *)
Report ==
  /\ main = "recording"
  /\ unsaved = {}
  /\ main' = "reported"
  /\ Stop

-------------------------------------------------------------------------------
Generate ==
  \/ \E t \in Tasks : FutureDone(t) \/ Collect(t) \/ CollectFails(t)
  \/ GenerateFails \/ Generated

Verify ==
  \/ NothingToVerify \/ StartHarness \/ HarnessEnds \/ HarnessFails
  \/ \E t \in Tasks : RowSaved(t)
  \/ RecordFails \/ Report

External == \E t \in Tasks, a \in Answers : HarnessReports(t, a) \/ OrphanEnds(t, a)

Next == Start \/ Crash \/ Generate \/ Verify \/ External

Spec == Init /\ [][Next]_vars

(* The thread of the command and the workers of the pool make progress;    *)
(* the harness has a timeout.                                              *)
FairSpec == Spec /\ WF_vars(Generate) /\ WF_vars(Verify)

-------------------------------------------------------------------------------
Row == [judged : Answers \cup {Legacy}, reward : {0, 1}]

TypeOK ==
  /\ predFile \in [Tasks -> Seq(Answers)]
  /\ verFile \in [Tasks -> Seq(Row)]
  /\ runs \in 0..MaxRuns
  /\ main \in {"down", "generating", "draining", "generated", "harness",
               "recording", "failed", "reported"}
  /\ skip_verify \in BOOLEAN
  /\ fut \in [Tasks -> {"none", "submitted", "done", "raised", "handled"}]
  /\ batch \in [Tasks -> Answers \cup {None}]
  /\ unsaved \in SUBSET Tasks /\ resolved_ids \in SUBSET Tasks
  /\ reports \in SUBSET (Tasks \X Answers)
  /\ orphans \in SUBSET (Tasks \X Answers)
  /\ resolved \in SUBSET (Tasks \X Answers)

(* A task is rewarded only if a harness once resolved the very answer that *)
(* is on file, though the code finds it by name in reports of any earlier  *)
(* run and harnesses of killed runs go on writing them.                    *)
RewardOfThisAnswer ==
  \A t \in Tasks : \A i \in 1..Len(verFile[t]) :
    LET row == verFile[t][i]
    IN  (row.reward = 1 /\ row.judged # Legacy) =>
          predFile[t] # <<>> /\ <<t, predFile[t][Len(predFile[t])]>> \in resolved

JudgedAnswers ==
  [t \in Tasks |-> IF verFile[t] = <<>> THEN None ELSE Loaded(verFile)[t].judged]

Ledger == INSTANCE EvalLedger WITH pred <- Loaded(predFile), ver <- JudgedAnswers

(* The batch mode keeps the ledger's promises, too, though its verdicts    *)
(* reach the file long after they were made: each step predicts one task   *)
(* once, judges one predicted task once, or leaves the directory alone.    *)
LedgerSpec == Ledger!Spec

(* Every started run ends, whatever its futures, its harness and its disk  *)
(* do.                                                                     *)
RunEnds == Running ~> ~Running

-------------------------------------------------------------------------------
(* The inductive invariant: rows are unique, and what is on its way to the *)
(* file is on its way once.                                                *)

OneRowPerTask == \A t \in Tasks : Len(predFile[t]) <= 1 /\ Len(verFile[t]) <= 1

(* A task in the pool has no prediction yet. *)
Unpredicted ==
  \A t \in Tasks : fut[t] \in {"submitted", "done", "raised"} => predFile[t] = <<>>

(* The batch holds predictions on file, and unsaved ones have no verdict. *)
BatchOnFile ==
  /\ \A t \in Tasks :
       batch[t] # None => main \in {"harness", "recording"} /\ predFile[t] = <<batch[t]>>
  /\ \A t \in Tasks : (main = "harness" /\ batch[t] # None) => verFile[t] = <<>>
  /\ \A t \in unsaved : main = "recording" /\ batch[t] # None /\ verFile[t] = <<>>

(* Harnesses judge predictions on file, and what a report calls resolved   *)
(* was.                                                                    *)
JudgeOnFile ==
  /\ \A p \in orphans : predFile[p[1]] = <<p[2]>>
  /\ \A p \in resolved : predFile[p[1]] = <<p[2]>>
  /\ reports \subseteq resolved
  /\ \A t \in resolved_ids : \E a \in Answers : <<t, a>> \in resolved

(* A verdict judges the prediction on file. *)
VerdictOnFile ==
  \A t \in Tasks : verFile[t] # <<>> =>
    LET row == verFile[t][1]
    IN  row.judged # Legacy =>
          /\ predFile[t] = <<row.judged>>
          /\ row.reward = 1 => <<t, row.judged>> \in resolved

IInv ==
  /\ TypeOK /\ OneRowPerTask /\ Unpredicted /\ BatchOnFile /\ JudgeOnFile
  /\ VerdictOnFile

===============================================================================
