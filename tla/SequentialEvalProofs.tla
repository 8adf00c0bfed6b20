------------------------- MODULE SequentialEvalProofs -------------------------
(***************************************************************************)
(* The safety of the batch mode for every set of tasks and answers and any *)
(* number of runs, kills, failed writes and harnesses nobody stopped, and  *)
(* the refinement of the ledger.                                           *)
(***************************************************************************)
EXTENDS SequentialEval, SequenceTheorems, TLAPS

-------------------------------------------------------------------------------
LEMMA OneRow ==
  ASSUME NEW S, NEW a \in S
  PROVE  <<a>> \in Seq(S) /\ Len(<<a>>) = 1 /\ <<a>>[1] = a /\ <<a>> # <<>>
OBVIOUS

LEMMA NoRow == ASSUME NEW S PROVE <<>> \in Seq(S) /\ Len(<<>>) = 0
OBVIOUS

LEMMA FirstRow ==
  ASSUME NEW S, NEW a \in S, NEW s \in Seq(S), s = <<>>
  PROVE  Append(s, a) = <<a>>
OBVIOUS

LEMMA AtMostOneRow ==
  ASSUME NEW S, NEW s \in Seq(S), Len(s) <= 1, s # <<>>
  PROVE  Len(s) = 1 /\ s[1] \in S /\ s = <<s[1]>>
<1>1. Len(s) = 1 /\ s[1] \in S
  OBVIOUS
<1>. QED
  BY <1>1, OneRow, SeqEqual

LEMMA SameRow ==
  ASSUME NEW a, NEW b, <<a>> = <<b>>
  PROVE  a = b
OBVIOUS

-------------------------------------------------------------------------------
(* The inductive invariant. *)

LEMMA InitInv == Init => IInv
<1> SUFFICES ASSUME Init PROVE IInv
  OBVIOUS
<1> DEFINE legacy == [judged |-> Legacy, reward |-> 1]
<1>1. legacy \in Row
  BY DEF Row
<1>2. ASSUME NEW t \in Tasks
      PROVE  /\ predFile[t] \in Seq(Answers) /\ Len(predFile[t]) <= 1
             /\ verFile[t] \in Seq(Row) /\ Len(verFile[t]) <= 1
             /\ verFile[t] # <<>> => verFile[t][1].judged = Legacy
  <2> HIDE DEF legacy
  <2>1. predFile[t] = <<>> \/ \E a \in Answers : predFile[t] = <<a>>
    BY DEF Init
  <2>2. predFile[t] \in Seq(Answers) /\ Len(predFile[t]) <= 1
    <3>1. CASE predFile[t] = <<>>
      BY <3>1, NoRow
    <3>2. ASSUME NEW a \in Answers, predFile[t] = <<a>>
          PROVE  predFile[t] \in Seq(Answers) /\ Len(predFile[t]) <= 1
      BY <3>2, OneRow
    <3>. QED
      BY <2>1, <3>1, <3>2
  <2>3. verFile[t] = <<>> \/ verFile[t] = <<legacy>>
    BY DEF Init, legacy
  <2>4. CASE verFile[t] = <<>>
    BY <2>2, <2>4, NoRow
  <2>5. CASE verFile[t] = <<legacy>>
    <3>1. legacy.judged = Legacy
      BY DEF legacy
    <3>. QED
      BY <1>1, <2>2, <2>5, <3>1, OneRow
  <2>. QED
    BY <2>3, <2>4, <2>5
<1>3. TypeOK
  <2>1. predFile \in [Tasks -> Seq(Answers)] /\ verFile \in [Tasks -> Seq(Row)]
    BY <1>2 DEF Init
  <2>2. runs \in 0..MaxRuns
    BY SequentialAssumption DEF Init
  <2>3. /\ batch \in [Tasks -> Answers \cup {None}] /\ unsaved \in SUBSET Tasks
        /\ fut \in [Tasks -> {"none", "submitted", "done", "raised", "handled"}]
    BY DEF Init, NoBatch
  <2>4. /\ reports \in SUBSET (Tasks \X Answers)
        /\ orphans \in SUBSET (Tasks \X Answers)
        /\ resolved \in SUBSET (Tasks \X Answers)
    BY DEF Init
  <2>. QED
    BY <2>1, <2>2, <2>3, <2>4 DEF Init, TypeOK
<1>4. OneRowPerTask
  BY <1>2 DEF OneRowPerTask
<1>5. Unpredicted /\ BatchOnFile /\ JudgeOnFile
  BY DEF Init, Unpredicted, BatchOnFile, JudgeOnFile, NoBatch
<1>6. VerdictOnFile
  BY <1>2 DEF VerdictOnFile
<1>. QED
  BY <1>3, <1>4, <1>5, <1>6 DEF IInv

(* What stops a process keeps the invariant: a harness it leaves behind    *)
(* judges predictions that are on file.                                    *)
LEMMA StopInv ==
  ASSUME IInv, Stop, main' \in {"down", "failed", "reported"}
  PROVE  IInv'
<1>1. \A p \in orphans' : p \in Tasks \X Answers /\ predFile[p[1]] = <<p[2]>>
  <2>1. \A p \in Given : p \in Tasks \X Answers /\ predFile[p[1]] = <<p[2]>>
    BY DEF IInv, TypeOK, BatchOnFile, Given
  <2>. QED
    BY <2>1 DEF IInv, TypeOK, JudgeOnFile, Stop, files
<1>2. TypeOK'
  <2>1. /\ batch' \in [Tasks -> Answers \cup {None}] /\ unsaved' \in SUBSET Tasks
        /\ fut' \in [Tasks -> {"none", "submitted", "done", "raised", "handled"}]
        /\ resolved_ids' \in SUBSET Tasks
    BY DEF Stop, NoBatch
  <2>2. orphans' \in SUBSET (Tasks \X Answers)
    BY <1>1
  <2>. QED
    BY <2>1, <2>2 DEF IInv, TypeOK, Stop, files
<1>3. OneRowPerTask' /\ Unpredicted' /\ VerdictOnFile'
  BY DEF IInv, OneRowPerTask, Unpredicted, VerdictOnFile, Stop, files
<1>4. BatchOnFile'
  BY DEF BatchOnFile, Stop, files, NoBatch
<1>5. JudgeOnFile'
  BY <1>1 DEF IInv, JudgeOnFile, Stop, files
<1>. QED
  BY <1>2, <1>3, <1>4, <1>5 DEF IInv

(* A task of the pool gets its first row, and nothing on file or on its    *)
(* way there is about this task.                                           *)
LEMMA PredictInv ==
  ASSUME IInv, NEW t \in Tasks, NEW a \in Answers,
         fut[t] = "done", main = "generating",
         fut' = [fut EXCEPT ![t] = "handled"],
         predFile' = [predFile EXCEPT ![t] = Append(@, a)],
         main' \in {"generating", "draining"},
         UNCHANGED <<verFile, runs, skip_verify, judging, harness>>
  PROVE  IInv'
<1>1. predFile[t] = <<>> /\ predFile' = [predFile EXCEPT ![t] = <<a>>]
  BY FirstRow DEF IInv, Unpredicted, TypeOK
<1>2. \A u \in Tasks : u # t => predFile'[u] = predFile[u]
  BY <1>1 DEF IInv, TypeOK
<1>3. \A b : predFile[t] # <<b>>
  BY <1>1
<1>4. TypeOK'
  <2>1. predFile' \in [Tasks -> Seq(Answers)]
    BY <1>1, OneRow DEF IInv, TypeOK
  <2>2. fut' \in [Tasks -> {"none", "submitted", "done", "raised", "handled"}]
    BY DEF IInv, TypeOK
  <2>. QED
    BY <2>1, <2>2 DEF IInv, TypeOK, judging, harness
<1>5. OneRowPerTask'
  <2>1. Len(predFile'[t]) <= 1
    BY <1>1, OneRow DEF IInv, TypeOK
  <2>. QED
    BY <1>2, <2>1 DEF IInv, OneRowPerTask
<1>6. Unpredicted'
  BY <1>2 DEF IInv, Unpredicted, TypeOK
<1>7. BatchOnFile'
  <2>1. \A u \in Tasks : batch[u] = None
    BY DEF IInv, BatchOnFile
  <2>2. unsaved = {}
    BY DEF IInv, BatchOnFile, TypeOK
  <2>. QED
    BY <2>1, <2>2 DEF BatchOnFile, judging
<1>8. JudgeOnFile'
  <2>1. \A p \in orphans : predFile'[p[1]] = <<p[2]>>
    BY <1>2, <1>3 DEF IInv, JudgeOnFile, TypeOK
  <2>2. \A p \in resolved : predFile'[p[1]] = <<p[2]>>
    BY <1>2, <1>3 DEF IInv, JudgeOnFile, TypeOK
  <2>. QED
    BY <2>1, <2>2 DEF IInv, JudgeOnFile, judging, harness
<1>9. VerdictOnFile'
  BY <1>2, <1>3 DEF IInv, VerdictOnFile, harness
<1>. QED
  BY <1>4, <1>5, <1>6, <1>7, <1>8, <1>9 DEF IInv

(* The batch takes predictions on file that have no verdict. *)
LEMMA StartHarnessInv == ASSUME IInv, StartHarness PROVE IInv'
<1>1. ASSUME NEW t \in Tasks
      PROVE  \/ batch'[t] = None
             \/ batch'[t] \in Answers /\ predFile[t] = <<batch'[t]>> /\ verFile[t] = <<>>
  <2>1. CASE t \notin Ordered
    BY <2>1 DEF StartHarness
  <2>2. CASE t \in Ordered
    <3>1. predFile[t] \in Seq(Answers) /\ Len(predFile[t]) <= 1
          /\ predFile[t] # <<>> /\ verFile[t] = <<>>
      BY <2>2 DEF Ordered, IInv, TypeOK, OneRowPerTask
    <3>2. Len(predFile[t]) = 1 /\ predFile[t][1] \in Answers
          /\ predFile[t] = <<predFile[t][1]>>
      BY <3>1, AtMostOneRow
    <3>3. batch'[t] = predFile[t][1]
      BY <2>2, <3>1, <3>2 DEF StartHarness, Loaded
    <3>. QED
      BY <3>1, <3>2, <3>3
  <2>. QED
    BY <2>1, <2>2
<1>2. TypeOK'
  <2>1. batch' \in [Tasks -> Answers \cup {None}]
    BY <1>1 DEF StartHarness
  <2>. QED
    BY <2>1 DEF IInv, TypeOK, StartHarness, files, harness
<1>3. BatchOnFile'
  <2>1. unsaved = {}
    BY DEF IInv, BatchOnFile, TypeOK, StartHarness
  <2>. QED
    BY <1>1, <2>1 DEF BatchOnFile, StartHarness, files
<1>4. OneRowPerTask' /\ Unpredicted' /\ JudgeOnFile' /\ VerdictOnFile'
  BY DEF IInv, OneRowPerTask, Unpredicted, JudgeOnFile, VerdictOnFile,
         StartHarness, files, harness
<1>. QED
  BY <1>2, <1>3, <1>4 DEF IInv

(* A report is about an answer on file, this run's or an earlier one's. *)
LEMMA HarnessReportsInv ==
  ASSUME IInv, NEW t \in Tasks, NEW a \in Answers, HarnessReports(t, a)
  PROVE  IInv'
<1>1. predFile[t] = <<a>>
  <2>1. CASE <<t, a>> \in orphans
    BY <2>1 DEF IInv, JudgeOnFile
  <2>2. CASE <<t, a>> \in Given
    BY <2>2 DEF IInv, BatchOnFile, Given
  <2>. QED
    BY <2>1, <2>2 DEF HarnessReports
<1>2. resolved \subseteq resolved' /\ reports' \subseteq resolved'
      /\ resolved' \subseteq resolved \cup {<<t, a>>}
  BY DEF IInv, JudgeOnFile, HarnessReports
<1>3. TypeOK'
  BY <1>2 DEF IInv, TypeOK, HarnessReports, files, judging
<1>4. OneRowPerTask' /\ Unpredicted' /\ BatchOnFile'
  BY DEF IInv, OneRowPerTask, Unpredicted, BatchOnFile, HarnessReports, files, judging
<1>5. JudgeOnFile'
  <2>1. \A p \in resolved' : predFile[p[1]] = <<p[2]>>
    BY <1>1, <1>2 DEF IInv, JudgeOnFile
  <2>. QED
    BY <1>2, <2>1 DEF IInv, JudgeOnFile, HarnessReports, files, judging
<1>6. VerdictOnFile'
  BY <1>2 DEF IInv, VerdictOnFile, HarnessReports, files
<1>. QED
  BY <1>3, <1>4, <1>5, <1>6 DEF IInv

(* A reported task was once resolved. *)
LEMMA HarnessEndsInv == ASSUME IInv, HarnessEnds PROVE IInv'
<1>1. ASSUME NEW t \in resolved_ids'
      PROVE  \E a \in Answers : <<t, a>> \in resolved
  <2>1. PICK p \in reports : p[1] = t
    BY DEF HarnessEnds, ReportedResolved
  <2>2. p \in resolved /\ p \in Tasks \X Answers
    BY <2>1 DEF IInv, JudgeOnFile, TypeOK
  <2>3. p = <<t, p[2]>> /\ p[2] \in Answers
    BY <2>1, <2>2
  <2>. QED
    BY <2>2, <2>3
<1>2. TypeOK'
  BY DEF IInv, TypeOK, HarnessEnds, files, harness
<1>3. JudgeOnFile'
  BY <1>1 DEF IInv, JudgeOnFile, HarnessEnds, files, harness
<1>4. OneRowPerTask' /\ Unpredicted' /\ BatchOnFile' /\ VerdictOnFile'
  BY DEF IInv, OneRowPerTask, Unpredicted, BatchOnFile, VerdictOnFile,
         HarnessEnds, files, harness
<1>. QED
  BY <1>2, <1>3, <1>4 DEF IInv

(* A saved row is the task's first verdict and judges its prediction. *)
LEMMA RowSavedInv ==
  ASSUME IInv, NEW t \in Tasks, RowSaved(t)
  PROVE  IInv'
<1>1. PICK row : row = [judged |-> batch[t],
                        reward |-> IF t \in resolved_ids THEN 1 ELSE 0]
  OBVIOUS
<1>2. /\ batch[t] \in Answers /\ predFile[t] = <<batch[t]>> /\ verFile[t] = <<>>
      /\ batch[t] # Legacy
  BY SequentialAssumption DEF IInv, BatchOnFile, TypeOK, RowSaved
<1>3. row \in Row /\ row.judged = batch[t] /\ (row.reward = 1 => t \in resolved_ids)
  BY <1>1, <1>2 DEF Row
<1>4. verFile' = [verFile EXCEPT ![t] = <<row>>]
  <2>1. verFile[t] \in Seq(Row)
    BY DEF IInv, TypeOK
  <2>2. Append(verFile[t], row) = <<row>>
    BY <1>2, <1>3, <2>1, FirstRow
  <2>. QED
    BY <1>1, <2>2 DEF RowSaved
<1>5. /\ verFile'[t] = <<row>> /\ verFile'[t][1] = row /\ Len(verFile'[t]) = 1
      /\ \A u \in Tasks : u # t => verFile'[u] = verFile[u]
  BY <1>3, <1>4, OneRow DEF IInv, TypeOK
<1>6. TypeOK'
  <2>1. verFile' \in [Tasks -> Seq(Row)]
    BY <1>3, <1>4, OneRow DEF IInv, TypeOK
  <2>. QED
    BY <2>1 DEF IInv, TypeOK, RowSaved, harness
<1>7. OneRowPerTask' /\ Unpredicted' /\ JudgeOnFile'
  <2>1. OneRowPerTask'
    BY <1>5 DEF IInv, OneRowPerTask, RowSaved
  <2>2. Unpredicted' /\ JudgeOnFile'
    BY DEF IInv, Unpredicted, JudgeOnFile, RowSaved, harness
  <2>. QED
    BY <2>1, <2>2
<1>8. BatchOnFile'
  BY <1>5 DEF IInv, BatchOnFile, RowSaved
<1>9. VerdictOnFile'
  <2>1. row.reward = 1 => <<t, row.judged>> \in resolved
    <3>1. SUFFICES ASSUME row.reward = 1 PROVE <<t, row.judged>> \in resolved
      OBVIOUS
    <3>2. PICK a \in Answers : <<t, a>> \in resolved
      BY <1>3, <3>1 DEF IInv, JudgeOnFile
    <3>3. predFile[t] = <<a>>
      BY <3>2 DEF IInv, JudgeOnFile
    <3>4. a = batch[t]
      BY <1>2, <3>3, SameRow
    <3>. QED
      BY <1>3, <3>2, <3>4
  <2>. QED
    BY <1>2, <1>3, <1>5, <2>1 DEF IInv, VerdictOnFile, RowSaved, harness
<1>. QED
  BY <1>6, <1>7, <1>8, <1>9 DEF IInv

(* Every step of the command and of its harnesses keeps the invariant. *)
LEMMA NextInv == IInv /\ [Next]_vars => IInv'
<1> SUFFICES ASSUME IInv, [Next]_vars PROVE IInv'
  OBVIOUS
<1>1. CASE Start
  <2>1. PICK need \in {NeedGen, {}} :
          fut' = [t \in Tasks |-> IF t \in need THEN "submitted" ELSE "none"]
    BY <1>1 DEF Start
  <2>2. TypeOK'
    <3>1. fut' \in [Tasks -> {"none", "submitted", "done", "raised", "handled"}]
      BY <2>1
    <3>2. runs' \in 0..MaxRuns
      BY <1>1, SequentialAssumption DEF Start, IInv, TypeOK
    <3>. QED
      BY <1>1, <3>1, <3>2 DEF IInv, TypeOK, Start, files, judging, harness
  <2>3. Unpredicted'
    BY <1>1, <2>1 DEF Unpredicted, Start, NeedGen, files
  <2>4. BatchOnFile'
    BY <1>1 DEF IInv, BatchOnFile, Start, Running, files, judging
  <2>5. OneRowPerTask' /\ JudgeOnFile' /\ VerdictOnFile'
    BY <1>1 DEF IInv, OneRowPerTask, JudgeOnFile, VerdictOnFile, Start,
                files, judging, harness
  <2>. QED
    BY <2>2, <2>3, <2>4, <2>5 DEF IInv
<1>2. CASE Crash
  BY <1>2, StopInv DEF Crash
<1>3. ASSUME NEW t \in Tasks, FutureDone(t) PROVE IInv'
  <2>1. PICK s \in {"done", "raised"} : fut' = [fut EXCEPT ![t] = s]
    BY <1>3 DEF FutureDone
  <2>2. TypeOK'
    BY <1>3, <2>1 DEF IInv, TypeOK, FutureDone, files, judging, harness
  <2>3. Unpredicted'
    BY <1>3, <2>1 DEF IInv, TypeOK, Unpredicted, FutureDone, files
  <2>4. OneRowPerTask' /\ BatchOnFile' /\ JudgeOnFile' /\ VerdictOnFile'
    BY <1>3 DEF IInv, OneRowPerTask, BatchOnFile, JudgeOnFile, VerdictOnFile,
                FutureDone, files, judging, harness
  <2>. QED
    BY <2>2, <2>3, <2>4 DEF IInv
<1>4. ASSUME NEW t \in Tasks, Collect(t) PROVE IInv'
  <2>1. PICK a \in Answers : predFile' = [predFile EXCEPT ![t] = Append(@, a)]
    BY <1>4 DEF Collect
  <2>. QED
    BY <1>4, <2>1, PredictInv DEF Collect
<1>5. ASSUME NEW t \in Tasks, CollectFails(t) PROVE IInv'
  <2>1. CASE UNCHANGED predFile
    <3>1. TypeOK'
      BY <1>5, <2>1 DEF IInv, TypeOK, CollectFails, judging, harness
    <3>2. Unpredicted'
      BY <1>5, <2>1 DEF IInv, TypeOK, Unpredicted, CollectFails
    <3>3. OneRowPerTask' /\ BatchOnFile' /\ JudgeOnFile' /\ VerdictOnFile'
      BY <1>5, <2>1 DEF IInv, OneRowPerTask, BatchOnFile, JudgeOnFile, VerdictOnFile,
                        CollectFails, judging, harness
    <3>. QED
      BY <3>1, <3>2, <3>3 DEF IInv
  <2>2. ASSUME NEW a \in Answers, fut[t] = "done",
               predFile' = [predFile EXCEPT ![t] = Append(@, a)]
        PROVE  IInv'
    BY <1>5, <2>2, PredictInv DEF CollectFails
  <2>. QED
    BY <1>5, <2>1, <2>2 DEF CollectFails
<1>6. CASE GenerateFails
  BY <1>6, StopInv DEF GenerateFails
<1>7. CASE Generated
  BY <1>7 DEF IInv, TypeOK, OneRowPerTask, Unpredicted, BatchOnFile, JudgeOnFile,
              VerdictOnFile, Generated, files, judging, harness
<1>8. CASE NothingToVerify
  BY <1>8, StopInv DEF NothingToVerify
<1>9. CASE StartHarness
  BY <1>9, StartHarnessInv
<1>10. ASSUME NEW t \in Tasks, NEW a \in Answers, HarnessReports(t, a) PROVE IInv'
  BY <1>10, HarnessReportsInv
<1>11. ASSUME NEW t \in Tasks, NEW a \in Answers, OrphanEnds(t, a) PROVE IInv'
  BY <1>11 DEF IInv, TypeOK, OneRowPerTask, Unpredicted, BatchOnFile, JudgeOnFile,
               VerdictOnFile, OrphanEnds, files, judging
<1>12. CASE HarnessEnds
  BY <1>12, HarnessEndsInv
<1>13. CASE HarnessFails
  BY <1>13, StopInv DEF HarnessFails
<1>14. ASSUME NEW t \in Tasks, RowSaved(t) PROVE IInv'
  BY <1>14, RowSavedInv
<1>15. CASE RecordFails
  BY <1>15, StopInv DEF RecordFails
<1>16. CASE Report
  BY <1>16, StopInv DEF Report
<1>17. CASE UNCHANGED vars
  BY <1>17 DEF IInv, TypeOK, OneRowPerTask, Unpredicted, BatchOnFile, JudgeOnFile,
               VerdictOnFile, vars, files, judging, harness
<1>. QED
  BY <1>1, <1>2, <1>3, <1>4, <1>5, <1>6, <1>7, <1>8, <1>9, <1>10, <1>11, <1>12,
     <1>13, <1>14, <1>15, <1>16, <1>17 DEF Next, Generate, Verify, External

-------------------------------------------------------------------------------
(* Whatever is killed, fails or is left running, rows are unique, what is  *)
(* on its way to the files is on its way once, and reports and verdicts    *)
(* are about the predictions on file.                                      *)
THEOREM Invariance == Spec => []IInv
<1>. QED
  BY InitInv, NextInv, PTL DEF Spec

(* No task ever gets a second prediction or a second verdict row. *)
THEOREM OneRow_PerTask == Spec => []OneRowPerTask
<1>1. IInv => OneRowPerTask
  BY DEF IInv
<1>. QED
  BY <1>1, Invariance, PTL

(* A reward of 1 on file was earned by the answer on file, though the code *)
(* finds it by the task's name in reports of any run.                      *)
THEOREM Reward_OfThisAnswer == Spec => []RewardOfThisAnswer
<1>1. IInv => RewardOfThisAnswer
  <2> SUFFICES ASSUME IInv, NEW t \in Tasks, NEW i \in 1..Len(verFile[t]),
                      verFile[t][i].reward = 1, verFile[t][i].judged # Legacy
               PROVE  predFile[t] # <<>> /\ <<t, predFile[t][Len(predFile[t])]>> \in resolved
    BY DEF RewardOfThisAnswer
  <2>1. verFile[t] \in Seq(Row) /\ Len(verFile[t]) <= 1
    BY DEF IInv, TypeOK, OneRowPerTask
  <2>2. i = 1 /\ verFile[t] # <<>>
    BY <2>1
  <2>3. PICK a : a = verFile[t][1].judged
    OBVIOUS
  <2>4. predFile[t] = <<a>> /\ <<t, a>> \in resolved
    BY <2>2, <2>3 DEF IInv, VerdictOnFile
  <2>5. predFile[t] # <<>> /\ predFile[t][Len(predFile[t])] = a
    BY <2>4
  <2>. QED
    BY <2>4, <2>5
<1>. QED
  BY <1>1, Invariance, PTL

-------------------------------------------------------------------------------
(* The refinement of EvalLedger. *)

LEMMA LoadedRow ==
  ASSUME NEW file, NEW t \in Tasks
  PROVE  /\ file[t] = <<>> => Loaded(file)[t] = None
         /\ \A a : file[t] = <<a>> => Loaded(file)[t] = a
<1>1. \A a : <<a>> # <<>> /\ <<a>>[Len(<<a>>)] = a
  OBVIOUS
<1>. QED
  BY <1>1 DEF Loaded

LEMMA JudgedRow ==
  ASSUME NEW t \in Tasks
  PROVE  /\ verFile[t] = <<>> => JudgedAnswers[t] = None
         /\ \A row : verFile[t] = <<row>> => JudgedAnswers[t] = row.judged
<1>1. \A row : <<row>> # <<>>
  OBVIOUS
<1>. QED
  BY <1>1, LoadedRow DEF JudgedAnswers

LEMMA LedgerInit == Init => Ledger!Init
<1> SUFFICES ASSUME Init PROVE Ledger!Init
  OBVIOUS
<1>1. ASSUME NEW t \in Tasks
      PROVE  /\ Loaded(predFile)[t] \in Answers \cup {None}
             /\ JudgedAnswers[t] \in {None, Legacy}
  <2>1. predFile[t] = <<>> \/ \E a \in Answers : predFile[t] = <<a>>
    BY DEF Init
  <2>2. verFile[t] = <<>> \/ verFile[t] = <<[judged |-> Legacy, reward |-> 1]>>
    BY DEF Init
  <2>3. Loaded(predFile)[t] \in Answers \cup {None}
    BY <2>1, LoadedRow
  <2>4. JudgedAnswers[t] \in {None, Legacy}
    BY <2>2, JudgedRow
  <2>. QED
    BY <2>3, <2>4
<1>2. /\ Loaded(predFile) \in [Tasks -> Answers \cup {None}]
      /\ JudgedAnswers \in [Tasks -> Answers \cup {None, Legacy}]
  <2>1. Loaded(predFile) = [t \in Tasks |-> Loaded(predFile)[t]]
    BY DEF Loaded
  <2>2. JudgedAnswers = [t \in Tasks |-> JudgedAnswers[t]]
    BY DEF JudgedAnswers
  <2>. QED
    BY <1>1, <2>1, <2>2
<1>. QED
  BY <1>1, <1>2 DEF Ledger!Init

(* Collecting a future is the ledger's Predict. *)
LEMMA PredictStep ==
  ASSUME IInv, NEW t \in Tasks, NEW a \in Answers,
         fut[t] = "done", predFile' = [predFile EXCEPT ![t] = Append(@, a)],
         UNCHANGED verFile
  PROVE  Ledger!Predict(t, a)
<1>1. predFile[t] = <<>> /\ predFile' = [predFile EXCEPT ![t] = <<a>>]
  BY FirstRow DEF IInv, Unpredicted, TypeOK
<1>2. DOMAIN predFile = Tasks
  BY DEF IInv, TypeOK
<1>3. Loaded(predFile') = [Loaded(predFile) EXCEPT ![t] = a]
  <2>1. <<a>> # <<>> /\ <<a>>[Len(<<a>>)] = a
    OBVIOUS
  <2>. QED
    BY <1>1, <1>2, <2>1 DEF Loaded
<1>4. Loaded(predFile)[t] = None
  BY <1>1, LoadedRow
<1>5. JudgedAnswers' = JudgedAnswers
  BY DEF JudgedAnswers, Loaded
<1>. QED
  BY <1>3, <1>4, <1>5 DEF Ledger!Predict, Loaded

(* Saving a verdict is the ledger's Judge, long after the answer was read. *)
LEMMA JudgeStep ==
  ASSUME IInv, NEW t \in Tasks, RowSaved(t)
  PROVE  Ledger!Judge(t)
<1>1. PICK row : row = [judged |-> batch[t],
                        reward |-> IF t \in resolved_ids THEN 1 ELSE 0]
  OBVIOUS
<1>2. /\ batch[t] \in Answers /\ predFile[t] = <<batch[t]>> /\ verFile[t] = <<>>
      /\ DOMAIN verFile = Tasks /\ verFile[t] \in Seq(Row)
  BY DEF IInv, BatchOnFile, TypeOK, RowSaved
<1>3. row \in Row /\ row.judged = batch[t]
  BY <1>1, <1>2 DEF Row
<1>4. verFile' = [verFile EXCEPT ![t] = <<row>>]
  <2>1. Append(verFile[t], row) = <<row>>
    BY <1>2, <1>3, FirstRow
  <2>. QED
    BY <1>1, <2>1 DEF RowSaved
<1>5. JudgedAnswers' = [JudgedAnswers EXCEPT ![t] = batch[t]]
  <2>1. <<row>> # <<>> /\ <<row>>[Len(<<row>>)] = row
    OBVIOUS
  <2>. QED
    BY <1>2, <1>3, <1>4, <2>1 DEF JudgedAnswers, Loaded
<1>6. Loaded(predFile)[t] = batch[t] /\ JudgedAnswers[t] = None
  BY <1>2, LoadedRow, JudgedRow
<1>7. Loaded(predFile') = Loaded(predFile)
  BY DEF RowSaved
<1>8. batch[t] # None
  BY <1>2, SequentialAssumption
<1>. QED
  BY <1>5, <1>6, <1>7, <1>8 DEF Ledger!Judge, Loaded

LEMMA LedgerStep ==
  IInv /\ [Next]_vars => [Ledger!Next]_<<Loaded(predFile), JudgedAnswers>>
<1> SUFFICES ASSUME IInv, [Next]_vars
             PROVE  Ledger!Next \/ UNCHANGED <<Loaded(predFile), JudgedAnswers>>
  OBVIOUS
<1>1. CASE UNCHANGED files
  BY <1>1 DEF files, Loaded, JudgedAnswers
<1>2. ASSUME NEW t \in Tasks, Collect(t) \/ CollectFails(t), ~UNCHANGED files
      PROVE  Ledger!Next
  <2>1. PICK a \in Answers : predFile' = [predFile EXCEPT ![t] = Append(@, a)]
    BY <1>2 DEF Collect, CollectFails, files
  <2>2. fut[t] = "done" /\ UNCHANGED verFile
    BY <1>2 DEF Collect, CollectFails, files
  <2>. QED
    BY <2>1, <2>2, PredictStep DEF Ledger!Next
<1>3. ASSUME NEW t \in Tasks, RowSaved(t) PROVE Ledger!Next
  BY <1>3, JudgeStep DEF Ledger!Next
<1>4. UNCHANGED files \/ \E t \in Tasks : Collect(t) \/ CollectFails(t) \/ RowSaved(t)
  <2>1. CASE Start \/ Crash
    BY <2>1 DEF Start, Crash, Stop
  <2>2. CASE Generate
    BY <2>2 DEF Generate, FutureDone, GenerateFails, Generated, Stop
  <2>3. CASE Verify
    BY <2>3 DEF Verify, NothingToVerify, StartHarness, HarnessEnds, HarnessFails,
                RecordFails, Report, Stop, files
  <2>4. CASE External
    BY <2>4 DEF External, HarnessReports, OrphanEnds
  <2>5. CASE UNCHANGED vars
    BY <2>5 DEF vars
  <2>. QED
    BY <2>1, <2>2, <2>3, <2>4, <2>5 DEF Next
<1>. QED
  BY <1>1, <1>2, <1>3, <1>4

(* However long a verdict is on its way and whoever is killed, the batch   *)
(* mode's directory evolves as the ledger says.                            *)
THEOREM ImplementsLedger == Spec => LedgerSpec
BY Invariance, LedgerInit, LedgerStep, PTL DEF Spec, LedgerSpec, Ledger!Spec
===============================================================================
