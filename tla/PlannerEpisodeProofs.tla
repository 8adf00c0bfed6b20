------------------------- MODULE PlannerEpisodeProofs -------------------------
(***************************************************************************)
(* The safety of an interactive attempt for every number of turns, steps   *)
(* and calls in a turn, and the refinement of TaskSession.                 *)
(***************************************************************************)
EXTENDS PlannerEpisode, SequenceTheorems, TLAPS

USE PlannerAssumption

-------------------------------------------------------------------------------
LEMMA ShorterTail ==
  ASSUME NEW S, NEW s \in Seq(S), s # <<>>
  PROVE  /\ Tail(s) \in Seq(S) /\ Len(Tail(s)) = Len(s) - 1
         /\ Len(s) \in Nat /\ Len(s) > 0
OBVIOUS

LEMMA CallSequence ==
  ASSUME NEW S, NEW n \in Nat, NEW cs \in [1..n -> S]
  PROVE  cs \in Seq(S) /\ Len(cs) = n
OBVIOUS

LEMMA NoCalls == ASSUME NEW S PROVE <<>> \in Seq(S) /\ Len(<<>>) = 0
OBVIOUS

(* What depends on the mode alone stays. *)
LEMMA SameMode ==
  ASSUME [Next]_vars
  PROVE  mode' = mode /\ Kinds' = Kinds /\ Turns' = Turns /\ AfterLoop' = AfterLoop
<1>1. mode' = mode
  <2>1. CASE ToolCall
    BY <2>1 DEF ToolCall, NextTurn, Submit, SkipCall, MalformedCall, ExecuteCommand, Delegate
  <2>2. CASE SubAgent
    BY <2>2 DEF SubAgent, WorkerAnswers, WorkerFails, WorkerRaises, Finished
  <2>3. CASE StartContainer \/ BudgetUsed \/ PlannerFails \/ PlannerAnswers
    BY <2>3 DEF StartContainer, BudgetUsed, PlannerFails, PlannerAnswers
  <2>4. CASE RunTests \/ Cleanup \/ ScoreReport \/ SaveTrajectory \/ ReadEntry
    BY <2>4 DEF RunTests, Cleanup, ScoreReport, SaveTrajectory, ReadEntry
  <2>5. CASE UNCHANGED vars
    BY <2>5 DEF vars
  <2>. QED
    BY <2>1, <2>2, <2>3, <2>4, <2>5 DEF Next
<1>. QED
  BY <1>1 DEF Kinds, Turns, AfterLoop

-------------------------------------------------------------------------------
(* The inductive invariant. *)

LEMMA InitInv == Init => IInv
<1> SUFFICES ASSUME Init PROVE IInv
  OBVIOUS
<1>1. calls \in Seq(Kinds) /\ Len(calls) <= MaxCalls
  BY NoCalls DEF Init
<1>2. 0 \in 0..Turns
  BY DEF Turns
<1>3. TypeOK
  <2>1. /\ report \in BOOLEAN /\ score \in {"none", "old", "new"}
        /\ trajectory \in {"none", "old", "torn", "new"}
    BY DEF Init
  <2>2. /\ mode \in Modes /\ pc = "start" /\ attempt = 0 /\ open = 0
        /\ step = 0 /\ tries = 0 /\ tokens = 0 /\ usages = 0 /\ routed = 0
        /\ container = "none" /\ reward = Unjudged /\ cost = 0
        /\ last_error = FALSE /\ submit_called = FALSE /\ spent = 0 /\ dropped = 0
    BY DEF Init
  <2>3. 0 \in Nat /\ 0 \in 0..MaxCalls /\ 0 \in 0..MaxSteps
    OBVIOUS
  <2>4. attempt \in 0..Turns
    BY <1>2, <2>2
  <2>5. /\ mode \in Modes
        /\ pc \in {"start", "ask", "calls", "subagent", "finished", "verify", "cleanup",
                   "score", "save", "entry", "done", "raised"}
        /\ open \in 0..MaxCalls /\ step \in 0..MaxSteps /\ tries \in {0, 1}
        /\ tokens \in Nat /\ usages \in Nat /\ routed \in Nat /\ cost \in Nat
        /\ spent \in Nat /\ dropped \in Nat
        /\ container \in {"none", "up", "gone", "lost"} /\ reward \in {Unjudged, 0, 1}
        /\ last_error \in BOOLEAN /\ submit_called \in BOOLEAN
    BY <2>2, <2>3
  <2>. QED
    BY <1>1, <2>1, <2>4, <2>5 DEF TypeOK
<1>4. OpenCalls /\ Billed /\ Lifecycle
  BY DEF Init, OpenCalls, Billed, Lifecycle
<1>. QED
  BY <1>3, <1>4 DEF IInv

(* The head of the calls was answered. *)
LEMMA AnsweredOne ==
  ASSUME IInv, pc \in {"calls", "subagent", "finished"}, calls # <<>>,
         Kinds' = Kinds, Answered
  PROVE  /\ calls' \in Seq(Kinds') /\ Len(calls') <= MaxCalls
         /\ open' \in 0..MaxCalls /\ open' = Len(calls')
<1>1. calls \in Seq(Kinds) /\ Len(calls) <= MaxCalls /\ open = Len(calls)
  BY DEF IInv, TypeOK, OpenCalls
<1>2. /\ Tail(calls) \in Seq(Kinds) /\ Len(Tail(calls)) = Len(calls) - 1
      /\ Len(calls) \in Nat /\ Len(calls) > 0
  BY <1>1, ShorterTail
<1>. QED
  BY <1>1, <1>2 DEF Answered

(* A step of the planner's own turn. *)
LEMMA PlannerInv ==
  ASSUME IInv, [Next]_vars, BudgetUsed \/ PlannerFails \/ PlannerAnswers
  PROVE  IInv'
<1>1. mode' = mode /\ Kinds' = Kinds /\ Turns' = Turns
  BY SameMode
<1>2. /\ calls' \in Seq(Kinds') /\ Len(calls') <= MaxCalls /\ open' \in 0..MaxCalls
      /\ pc' = "ask" => open' = 0
      /\ pc' = "calls" => open' = Len(calls')
      /\ pc' \notin {"start", "ask", "subagent", "finished"}
  <2>1. CASE UNCHANGED <<calls, open>> /\ pc' = AfterLoop
    <3>1. calls' = calls /\ open' = open /\ pc' \in {"verify", "cleanup"}
      BY <2>1 DEF AfterLoop
    <3>. QED
      BY <1>1, <3>1 DEF IInv, TypeOK
  <2>2. ASSUME NEW n \in 1..MaxCalls, NEW cs \in [1..n -> Kinds], PlannerAnswers,
               calls' = cs, open' = open + n, pc' = "calls"
        PROVE  /\ calls' \in Seq(Kinds') /\ Len(calls') <= MaxCalls
               /\ open' \in 0..MaxCalls /\ open' = Len(calls') /\ pc' = "calls"
    <3>1. n \in Nat /\ cs \in Seq(Kinds) /\ Len(cs) = n
      BY CallSequence
    <3>2. open = 0
      BY <2>2 DEF PlannerAnswers, IInv, OpenCalls
    <3>. QED
      BY <1>1, <2>2, <3>1, <3>2
  <2>3. CASE BudgetUsed \/ PlannerFails
    BY <2>1, <2>3 DEF BudgetUsed, PlannerFails, loop
  <2>4. CASE PlannerAnswers
    <3>1. \/ UNCHANGED <<calls, open>> /\ pc' = AfterLoop
          \/ \E n \in 1..MaxCalls : \E cs \in [1..n -> Kinds] :
               calls' = cs /\ open' = open + n /\ pc' = "calls"
      BY <2>4 DEF PlannerAnswers
    <3>. QED
      BY <2>1, <2>2, <2>4, <3>1
  <2>. QED
    BY <2>3, <2>4
<1>3. attempt' \in 0..Turns' /\ Turns \in Nat
  BY <1>1 DEF IInv, TypeOK, BudgetUsed, PlannerFails, PlannerAnswers, loop, Turns
<1>4. TypeOK'
  <2>1. pc' \in {"calls", "verify", "cleanup"}
    BY DEF BudgetUsed, PlannerFails, PlannerAnswers, AfterLoop
  <2>2. spent' \in Nat /\ dropped' \in Nat /\ usages' \in Nat
    <3>1. spent \in Nat /\ dropped \in Nat /\ usages \in Nat
      BY DEF IInv, TypeOK
    <3>2. CASE BudgetUsed
      BY <3>1, <3>2 DEF BudgetUsed, bill
    <3>3. CASE PlannerFails
      BY <3>1, <3>3 DEF PlannerFails
    <3>4. CASE PlannerAnswers
      BY <3>1, <3>4 DEF PlannerAnswers
    <3>. QED
      BY <3>2, <3>3, <3>4
  <2>3. last_error' \in BOOLEAN
    BY DEF IInv, TypeOK, BudgetUsed, PlannerFails, PlannerAnswers, result
  <2>. QED
    <3>1. UNCHANGED <<mode, worker, routed, container, reward, submit_called, disk, cost>>
      BY DEF BudgetUsed, PlannerFails, PlannerAnswers, result
    <3>. QED
      BY <1>1, <1>2, <1>3, <2>1, <2>2, <2>3, <3>1 DEF IInv, TypeOK, worker, disk
<1>5. OpenCalls'
  BY <1>2 DEF OpenCalls
<1>6. Billed'
  <2>1. pc = "ask" /\ pc' \notin {"subagent", "finished", "done"} /\ tokens' = tokens
    BY DEF BudgetUsed, PlannerFails, PlannerAnswers, AfterLoop, worker
  <2>2. \/ spent' = spent /\ usages' = usages /\ dropped' = dropped
        \/ spent' = spent + 1 /\ usages' = usages + 1 /\ dropped' = dropped
        \/ \E billed \in {0, 1} :
             spent' = spent + billed /\ usages' = usages /\ dropped' = dropped + billed
    BY DEF BudgetUsed, PlannerFails, PlannerAnswers, bill
  <2>3. /\ spent \in Nat /\ usages \in Nat /\ dropped \in Nat /\ tokens \in Nat
        /\ spent = usages + dropped + tokens /\ tokens = 0
    BY <2>1 DEF IInv, TypeOK, Billed
  <2>. QED
    BY <2>1, <2>2, <2>3 DEF Billed
<1>7. Lifecycle'
  BY <1>1 DEF IInv, Lifecycle, BudgetUsed, PlannerFails, PlannerAnswers, result, AfterLoop
<1>. QED
  BY <1>4, <1>5, <1>6, <1>7 DEF IInv

(* A step on the calls of the turn. *)
LEMMA ToolCallInv ==
  ASSUME IInv, [Next]_vars, ToolCall
  PROVE  IInv'
<1>1. mode' = mode /\ Kinds' = Kinds /\ Turns' = Turns
  BY SameMode
<1>2. /\ calls' \in Seq(Kinds') /\ Len(calls') <= MaxCalls /\ open' \in 0..MaxCalls
      /\ pc' = "ask" => open' = 0
      /\ pc' \in {"calls", "subagent"} => open' = Len(calls')
      /\ pc' = "subagent" => calls' # <<>>
      /\ pc' \notin {"start", "finished"}
  <2>1. CASE NextTurn
    <3>1. open = Len(<<>>)
      BY <2>1 DEF NextTurn, IInv, OpenCalls
    <3>. QED
      BY <1>1, <2>1, <3>1, NoCalls DEF NextTurn, IInv, TypeOK, loop
  <2>2. CASE Submit
    <3>1. open = Len(calls) /\ Len(calls) \in Nat /\ Len(calls) > 0 /\ Len(calls) <= MaxCalls
      BY <2>2, ShorterTail DEF Submit, IInv, TypeOK, OpenCalls
    <3>. QED
      BY <1>1, <2>2, <3>1, NoCalls DEF Submit, AfterLoop
  <2>3. CASE SkipCall \/ ExecuteCommand
    BY <1>1, <2>3, AnsweredOne DEF SkipCall, ExecuteCommand
  <2>4. CASE MalformedCall
    BY <1>1, <2>4 DEF MalformedCall, IInv, TypeOK, loop
  <2>5. CASE Delegate
    BY <1>1, <2>5 DEF Delegate, IInv, TypeOK, OpenCalls, loop
  <2>. QED
    BY <2>1, <2>2, <2>3, <2>4, <2>5 DEF ToolCall
<1>3. TypeOK'
  <2>1. pc' \in {"ask", "calls", "subagent", "verify", "cleanup"}
    BY DEF ToolCall, NextTurn, Submit, SkipCall, MalformedCall, ExecuteCommand, Delegate,
           AfterLoop
  <2>2. step' \in 0..MaxSteps /\ tries' \in {0, 1} /\ tokens' \in Nat
    BY DEF IInv, TypeOK, ToolCall, NextTurn, Submit, SkipCall, MalformedCall,
           ExecuteCommand, Delegate, worker
  <2>3. attempt' = attempt /\ last_error' \in BOOLEAN /\ submit_called' \in BOOLEAN
    BY DEF IInv, TypeOK, ToolCall, NextTurn, Submit, SkipCall, MalformedCall,
           ExecuteCommand, Delegate, loop, result
  <2>4. UNCHANGED <<usages, routed, container, reward, disk, cost, bill>>
    BY DEF ToolCall, NextTurn, Submit, SkipCall, MalformedCall, ExecuteCommand, Delegate,
           result
  <2>. QED
    BY <1>1, <1>2, <2>1, <2>2, <2>3, <2>4 DEF IInv, TypeOK, disk, bill
<1>4. OpenCalls'
  BY <1>2 DEF OpenCalls
<1>5. Billed'
  BY DEF IInv, TypeOK, Billed, ToolCall, NextTurn, Submit, SkipCall, MalformedCall,
         ExecuteCommand, Delegate, worker, bill, disk, AfterLoop
<1>6. Lifecycle'
  BY <1>1 DEF IInv, Lifecycle, ToolCall, NextTurn, Submit, SkipCall, MalformedCall,
              ExecuteCommand, Delegate, result, AfterLoop
<1>. QED
  BY <1>3, <1>4, <1>5, <1>6 DEF IInv

(* A step of the worker. *)
LEMMA SubAgentInv ==
  ASSUME IInv, [Next]_vars, SubAgent
  PROVE  IInv'
<1>1. mode' = mode /\ Kinds' = Kinds /\ Turns' = Turns
  BY SameMode
<1>2. /\ pc \in {"subagent", "finished"} /\ calls # <<>>
      /\ calls \in Seq(Kinds) /\ Len(calls) <= MaxCalls
      /\ open = Len(calls) /\ open \in 0..MaxCalls
      /\ container = "up" /\ reward = Unjudged
  BY DEF SubAgent, WorkerAnswers, WorkerFails, WorkerRaises, Finished,
         IInv, TypeOK, OpenCalls, Lifecycle
<1>3. \/ UNCHANGED <<calls, open>> /\ pc' \in {"subagent", "finished", "cleanup"}
      \/ Answered /\ pc' = "calls"
  BY DEF SubAgent, WorkerAnswers, WorkerFails, WorkerRaises, Finished,
         DelegationReturns, loop
<1>4. /\ calls' \in Seq(Kinds') /\ Len(calls') <= MaxCalls /\ open' \in 0..MaxCalls
      /\ pc' # "cleanup" => open' = Len(calls')
      /\ pc' \in {"subagent", "finished"} => calls' # <<>>
      /\ pc' \in {"subagent", "finished", "cleanup", "calls"}
  BY <1>1, <1>2, <1>3, AnsweredOne
<1>5. /\ container' = container /\ reward' = reward /\ submit_called' = submit_called
      /\ attempt' = attempt /\ cost' = cost /\ score' = score /\ trajectory' = trajectory
      /\ last_error' \in {last_error, TRUE} /\ report' \in {report, TRUE}
      /\ (pc' = "cleanup" => mode = "rubric")
  <2>1. CASE WorkerAnswers
    BY <2>1 DEF WorkerAnswers, loop, result
  <2>2. CASE WorkerFails
    BY <2>2 DEF WorkerFails, loop, result, disk
  <2>3. CASE WorkerRaises
    BY <2>3 DEF WorkerRaises, DelegationReturns, disk
  <2>4. CASE Finished
    BY <2>4 DEF Finished, DelegationReturns, result, disk
  <2>. QED
    BY <2>1, <2>2, <2>3, <2>4 DEF SubAgent
<1>6. /\ step' \in 0..MaxSteps /\ tries' \in {0, 1}
      /\ tokens' \in Nat /\ usages' \in Nat /\ routed' \in Nat
      /\ spent' \in Nat /\ dropped' \in Nat
      /\ spent' = usages' + dropped' + tokens'
      /\ pc' = "subagent" => tokens' = step' /\ step' < MaxSteps
      /\ pc' \notin {"subagent", "finished"} => tokens' = 0
  <2>0. /\ step \in 0..MaxSteps /\ tries \in {0, 1}
        /\ tokens \in Nat /\ usages \in Nat /\ routed \in Nat
        /\ spent \in Nat /\ dropped \in Nat
        /\ spent = usages + dropped + tokens
        /\ pc = "subagent" => tokens = step /\ step < MaxSteps
    BY DEF IInv, TypeOK, Billed
  <2>1. CASE WorkerAnswers
    <3>1. /\ pc = "subagent" /\ spent' = spent + 1 /\ tokens' = tokens + 1 /\ tries' = 0
          /\ step' = step + 1 /\ usages' = usages /\ routed' = routed /\ dropped' = dropped
      BY <2>1 DEF WorkerAnswers
    <3>2. pc' \in {"subagent", "finished"} /\ (pc' = "subagent" => step + 1 # MaxSteps)
      BY <2>1 DEF WorkerAnswers
    <3>. QED
      BY <2>0, <3>1, <3>2
  <2>2. CASE WorkerFails
    <3>1. PICK billed \in {0, 1} : spent' = spent + billed /\ dropped' = dropped + billed
      BY <2>2 DEF WorkerFails
    <3>. QED
      BY <2>0, <2>2, <3>1 DEF WorkerFails
  <2>3. CASE WorkerRaises
    BY <2>0, <2>3 DEF WorkerRaises, DelegationReturns
  <2>4. CASE Finished
    <3>1. PICK billed \in {0, 1}, used \in {0, 1} :
            /\ used <= billed
            /\ DelegationReturns(tokens + used)
            /\ spent' = spent + billed
            /\ dropped' = dropped + billed - used
      BY <2>4 DEF Finished
    <3>. QED
      BY <2>0, <2>4, <3>1 DEF Finished, DelegationReturns
  <2>. QED
    BY <2>1, <2>2, <2>3, <2>4 DEF SubAgent
<1>7. TypeOK'
  <2>1. last_error' \in BOOLEAN /\ report' \in BOOLEAN
    BY <1>5 DEF IInv, TypeOK
  <2>2. /\ mode' \in Modes /\ attempt' \in 0..Turns' /\ reward' \in {Unjudged, 0, 1}
        /\ container' \in {"none", "up", "gone", "lost"} /\ submit_called' \in BOOLEAN
        /\ score' \in {"none", "old", "new"}
        /\ trajectory' \in {"none", "old", "torn", "new"} /\ cost' \in Nat
    BY <1>1, <1>5 DEF IInv, TypeOK
  <2>. QED
    BY <1>4, <1>6, <2>1, <2>2 DEF TypeOK
<1>8. OpenCalls'
  BY <1>4 DEF OpenCalls
<1>9. Billed'
  BY <1>4, <1>6 DEF Billed
<1>10. Lifecycle'
  BY <1>1, <1>2, <1>4, <1>5 DEF Lifecycle
<1>. QED
  BY <1>7, <1>8, <1>9, <1>10 DEF IInv

(* A step before or after the loop. *)
LEMMA EnvironmentInv ==
  ASSUME IInv, [Next]_vars,
         StartContainer \/ RunTests \/ Cleanup \/ ScoreReport \/ SaveTrajectory \/ ReadEntry
  PROVE  IInv'
<1>1. mode' = mode /\ Kinds' = Kinds /\ Turns' = Turns
  BY SameMode
<1>2. UNCHANGED <<loop, worker, usages, routed, submit_called, report, bill>>
  BY DEF StartContainer, RunTests, Cleanup, ScoreReport, SaveTrajectory, ReadEntry,
         result, disk
<1>3. /\ pc \in {"start", "verify", "cleanup", "score", "save", "entry"}
      /\ pc' \in {"ask", "cleanup", "score", "save", "entry", "done", "raised"}
      /\ pc' = "ask" => pc = "start"
  BY DEF StartContainer, RunTests, Cleanup, ScoreReport, SaveTrajectory, ReadEntry
<1>4. TypeOK'
  <2>1. /\ container' \in {"none", "up", "gone", "lost"} /\ reward' \in {Unjudged, 0, 1}
        /\ last_error' \in BOOLEAN /\ score' \in {"none", "old", "new"}
        /\ trajectory' \in {"none", "old", "torn", "new"} /\ cost' \in Nat
    <3>1. CASE StartContainer
      BY <3>1 DEF IInv, TypeOK, StartContainer, disk
    <3>2. CASE RunTests
      BY <3>2 DEF IInv, TypeOK, RunTests
    <3>3. CASE Cleanup
      BY <3>3 DEF IInv, TypeOK, Cleanup, result, disk
    <3>4. CASE ScoreReport
      BY <3>4 DEF IInv, TypeOK, ScoreReport
    <3>5. CASE SaveTrajectory
      BY <3>5 DEF IInv, TypeOK, SaveTrajectory, result
    <3>6. CASE ReadEntry
      BY <3>6 DEF IInv, TypeOK, ReadEntry, result, disk
    <3>. QED
      BY <3>1, <3>2, <3>3, <3>4, <3>5, <3>6
  <2>. QED
    BY <1>1, <1>2, <1>3, <2>1 DEF IInv, TypeOK, loop, worker, bill
<1>5. OpenCalls'
  BY <1>2, <1>3 DEF IInv, OpenCalls, loop
<1>6. Billed'
  <2>1. spent' = usages' + dropped' + tokens' /\ tokens' = 0
    BY <1>2, <1>3 DEF IInv, Billed, worker, bill
  <2>2. (pc' = "done" /\ trajectory' = "new") => cost' = usages'
    BY <1>2, <1>3 DEF StartContainer, RunTests, Cleanup, ScoreReport, SaveTrajectory,
                      ReadEntry, disk
  <2>. QED
    BY <1>3, <2>1, <2>2 DEF Billed
<1>7. Lifecycle'
  BY <1>1 DEF IInv, TypeOK, Lifecycle, StartContainer, RunTests, Cleanup, ScoreReport,
              SaveTrajectory, ReadEntry, result
<1>. QED
  BY <1>4, <1>5, <1>6, <1>7 DEF IInv

LEMMA NextInv == IInv /\ [Next]_vars => IInv'
<1> SUFFICES ASSUME IInv, [Next]_vars PROVE IInv'
  OBVIOUS
<1>1. CASE UNCHANGED vars
  BY <1>1 DEF IInv, TypeOK, OpenCalls, Billed, Lifecycle, Kinds, Turns,
              vars, loop, worker, result, disk, bill
<1>. QED
  BY <1>1, PlannerInv, ToolCallInv, SubAgentInv, EnvironmentInv DEF Next

-------------------------------------------------------------------------------
(* Every variable keeps its shape, calls and bills add up, and the         *)
(* environment and the verdict follow the place in the attempt.            *)
THEOREM Invariance == Spec => []IInv
<1>. QED
  BY InitInv, NextInv, PTL DEF Spec

(* TypeOK: every variable keeps its shape, the counters of turns and of a  *)
(* worker's steps stay within their budgets.                               *)
THEOREM TypeCorrect == Spec => []TypeOK
<1>1. IInv => TypeOK
  BY DEF IInv
<1>. QED
  BY <1>1, Invariance, PTL

(* However many calls a turn has and whatever becomes of them, the planner *)
(* is asked again only when each has exactly one answer.                   *)
THEOREM Every_CallAnswered == Spec => []EveryCallAnswered
<1>1. IInv => EveryCallAnswered
  BY DEF IInv, OpenCalls, EveryCallAnswered
<1>. QED
  BY <1>1, Invariance, PTL

(* The entry of a saved attempt counts every billed call once, but those   *)
(* whose answers the code drops.                                           *)
THEOREM Cost_Accounted == Spec => []CostAccounted
<1>1. IInv => CostAccounted
  BY DEF IInv, TypeOK, Billed, CostAccounted
<1>. QED
  BY <1>1, Invariance, PTL

-------------------------------------------------------------------------------
(* The refinement of TaskSession. *)

LEMMA SessionInit == Init => Session!Init
BY DEF Init, Session!Init

LEMMA SessionStep ==
  IInv /\ [Next]_vars =>
    [Session!Next]_<<IF mode = "rubric" THEN "none" ELSE container, reward,
                     pc \in {"entry", "done", "raised"}>>
<1> SUFFICES ASSUME IInv, [Next]_vars
             PROVE  \/ Session!Next
                    \/ UNCHANGED <<IF mode = "rubric" THEN "none" ELSE container, reward,
                                   pc \in {"entry", "done", "raised"}>>
  OBVIOUS
<1>1. mode' = mode
  BY SameMode
<1>2. CASE StartContainer
  BY <1>1, <1>2 DEF StartContainer, IInv, Lifecycle, Session!Next, Session!Start,
                    Session!StartFails, Session!Deliver
<1>3. CASE RunTests
  BY <1>1, <1>3 DEF RunTests, IInv, Lifecycle, Session!Next, Session!Judge
<1>4. CASE Cleanup
  BY <1>1, <1>4 DEF Cleanup, result, Session!Next, Session!Remove
<1>5. CASE ScoreReport
  BY <1>1, <1>5 DEF ScoreReport, IInv, Lifecycle, Session!Next, Session!Judge,
                    Session!Deliver
<1>6. CASE SaveTrajectory
  BY <1>1, <1>6 DEF SaveTrajectory, IInv, Lifecycle, result, Session!Next,
                    Session!Deliver
<1>7. CASE ReadEntry
  BY <1>1, <1>7 DEF ReadEntry, result
<1>8. CASE BudgetUsed \/ PlannerFails \/ PlannerAnswers
  BY <1>1, <1>8 DEF BudgetUsed, PlannerFails, PlannerAnswers, AfterLoop, result
<1>9. CASE ToolCall
  <2>1. UNCHANGED <<container, reward>>
    BY <1>9 DEF ToolCall, NextTurn, Submit, SkipCall, MalformedCall, ExecuteCommand,
                Delegate, result
  <2>2. pc = "calls" /\ pc' \in {"ask", "calls", "subagent", "verify", "cleanup"}
    BY <1>9 DEF ToolCall, NextTurn, Submit, SkipCall, MalformedCall, ExecuteCommand,
                Delegate, AfterLoop
  <2>. QED
    BY <1>1, <2>1, <2>2
<1>10. CASE SubAgent
  <2>1. UNCHANGED <<container, reward>>
    BY <1>10 DEF SubAgent, WorkerAnswers, WorkerFails, WorkerRaises, Finished, result
  <2>2. /\ pc \in {"subagent", "finished"}
        /\ pc' \in {"calls", "subagent", "finished", "cleanup"}
    BY <1>10 DEF SubAgent, WorkerAnswers, WorkerFails, WorkerRaises, Finished,
                 DelegationReturns
  <2>. QED
    BY <1>1, <2>1, <2>2
<1>11. CASE UNCHANGED vars
  BY <1>11 DEF vars, result
<1>. QED
  BY <1>2, <1>3, <1>4, <1>5, <1>6, <1>7, <1>8, <1>9, <1>10, <1>11 DEF Next

(* In all three benchmarks an attempt starts, judges and removes its       *)
(* environment once and in this order, whatever raises; only one whose     *)
(* start went unanswered is left without a removal, and it is not judged.  *)
THEOREM ImplementsSession == Spec => SessionSpec
BY Invariance, SessionInit, SessionStep, PTL DEF Spec, SessionSpec, Session!Spec
===============================================================================
