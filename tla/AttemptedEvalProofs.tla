-------------------------- MODULE AttemptedEvalProofs --------------------------
(***************************************************************************)
(* The two rows of a pass@k task, for every set of tasks, every k and any  *)
(* number of runs killed or failed at any place.                           *)
(***************************************************************************)
EXTENDS AttemptedEval, SequenceTheorems, FiniteSetTheorems, TLAPS

USE AttemptedAssumption

-------------------------------------------------------------------------------
(* Sequences and products. *)

LEMMA EmptyRow == ASSUME NEW S PROVE <<>> \in Seq(S) /\ Len(<<>>) = 0
OBVIOUS

LEMMA LongerRow ==
  ASSUME NEW S, NEW s \in Seq(S), NEW a \in S
  PROVE  /\ Append(s, a) \in Seq(S) /\ Append(s, a) # <<>>
         /\ Len(Append(s, a)) = Len(s) + 1 /\ Len(s) \in Nat
         /\ Last(Append(s, a)) = a
BY DEF Last

LEMMA OneRow ==
  ASSUME NEW S, NEW s \in Seq(S), NEW a \in S, s = <<>>
  PROVE  Append(s, a) = <<a>> /\ Append(s, a)[1] = a /\ Len(Append(s, a)) = 1
OBVIOUS

LEMMA RowLength ==
  ASSUME NEW S, NEW s \in Seq(S)
  PROVE  Len(s) \in Nat /\ (Len(s) = 0 <=> s = <<>>)
BY EmptySeq

LEMMA OneMoreRun ==
  ASSUME NEW n \in Nat
  PROVE  PassK * n \in Nat /\ PassK * (n + 1) = PassK * n + PassK
OBVIOUS

LEMMA OneOrNone == \A n \in Nat : n # 0 /\ n <= 1 => n = 1
OBVIOUS

(* The sequences of a task and their lengths. *)
LEMMA TaskTypes ==
  ASSUME TypeOK, NEW t \in Tasks
  PROVE  /\ predFile[t] \in Seq(PredictionRows)
         /\ verFile[t] \in Seq(Seq({0, 1})) /\ Len(verFile[t]) \in Nat
         /\ Len(verFile[t]) = 0 <=> verFile[t] = <<>>
         /\ rewards[t] \in Seq({0, 1}) /\ Len(rewards[t]) \in Nat
         /\ Ran(t) \in Nat /\ Len(rewards[t]) <= Ran(t)
         /\ cost[t] \in Nat /\ paid[t] \in Nat /\ runs \in Nat
<1>1. /\ predFile[t] \in Seq(PredictionRows) /\ verFile[t] \in Seq(Seq({0, 1}))
      /\ rewards[t] \in Seq({0, 1})
  BY DEF TypeOK
<1>. QED
  BY <1>1, RowLength DEF TypeOK, Ran

-------------------------------------------------------------------------------
(* The inductive invariant. *)

LEMMA InitInv == Init => IInv
<1> SUFFICES ASSUME Init PROVE IInv
  OBVIOUS
<1>1. OldRow \in PredictionRows
  BY DEF OldRow, PredictionRows
<1>2. <<OldRow>> \in Seq(PredictionRows) /\ <<>> \in Seq(PredictionRows)
  BY <1>1
<1>3. /\ verFile \in [Tasks -> Seq(Seq({0, 1}))] /\ rewards \in [Tasks -> Seq({0, 1})]
      /\ \A t \in Tasks : /\ verFile[t] = <<>> /\ rewards[t] = <<>> /\ fut[t] = "none"
                          /\ cost[t] = 0 /\ paid[t] = 0
                          /\ Len(verFile[t]) = 0 /\ Len(rewards[t]) = 0 /\ Ran(t) = 0
  BY EmptyRow DEF Init, Ran
<1>4. TypeOK
  <2>1. predFile \in [Tasks -> Seq(PredictionRows)]
    BY <1>2 DEF Init
  <2>2. PassK * runs = 0 /\ runs \in 0..MaxRuns
    BY DEF Init
  <2>3. \A t \in Tasks : cost[t] <= Len(rewards[t]) /\ paid[t] <= PassK * runs
    BY <1>3, <2>2
  <2>4. /\ fut \in [Tasks -> Futures]
        /\ cost \in [Tasks -> Nat] /\ paid \in [Tasks -> Nat]
    BY DEF Init, Futures
  <2>. QED
    BY <1>3, <2>1, <2>2, <2>3, <2>4 DEF Init, TypeOK
<1>5. FutureSound /\ PaidSound
  BY <1>3 DEF Init, FutureSound, PaidSound, Live
<1>6. VerdictSound /\ CollectSound /\ VerdictHasItsPrediction
  BY <1>3 DEF Init, VerdictSound, CollectSound, VerdictHasItsPrediction, Live
<1>7. AccountSound
  BY <1>3 DEF Init, AccountSound
<1>8. LossSound
  <2>1. orphaned \cup unwritten = {} /\ main = "down" /\ runs = 0
    BY DEF Init
  <2>2. IsFiniteSet({}) /\ Cardinality({}) = 0
    BY FS_EmptySet
  <2>. QED
    BY <2>1, <2>2 DEF LossSound
<1>. QED
  BY <1>4, <1>5, <1>6, <1>7, <1>8 DEF IInv

(* A step that leaves no further task half written. *)
LEMMA NoneLost ==
  ASSUME IInv, orphaned' = orphaned, unwritten' = unwritten,
         \/ runs' = runs /\ (main' = main \/ main' # "running")
         \/ runs' = runs + 1 /\ main # "running"
  PROVE  LossSound'
<1> DEFINE half == orphaned \cup unwritten
<1>1. IsFiniteSet(half) /\ Cardinality(half) <= IF main = "running" THEN runs - 1 ELSE runs
  BY DEF IInv, LossSound
<1>2. Cardinality(half) \in Nat /\ runs \in Nat
  BY <1>1, FS_CardinalityType DEF IInv, TypeOK
<1>3. half' = half
  OBVIOUS
<1> HIDE DEF half
<1>4. Cardinality(half) <= IF main' = "running" THEN runs' - 1 ELSE runs'
  BY <1>1, <1>2
<1>. QED
  BY <1>1, <1>3, <1>4 DEF LossSound, half

(* A step that leaves one more task half written ends the collecting loop. *)
LEMMA OneLost ==
  ASSUME IInv, NEW t, main = "running", main' # "running", runs' = runs,
         orphaned' \cup unwritten' = (orphaned \cup unwritten) \cup {t}
  PROVE  LossSound'
<1> DEFINE half == orphaned \cup unwritten
<1>1. IsFiniteSet(half) /\ Cardinality(half) <= runs - 1
  BY DEF IInv, LossSound
<1>2. Cardinality(half) \in Nat /\ runs \in Nat
  BY <1>1, FS_CardinalityType DEF IInv, TypeOK
<1>3. half' = half \cup {t}
  OBVIOUS
<1> HIDE DEF half
<1>4. /\ IsFiniteSet(half \cup {t})
      /\ Cardinality(half \cup {t}) \in {Cardinality(half), Cardinality(half) + 1}
  BY <1>1, FS_AddElement
<1>5. Cardinality(half \cup {t}) <= runs
  BY <1>1, <1>2, <1>4
<1>. QED
  BY <1>3, <1>4, <1>5 DEF LossSound, half

LEMMA StartInv == ASSUME IInv, Start PROVE IInv'
<1>1. /\ ~Live /\ Live' /\ runs' = runs + 1 /\ runs \in Nat /\ main' = "running"
      /\ UNCHANGED <<mode, predFile, verFile, rewards, cost, collecting, paid,
                     interrupted, orphaned, unwritten>>
      /\ collecting = None
  BY DEF Start, Live, files, history, IInv, FutureSound, TypeOK
<1>2. \A t \in Tasks : /\ fut[t] = "none" /\ rewards[t] = <<>> /\ cost[t] = 0
                       /\ Len(rewards[t]) = 0 /\ Ran(t) = 0
                       /\ fut'[t] = IF verFile[t] = <<>> THEN "submitted" ELSE "none"
                       /\ Ran(t)' = 0
  <2> SUFFICES ASSUME NEW t \in Tasks
               PROVE  /\ fut[t] = "none" /\ rewards[t] = <<>> /\ cost[t] = 0
                      /\ Len(rewards[t]) = 0 /\ Ran(t) = 0
                      /\ fut'[t] = IF verFile[t] = <<>> THEN "submitted" ELSE "none"
                      /\ Ran(t)' = 0
    OBVIOUS
  <2>1. /\ fut[t] = "none" /\ rewards[t] = <<>> /\ cost[t] = 0
        /\ Len(rewards[t]) = 0
    BY <1>1, EmptyRow DEF IInv, FutureSound
  <2>2. fut'[t] = IF verFile[t] = <<>> THEN "submitted" ELSE "none"
    BY DEF Start, ToRun
  <2>3. Ran(t) = 0 /\ Ran(t)' = 0
    BY <1>1, <2>1, <2>2 DEF Ran
  <2>. QED
    BY <2>1, <2>2, <2>3
<1>3. TypeOK'
  <2>1. fut' \in [Tasks -> Futures]
    BY DEF Start, Futures
  <2>2. runs' \in 0..MaxRuns
    BY DEF Start, IInv, TypeOK
  <2>3. \A t \in Tasks : paid[t] <= PassK * runs'
    BY <1>1, TaskTypes, OneMoreRun DEF IInv, TypeOK
  <2>. QED
    BY <1>1, <2>1, <2>2, <2>3 DEF IInv, TypeOK
<1>4. FutureSound'
  BY <1>1, <1>2 DEF FutureSound
<1>5. PaidSound'
  <2> SUFFICES ASSUME NEW t \in Tasks PROVE paid[t] <= PassK * runs
    BY <1>1, <1>2 DEF PaidSound
  <2>. QED
    BY DEF IInv, TypeOK
<1>6. VerdictSound'
  <2> SUFFICES ASSUME NEW t \in Tasks
               PROVE  /\ Len(verFile[t]) <= 1
                      /\ fut'[t] \in {"none", "handled"} => Len(verFile[t]) = 1
                      /\ fut'[t] \in {"submitted", "done", "raised"} => verFile[t] = <<>>
    BY <1>1 DEF VerdictSound
  <2>1. Len(verFile[t]) <= 1
    BY DEF IInv, VerdictSound
  <2>2. Len(verFile[t]) \in Nat /\ (verFile[t] # <<>> => Len(verFile[t]) # 0)
    BY TaskTypes DEF IInv
  <2>3. fut'[t] = IF verFile[t] = <<>> THEN "submitted" ELSE "none"
    BY <1>2
  <2>4. CASE verFile[t] = <<>>
    BY <2>1, <2>3, <2>4
  <2>5. CASE verFile[t] # <<>>
    <3>1. Len(verFile[t]) = 1
      BY <2>1, <2>2, <2>5, OneOrNone
    <3>2. fut'[t] = "none"
      BY <2>3, <2>5
    <3>. QED
      BY <3>1, <3>2
  <2>. QED
    BY <2>4, <2>5
<1>7. CollectSound' /\ VerdictHasItsPrediction'
  BY <1>1 DEF IInv, CollectSound, VerdictHasItsPrediction
<1>8. AccountSound'
  BY <1>1, <1>2 DEF IInv, AccountSound, RowAccounted
<1>9. LossSound'
  BY <1>1, NoneLost DEF Live
<1>. QED
  BY <1>3, <1>4, <1>5, <1>6, <1>7, <1>8, <1>9 DEF IInv

(* The threads are gone, and the files are as they were. *)
LEMMA IdleInv ==
  ASSUME IInv, Live, Idle, main' \in {"down", "failed", "reported"},
         UNCHANGED <<mode, files, runs, paid, unwritten>>,
         main' = "reported" =>
           collecting = None /\ \A t \in Tasks : fut[t] \in {"none", "handled"},
         IF main' = "reported" THEN interrupted' = interrupted ELSE interrupted' = TRUE,
         orphaned' = orphaned \cup ({collecting} \ {None})
  PROVE  IInv'
<1>1. \A t \in Tasks : /\ fut'[t] = "none" /\ rewards'[t] = <<>> /\ cost'[t] = 0
                       /\ Len(rewards'[t]) = 0 /\ Ran(t)' = 0
  BY EmptyRow DEF Idle, Ran
<1>2. ~Live' /\ collecting' = None
  BY DEF Live, Idle
<1>3. TypeOK'
  <2>1. rewards' \in [Tasks -> Seq({0, 1})]
    BY EmptyRow DEF Idle
  <2>2. /\ fut' \in [Tasks -> Futures]
        /\ cost' \in [Tasks -> Nat]
    BY DEF Idle, Futures
  <2>3. orphaned' \subseteq Tasks /\ interrupted' \in BOOLEAN
    BY DEF IInv, TypeOK
  <2>. QED
    BY <1>1, <1>2, <2>1, <2>2, <2>3 DEF IInv, TypeOK, files
<1>4. FutureSound' /\ PaidSound' /\ CollectSound'
  BY <1>1, <1>2 DEF FutureSound, PaidSound, CollectSound
<1>5. VerdictSound'
  BY <1>1, <1>2 DEF IInv, VerdictSound, files
<1>6. VerdictHasItsPrediction'
  BY DEF IInv, TypeOK, VerdictHasItsPrediction, files
<1>7. AccountSound'
  <2> SUFFICES ASSUME ~interrupted', NEW t \in Tasks
               PROVE  verFile[t] # <<>> /\ RowAccounted(t)
    BY <1>2 DEF AccountSound, RowAccounted, files
  <2>1. Len(verFile[t]) = 1 /\ collecting = None /\ ~interrupted
    BY DEF IInv, VerdictSound, Live
  <2>2. verFile[t] # <<>>
    <3>1. Len(verFile[t]) = 0 <=> verFile[t] = <<>>
      BY TaskTypes DEF IInv
    <3>. QED
      BY <2>1, <3>1
  <2>3. collecting # t
    BY <2>1
  <2>. QED
    BY <2>1, <2>2, <2>3 DEF IInv, AccountSound
<1>8. LossSound'
  <2>1. CASE collecting = None
    BY <2>1, NoneLost
  <2>2. CASE collecting # None
    <3>1. main = "running"
      BY <2>2 DEF IInv, TypeOK, CollectSound
    <3>2. orphaned' \cup unwritten' = (orphaned \cup unwritten) \cup {collecting}
      BY <2>2
    <3>. QED
      BY <3>1, <3>2, OneLost
  <2>. QED
    BY <2>1, <2>2
<1>. QED
  BY <1>3, <1>4, <1>5, <1>6, <1>7, <1>8 DEF IInv

LEMMA CrashInv == ASSUME IInv, Crash PROVE IInv'
BY IdleInv DEF Crash, Live

LEMMA FailInv == ASSUME IInv, Fail PROVE IInv'
<1>1. collecting = None
  BY DEF Fail, IInv, TypeOK, CollectSound
<1>. QED
  BY <1>1, IdleInv DEF Fail, Live

LEMMA ReportInv == ASSUME IInv, Report PROVE IInv'
BY IdleInv DEF Report, Live, history

-------------------------------------------------------------------------------
(* The attempts of a future. *)

LEMMA AttemptInv ==
  ASSUME IInv, NEW t \in Tasks, Attempt(t)
  PROVE  IInv'
<1>1. /\ fut[t] = "submitted" /\ Live /\ runs > 0 /\ runs \in Nat
      /\ UNCHANGED <<mode, predFile, verFile, runs, main, collecting, interrupted,
                     orphaned, unwritten>>
      /\ Live' = Live
      /\ collecting # t /\ verFile[t] = <<>>
  BY DEF Attempt, files, Live, IInv, TypeOK, FutureSound, VerdictSound, CollectSound
<1>2. /\ rewards[t] \in Seq({0, 1}) /\ Len(rewards[t]) \in Nat /\ Len(rewards[t]) < PassK
      /\ cost[t] \in Nat /\ cost[t] <= Len(rewards[t])
      /\ mode = "attempted" => cost[t] = Len(rewards[t])
      /\ paid[t] \in Nat /\ Ran(t) = Len(rewards[t])
      /\ paid'[t] = paid[t] + 1 /\ paid' \in [Tasks -> Nat]
  <2>1. /\ rewards[t] \in Seq({0, 1}) /\ Len(rewards[t]) \in Nat
        /\ cost[t] \in Nat /\ paid[t] \in Nat
    BY TaskTypes DEF IInv
  <2>2. /\ Len(rewards[t]) < PassK /\ cost[t] <= Len(rewards[t])
        /\ mode = "attempted" => cost[t] = Len(rewards[t])
    BY <1>1 DEF IInv, TypeOK, FutureSound
  <2>3. Ran(t) = Len(rewards[t])
    BY <1>1, <2>1 DEF Ran
  <2>4. paid'[t] = paid[t] + 1 /\ paid' \in [Tasks -> Nat]
    BY DEF Attempt, IInv, TypeOK
  <2>. QED
    BY <2>1, <2>2, <2>3, <2>4
<1>3. \A u \in Tasks \ {t} :
        /\ fut'[u] = fut[u] /\ rewards'[u] = rewards[u] /\ cost'[u] = cost[u]
        /\ paid'[u] = paid[u] /\ Ran(u)' = Ran(u)
  BY DEF Attempt, IInv, TypeOK, Ran
<1>4. /\ fut' \in [Tasks -> Futures]
      /\ rewards' \in [Tasks -> Seq({0, 1})] /\ cost' \in [Tasks -> Nat]
      /\ Len(rewards'[t]) \in Nat /\ Len(rewards'[t]) <= PassK
      /\ cost'[t] <= Len(rewards'[t])
      /\ fut'[t] \in {"submitted", "done", "raised"}
      /\ Ran(t)' = Ran(t) + 1 /\ Ran(t)' <= PassK
      /\ fut'[t] = "submitted" => Len(rewards'[t]) < PassK
      /\ fut'[t] = "done" => Len(rewards'[t]) > 0
      /\ mode = "attempted" => cost'[t] = Len(rewards'[t])
  <2>1. CASE fut' = [fut EXCEPT ![t] = "raised"] /\ UNCHANGED <<rewards, cost>>
    <3>1. /\ fut \in [Tasks -> Futures]
          /\ rewards \in [Tasks -> Seq({0, 1})] /\ cost \in [Tasks -> Nat]
      BY DEF IInv, TypeOK
    <3>2. fut' \in [Tasks -> Futures]
          /\ fut'[t] = "raised"
      BY <2>1, <3>1 DEF Futures
    <3>3. rewards' = rewards /\ cost' = cost
      BY <2>1
    <3>4. Ran(t)' = Len(rewards[t]) + 1
      BY <3>2, <3>3 DEF Ran
    <3>. QED
      BY <1>2, <3>1, <3>2, <3>3, <3>4
  <2>2. ASSUME NEW r \in {0, 1}, NEW c \in {0, 1}, c = 0 => mode = "interactive",
               rewards' = [rewards EXCEPT ![t] = Append(@, r)],
               cost' = [cost EXCEPT ![t] = @ + c],
               fut' = IF r > 0 \/ Len(rewards[t]) + 1 = PassK
                      THEN [fut EXCEPT ![t] = "done"] ELSE fut
        PROVE  <1>4!:
    <3>1. /\ Append(rewards[t], r) \in Seq({0, 1})
          /\ Len(Append(rewards[t], r)) = Len(rewards[t]) + 1
      BY <1>2, LongerRow
    <3>2. /\ rewards' \in [Tasks -> Seq({0, 1})] /\ rewards'[t] = Append(rewards[t], r)
          /\ cost' \in [Tasks -> Nat] /\ cost'[t] = cost[t] + c
          /\ fut' \in [Tasks -> Futures]
          /\ fut'[t] = IF r > 0 \/ Len(rewards[t]) + 1 = PassK THEN "done" ELSE "submitted"
      <4>1. rewards' \in [Tasks -> Seq({0, 1})] /\ rewards'[t] = Append(rewards[t], r)
        BY <2>2, <3>1 DEF IInv, TypeOK
      <4>2. cost' \in [Tasks -> Nat] /\ cost'[t] = cost[t] + c
        BY <1>2, <2>2 DEF IInv, TypeOK
      <4>3. fut \in [Tasks -> Futures]
        BY DEF IInv, TypeOK
      <4>4. CASE r > 0 \/ Len(rewards[t]) + 1 = PassK
        BY <2>2, <4>1, <4>2, <4>3, <4>4 DEF Futures
      <4>5. CASE ~(r > 0 \/ Len(rewards[t]) + 1 = PassK)
        BY <1>1, <2>2, <4>1, <4>2, <4>3, <4>5
      <4>. QED
        BY <4>4, <4>5
    <3>3. Ran(t)' = Len(rewards[t]) + 1
      BY <1>2, <3>1, <3>2 DEF Ran
    <3>4. mode = "attempted" => c = 1
      BY <2>2
    <3>5. /\ Len(rewards'[t]) = Len(rewards[t]) + 1 /\ Len(rewards'[t]) \in Nat
          /\ Len(rewards'[t]) <= PassK
      BY <1>2, <3>1, <3>2
    <3>6. /\ fut'[t] \in {"submitted", "done", "raised"}
          /\ fut'[t] = "submitted" => Len(rewards'[t]) < PassK
          /\ fut'[t] = "done" => Len(rewards'[t]) > 0
      BY <1>2, <3>2, <3>5
    <3>7. cost'[t] <= Len(rewards'[t]) /\ (mode = "attempted" => cost'[t] = Len(rewards'[t]))
      <4>1. c \in Nat /\ c <= 1
        BY <2>2
      <4>2. cost'[t] <= Len(rewards[t]) + 1
        BY <1>2, <3>2, <4>1
      <4>3. mode = "attempted" => cost'[t] = Len(rewards[t]) + 1
        BY <1>2, <3>2, <3>4
      <4>. QED
        BY <3>5, <4>2, <4>3
    <3>8. Ran(t)' = Ran(t) + 1 /\ Ran(t)' <= PassK
      BY <1>2, <3>3
    <3>. QED
      BY <3>2, <3>5, <3>6, <3>7, <3>8
  <2>. QED
    BY <2>1, <2>2 DEF Attempt
<1>5. TypeOK'
  <2>1. \A u \in Tasks : cost'[u] <= Len(rewards'[u])
    BY <1>3, <1>4 DEF IInv, TypeOK
  <2>2. paid'[t] <= PassK * runs
    <3>1. paid[t] <= PassK * (runs - 1) + Ran(t)
      BY <1>1 DEF IInv, PaidSound
    <3>2. /\ PassK * (runs - 1) \in Nat
          /\ PassK * runs = PassK * (runs - 1) + PassK
      <4>1. runs - 1 \in Nat /\ runs = (runs - 1) + 1
        BY <1>1
      <4>. QED
        BY <4>1, OneMoreRun
    <3>. QED
      BY <1>2, <3>1, <3>2
  <2>3. \A u \in Tasks : paid'[u] <= PassK * runs
    BY <1>3, <2>2 DEF IInv, TypeOK
  <2>. QED
    BY <1>1, <1>2, <1>4, <2>1, <2>3 DEF IInv, TypeOK
<1>6. FutureSound'
  BY <1>1, <1>3, <1>4 DEF IInv, FutureSound
<1>7. PaidSound'
  <2> DEFINE before == PassK * (runs - 1)
  <2> SUFFICES ASSUME NEW u \in Tasks PROVE paid'[u] <= before + Ran(u)'
    BY <1>1 DEF PaidSound
  <2>1. paid[u] <= before + Ran(u)
    BY <1>1 DEF IInv, PaidSound
  <2>2. before \in Nat /\ Ran(u) \in Nat /\ paid[u] \in Nat
    <3>1. runs - 1 \in Nat
      BY <1>1
    <3>. QED
      BY <3>1, OneMoreRun, TaskTypes DEF IInv
  <2> HIDE DEF before
  <2>3. CASE u = t
    BY <1>2, <1>4, <2>1, <2>2, <2>3
  <2>4. CASE u # t
    BY <1>3, <2>1, <2>4
  <2>. QED
    BY <2>3, <2>4
<1>8. VerdictSound'
  BY <1>1, <1>3, <1>4 DEF IInv, VerdictSound
<1>9. CollectSound' /\ VerdictHasItsPrediction'
  BY <1>1, <1>3 DEF IInv, CollectSound, PredictionRow, VerdictHasItsPrediction
<1>10. AccountSound'
  <2> SUFFICES ASSUME ~interrupted, NEW u \in Tasks
               PROVE  IF verFile[u] # <<>> /\ collecting # u
                      THEN RowAccounted(u)'
                      ELSE /\ paid'[u] = Ran(u)'
                           /\ (collecting = u /\ mode = "attempted")
                                \/ predFile[u] \in {<<>>, <<OldRow>>}
    BY <1>1 DEF AccountSound
  <2>1. CASE u = t
    BY <1>1, <1>2, <1>4, <2>1 DEF IInv, AccountSound
  <2>2. CASE u # t
    BY <1>1, <1>3, <2>2 DEF IInv, AccountSound, RowAccounted
  <2>. QED
    BY <2>1, <2>2
<1>11. LossSound'
  BY <1>1, NoneLost
<1>. QED
  BY <1>5, <1>6, <1>7, <1>8, <1>9, <1>10, <1>11 DEF IInv

-------------------------------------------------------------------------------
(* The rows. *)

LEMMA RowType ==
  ASSUME IInv, NEW t \in Tasks
  PROVE  PredictionRow(t) \in PredictionRows
<1>1. /\ Len(rewards[t]) \in Nat /\ Ran(t) \in Nat /\ Len(rewards[t]) <= Ran(t)
      /\ cost[t] \in Nat
  BY TaskTypes DEF IInv
<1>2. Ran(t) <= PassK /\ cost[t] <= Len(rewards[t])
  BY DEF IInv, TypeOK, FutureSound
<1>. QED
  BY <1>1, <1>2 DEF PredictionRow, PredictionRows

(* One more row in each file. *)
LEMMA RowAdded ==
  ASSUME IInv, NEW t \in Tasks
  PROVE  /\ AddPrediction(t) =>
              /\ predFile' \in [Tasks -> Seq(PredictionRows)]
              /\ predFile'[t] # <<>> /\ Last(predFile'[t]) = PredictionRow(t)
              /\ \A u \in Tasks \ {t} : predFile'[u] = predFile[u]
         /\ AddVerdict(t) /\ verFile[t] = <<>> =>
              /\ verFile' \in [Tasks -> Seq(Seq({0, 1}))]
              /\ verFile'[t] # <<>> /\ Len(verFile'[t]) = 1 /\ verFile'[t][1] = rewards[t]
              /\ \A u \in Tasks \ {t} : verFile'[u] = verFile[u]
<1>1. ASSUME AddPrediction(t)
      PROVE  /\ predFile' \in [Tasks -> Seq(PredictionRows)]
             /\ predFile'[t] # <<>> /\ Last(predFile'[t]) = PredictionRow(t)
             /\ \A u \in Tasks \ {t} : predFile'[u] = predFile[u]
  <2>1. predFile'[t] = Append(predFile[t], PredictionRow(t))
    BY <1>1 DEF AddPrediction, IInv, TypeOK
  <2>2. /\ Append(predFile[t], PredictionRow(t)) \in Seq(PredictionRows)
        /\ Append(predFile[t], PredictionRow(t)) # <<>>
        /\ Last(Append(predFile[t], PredictionRow(t))) = PredictionRow(t)
    <3>1. PredictionRow(t) \in PredictionRows /\ predFile[t] \in Seq(PredictionRows)
      BY RowType, TaskTypes DEF IInv
    <3>. QED
      BY <3>1, LongerRow
  <2>3. /\ predFile' \in [Tasks -> Seq(PredictionRows)]
        /\ \A u \in Tasks \ {t} : predFile'[u] = predFile[u]
    BY <1>1, <2>2 DEF AddPrediction, IInv, TypeOK
  <2>. QED
    BY <2>1, <2>2, <2>3
<1>2. ASSUME AddVerdict(t), verFile[t] = <<>>
      PROVE  /\ verFile' \in [Tasks -> Seq(Seq({0, 1}))]
             /\ verFile'[t] # <<>> /\ Len(verFile'[t]) = 1 /\ verFile'[t][1] = rewards[t]
             /\ \A u \in Tasks \ {t} : verFile'[u] = verFile[u]
  <2>1. verFile'[t] = Append(verFile[t], rewards[t])
    BY <1>2 DEF AddVerdict, IInv, TypeOK
  <2>2. rewards[t] \in Seq({0, 1}) /\ verFile[t] \in Seq(Seq({0, 1}))
    BY TaskTypes DEF IInv
  <2>3. /\ Append(verFile[t], rewards[t]) \in Seq(Seq({0, 1}))
        /\ Append(verFile[t], rewards[t]) # <<>>
        /\ Append(verFile[t], rewards[t])[1] = rewards[t]
        /\ Len(Append(verFile[t], rewards[t])) = 1
    BY <1>2, <2>2, LongerRow, OneRow
  <2>4. /\ verFile' \in [Tasks -> Seq(Seq({0, 1}))]
        /\ \A u \in Tasks \ {t} : verFile'[u] = verFile[u]
    BY <1>2, <2>3 DEF AddVerdict, IInv, TypeOK
  <2>. QED
    BY <2>1, <2>3, <2>4
<1>. QED
  BY <1>1, <1>2

(* What the invariant says of a task that is not between its rows. *)
TaskSound(u) ==
  /\ fut[u] \in {"none", "handled"} => Len(verFile[u]) = 1
  /\ Len(verFile[u]) <= 1
  /\ fut[u] \in {"submitted", "done", "raised"} => verFile[u] = <<>>
  /\ verFile[u] # <<>> =>
       IF mode = "attempted"
       THEN \/ u \in unwritten
            \/ predFile[u] # <<>> /\ Last(predFile[u]).attempts = Len(verFile[u][1])
       ELSE predFile[u] # <<>> \/ u \in orphaned \cup unwritten
  /\ ~interrupted =>
       IF verFile[u] # <<>> THEN RowAccounted(u)
       ELSE paid[u] = Ran(u) /\ predFile[u] \in {<<>>, <<OldRow>>}

(* A step that writes rows of another task leaves u as it is. *)
LEMMA OtherTask ==
  ASSUME IInv, Live, NEW u \in Tasks, collecting # u,
         fut'[u] = fut[u], verFile'[u] = verFile[u], predFile'[u] = predFile[u],
         interrupted' \in {interrupted, TRUE}, unwritten \subseteq unwritten',
         UNCHANGED <<mode, rewards, cost, paid, orphaned>>
  PROVE  TaskSound(u)'
<1>1. collecting # u
  OBVIOUS
<1>2. /\ (fut[u] \in {"none", "handled"} => Len(verFile[u]) = 1)
      /\ Len(verFile[u]) <= 1
      /\ (fut[u] \in {"submitted", "done", "raised"} => verFile[u] = <<>>)
  BY <1>1 DEF IInv, VerdictSound
<1>3. verFile[u] # <<>> =>
        IF mode = "attempted"
        THEN \/ u \in unwritten
             \/ predFile[u] # <<>> /\ Last(predFile[u]).attempts = Len(verFile[u][1])
        ELSE predFile[u] # <<>> \/ u \in orphaned \cup unwritten
  BY <1>1 DEF IInv, VerdictHasItsPrediction
<1>4. ~interrupted =>
        IF verFile[u] # <<>> THEN RowAccounted(u)
        ELSE paid[u] = Ran(u) /\ predFile[u] \in {<<>>, <<OldRow>>}
  BY <1>1 DEF IInv, AccountSound
<1>5. RowAccounted(u)' = RowAccounted(u) /\ Ran(u)' = Ran(u)
  BY DEF RowAccounted, Ran
<1>6. ~interrupted' => ~interrupted
  OBVIOUS
<1>7. (~interrupted =>
         IF verFile[u] # <<>> THEN RowAccounted(u)
         ELSE paid[u] = Ran(u) /\ predFile[u] \in {<<>>, <<OldRow>>})'
  BY <1>4, <1>5, <1>6
<1>8. (verFile[u] # <<>> =>
         IF mode = "attempted"
         THEN \/ u \in unwritten
              \/ predFile[u] # <<>> /\ Last(predFile[u]).attempts = Len(verFile[u][1])
         ELSE predFile[u] # <<>> \/ u \in orphaned \cup unwritten)'
  BY <1>3
<1>. QED
  BY <1>2, <1>7, <1>8 DEF TaskSound

LEMMA FirstRowInv ==
  ASSUME IInv, NEW t \in Tasks, WriteFirstRow(t)
  PROVE  IInv'
<1>1. /\ collecting = None /\ collecting' = t /\ fut[t] = "done" /\ main = "running"
      /\ UNCHANGED <<mode, runs, main, fut, rewards, cost, paid, interrupted, orphaned,
                     unwritten>>
      /\ Live /\ Live' /\ t # None /\ verFile[t] = <<>>
  BY DEF WriteFirstRow, work, history, Live, IInv, VerdictSound
<1>4. LossSound'
  BY <1>1, NoneLost
<1>2. CASE mode = "attempted"
  <2>1. /\ predFile' \in [Tasks -> Seq(PredictionRows)] /\ verFile' = verFile
        /\ predFile'[t] # <<>> /\ Last(predFile'[t]) = PredictionRow(t)
        /\ \A u \in Tasks \ {t} : predFile'[u] = predFile[u]
    BY <1>2, RowAdded DEF WriteFirstRow
  <2>2. CollectSound'
    BY <1>1, <1>2, <2>1 DEF CollectSound, PredictionRow
  <2>3. TypeOK' /\ VerdictSound'
    BY <1>1, <2>1 DEF IInv, TypeOK, VerdictSound
  <2>4. VerdictHasItsPrediction' /\ AccountSound'
    <3> SUFFICES ASSUME NEW u \in Tasks
                 PROVE  /\ (verFile[u] # <<>> =>
                              \/ u \in unwritten
                              \/ /\ predFile'[u] # <<>>
                                 /\ Last(predFile'[u]).attempts = Len(verFile[u][1]))
                        /\ (~interrupted =>
                              IF verFile[u] # <<>> /\ t # u
                              THEN RowAccounted(u)'
                              ELSE /\ paid[u] = Ran(u)'
                                   /\ t = u \/ predFile'[u] \in {<<>>, <<OldRow>>})
      BY <1>1, <1>2, <2>1 DEF VerdictHasItsPrediction, AccountSound
    <3>1. CASE u = t
      BY <1>1, <3>1 DEF IInv, AccountSound, Ran
    <3>2. CASE u # t
      <4>1. TaskSound(u)'
        BY <1>1, <2>1, <3>2, OtherTask
      <4>. QED
        BY <1>1, <1>2, <2>1, <3>2, <4>1 DEF TaskSound
    <3>. QED
      BY <3>1, <3>2
  <2>. QED
    BY <1>1, <1>4, <2>2, <2>3, <2>4 DEF IInv, FutureSound, PaidSound, Ran
<1>3. CASE mode # "attempted"
  <2>1. /\ verFile' \in [Tasks -> Seq(Seq({0, 1}))] /\ predFile' = predFile
        /\ verFile'[t] # <<>> /\ Len(verFile'[t]) = 1 /\ verFile'[t][1] = rewards[t]
        /\ \A u \in Tasks \ {t} : verFile'[u] = verFile[u]
    BY <1>1, <1>3, RowAdded DEF WriteFirstRow
  <2>2. CollectSound'
    BY <1>1, <1>3, <2>1 DEF CollectSound
  <2>3. TypeOK' /\ VerdictSound'
    <3>1. TypeOK'
      BY <1>1, <2>1 DEF IInv, TypeOK
    <3>2. \A u \in Tasks :
            /\ Len(verFile'[u]) <= 1
            /\ fut'[u] \in {"none", "handled"} => Len(verFile'[u]) = 1
            /\ (fut'[u] \in {"submitted", "done", "raised"} /\ t # u) => verFile'[u] = <<>>
      <4> SUFFICES ASSUME NEW u \in Tasks
                   PROVE  /\ Len(verFile'[u]) <= 1
                          /\ fut'[u] \in {"none", "handled"} => Len(verFile'[u]) = 1
                          /\ (fut'[u] \in {"submitted", "done", "raised"} /\ t # u)
                               => verFile'[u] = <<>>
        OBVIOUS
      <4>1. CASE u = t
        <5>1. fut'[u] = "done" /\ Len(verFile'[u]) = 1 /\ 1 <= 1
          BY <1>1, <2>1, <4>1
        <5>. QED
          BY <4>1, <5>1
      <4>2. CASE u # t
        <5>1. TaskSound(u)'
          BY <1>1, <2>1, <4>2, OtherTask
        <5>. QED
          BY <5>1 DEF TaskSound
      <4>. QED
        BY <4>1, <4>2
    <3>3. VerdictSound'
      BY <1>1, <3>2 DEF VerdictSound
    <3>. QED
      BY <3>1, <3>3
  <2>4. VerdictHasItsPrediction' /\ AccountSound'
    <3> SUFFICES ASSUME NEW u \in Tasks
                 PROVE  /\ (verFile'[u] # <<>> => predFile[u] # <<>> \/ u \in orphaned \cup unwritten \cup {t})
                        /\ (~interrupted =>
                              IF verFile'[u] # <<>> /\ t # u
                              THEN RowAccounted(u)'
                              ELSE paid[u] = Ran(u)' /\ predFile[u] \in {<<>>, <<OldRow>>})
      BY <1>1, <1>3, <2>1 DEF VerdictHasItsPrediction, AccountSound
    <3>1. CASE u = t
      BY <1>1, <1>3, <3>1 DEF IInv, AccountSound, Ran
    <3>2. CASE u # t
      <4>1. TaskSound(u)'
        BY <1>1, <2>1, <3>2, OtherTask
      <4>. QED
        BY <1>1, <1>3, <2>1, <3>2, <4>1 DEF TaskSound
    <3>. QED
      BY <3>1, <3>2
  <2>. QED
    BY <1>1, <1>4, <2>2, <2>3, <2>4 DEF IInv, FutureSound, PaidSound, Ran
<1>. QED
  BY <1>2, <1>3

LEMMA SecondRowInv ==
  ASSUME IInv, NEW t \in Tasks, WriteSecondRow(t)
  PROVE  IInv'
<1>1. /\ collecting = t /\ collecting' = None /\ fut[t] = "done" /\ main = "running"
      /\ fut' = [fut EXCEPT ![t] = "handled"]
      /\ UNCHANGED <<mode, runs, main, rewards, cost, paid, interrupted, orphaned,
                     unwritten>>
      /\ Live /\ Live' /\ t # None
  BY DEF WriteSecondRow, history, Live, IInv, CollectSound
<1>2. /\ fut' \in [Tasks -> Futures]
      /\ fut'[t] = "handled" /\ \A u \in Tasks \ {t} : fut'[u] = fut[u]
      /\ \A u \in Tasks : Ran(u)' = Ran(u)
  <2>1. fut \in [Tasks -> Futures]
    BY DEF IInv, TypeOK
  <2>2. /\ fut' \in [Tasks -> Futures]
        /\ fut'[t] = "handled" /\ \A u \in Tasks \ {t} : fut'[u] = fut[u]
    BY <1>1, <2>1 DEF Futures
  <2>. QED
    BY <1>1, <2>2 DEF Ran
<1>3. FutureSound' /\ PaidSound' /\ CollectSound'
  BY <1>1, <1>2 DEF IInv, FutureSound, PaidSound, CollectSound
<1>4. /\ rewards[t] \in Seq({0, 1}) /\ Len(rewards[t]) \in Nat /\ cost[t] \in Nat
      /\ cost[t] <= Len(rewards[t]) /\ Len(rewards[t]) > 0 /\ Ran(t) = Len(rewards[t])
      /\ mode = "attempted" => cost[t] = Len(rewards[t])
      /\ ~interrupted => paid[t] = Len(rewards[t])
  BY <1>1, TaskTypes DEF IInv, TypeOK, FutureSound, Ran, AccountSound
<1>5. /\ PredictionRow(t).attempts = Len(rewards[t])
      /\ PredictionRow(t).cost = cost[t]
  BY DEF PredictionRow
<1>6. /\ verFile' \in [Tasks -> Seq(Seq({0, 1}))]
      /\ predFile' \in [Tasks -> Seq(PredictionRows)]
      /\ verFile'[t] # <<>> /\ Len(verFile'[t]) = 1 /\ predFile'[t] # <<>>
      /\ mode = "attempted" => /\ verFile'[t][1] = rewards[t]
                               /\ Last(predFile'[t]) = PredictionRow(t)
      /\ mode # "attempted" /\ ~interrupted =>
           Last(predFile'[t]) \in {PredictionRow(t), OldRow}
      /\ \A u \in Tasks \ {t} : verFile'[u] = verFile[u] /\ predFile'[u] = predFile[u]
  <2>1. CASE mode = "attempted"
    <3>1. /\ verFile[t] = <<>> /\ predFile[t] # <<>>
          /\ Last(predFile[t]) = PredictionRow(t)
          /\ AddVerdict(t) /\ predFile' = predFile
      BY <1>1, <2>1 DEF IInv, CollectSound, WriteSecondRow
    <3>. QED
      BY <2>1, <3>1, RowAdded DEF IInv, TypeOK
  <2>2. CASE mode # "attempted"
    <3>1. verFile' = verFile /\ Len(verFile[t]) = 1 /\ verFile[t] # <<>>
      <4>1. verFile' = verFile /\ Len(verFile[t]) = 1
        BY <1>1, <2>2 DEF IInv, CollectSound, WriteSecondRow
      <4>. QED
        BY <4>1, EmptyRow
    <3>2. CASE predFile[t] = <<>>
      BY <2>2, <3>1, <3>2, RowAdded DEF IInv, TypeOK, WriteSecondRow
    <3>3. CASE predFile[t] # <<>>
      <4>1. predFile' = predFile
        BY <2>2, <3>3 DEF WriteSecondRow
      <4>2. ~interrupted => Last(predFile[t]) = OldRow
        BY <1>1, <2>2, <3>3 DEF IInv, AccountSound, Last
      <4>. QED
        BY <2>2, <3>1, <3>3, <4>1, <4>2 DEF IInv, TypeOK
    <3>. QED
      BY <3>2, <3>3
  <2>. QED
    BY <2>1, <2>2
<1>7. TypeOK'
  BY <1>1, <1>2, <1>6 DEF IInv, TypeOK
<1>8. \A u \in Tasks \ {t} : TaskSound(u)'
  <2> SUFFICES ASSUME NEW u \in Tasks \ {t} PROVE TaskSound(u)'
    OBVIOUS
  <2>1. /\ fut'[u] = fut[u] /\ verFile'[u] = verFile[u] /\ predFile'[u] = predFile[u]
        /\ collecting # u
    BY <1>1, <1>2, <1>6
  <2>2. Live /\ UNCHANGED <<mode, rewards, cost, paid, interrupted, orphaned, unwritten>>
    BY <1>1
  <2>. QED
    BY <2>1, <2>2, OtherTask
<1>9. VerdictSound'
  <2> SUFFICES ASSUME NEW u \in Tasks
               PROVE  /\ Len(verFile'[u]) <= 1
                      /\ fut'[u] \in {"none", "handled"} => Len(verFile'[u]) = 1
                      /\ fut'[u] \in {"submitted", "done", "raised"} => verFile'[u] = <<>>
    BY <1>1 DEF VerdictSound
  <2>1. CASE u = t
    <3>1. fut'[u] = "handled" /\ Len(verFile'[u]) = 1 /\ 1 <= 1
      BY <1>2, <1>6, <2>1
    <3>. QED
      BY <3>1
  <2>2. CASE u # t
    BY <1>8, <2>2 DEF TaskSound
  <2>. QED
    BY <2>1, <2>2
<1>10. VerdictHasItsPrediction'
  BY <1>1, <1>4, <1>5, <1>6, <1>8 DEF VerdictHasItsPrediction, TaskSound
<1>11. AccountSound'
  <2>1. ~interrupted => RowAccounted(t)'
    BY <1>1, <1>4, <1>5, <1>6 DEF RowAccounted
  <2>2. collecting' \notin Tasks
    BY <1>1
  <2>. QED
    BY <1>1, <1>6, <1>8, <2>1, <2>2 DEF AccountSound, TaskSound
<1>12. LossSound'
  BY <1>1, NoneLost
<1>. QED
  BY <1>3, <1>7, <1>9, <1>10, <1>11, <1>12 DEF IInv

(* Whatever of the rows of t got into the files before writing one of them *)
(* raised.                                                                 *)
LEMMA RaiseInv ==
  ASSUME IInv, NEW t \in Tasks, main = "running", fut[t] = "done",
         collecting \in {None, t}, WriteRaises(t),
         (AddVerdict(t) /\ verFile[t] = <<>>) \/ UNCHANGED verFile,
         AddPrediction(t) \/ UNCHANGED predFile
  PROVE  IInv'
<1>1. /\ collecting' = None /\ main' = "aborting" /\ interrupted' = TRUE
      /\ fut' = [fut EXCEPT ![t] = "unwritten"] /\ unwritten' = unwritten \cup {t}
      /\ UNCHANGED <<mode, runs, rewards, cost, paid, orphaned>>
      /\ Live /\ Live'
  BY DEF WriteRaises, Live
<1>2. /\ fut' \in [Tasks -> Futures]
      /\ fut'[t] = "unwritten" /\ \A u \in Tasks \ {t} : fut'[u] = fut[u]
      /\ \A u \in Tasks : Ran(u)' = Ran(u)
  <2>1. fut \in [Tasks -> Futures]
    BY DEF IInv, TypeOK
  <2>2. /\ fut' \in [Tasks -> Futures]
        /\ fut'[t] = "unwritten" /\ \A u \in Tasks \ {t} : fut'[u] = fut[u]
    BY <1>1, <2>1 DEF Futures
  <2>. QED
    BY <1>1, <2>2 DEF Ran
<1>3. FutureSound' /\ PaidSound' /\ CollectSound'
  <2>1. Len(rewards[t]) > 0
    BY DEF IInv, FutureSound
  <2>2. collecting' \notin Tasks
    BY <1>1
  <2>. QED
    BY <1>1, <1>2, <2>1, <2>2 DEF IInv, FutureSound, PaidSound, CollectSound
<1>4. /\ verFile' \in [Tasks -> Seq(Seq({0, 1}))] /\ Len(verFile'[t]) <= 1
      /\ \A u \in Tasks \ {t} : verFile'[u] = verFile[u]
  <2>1. CASE UNCHANGED verFile
    BY <2>1 DEF IInv, TypeOK, VerdictSound
  <2>2. CASE AddVerdict(t) /\ verFile[t] = <<>>
    <3>1. /\ verFile' \in [Tasks -> Seq(Seq({0, 1}))] /\ Len(verFile'[t]) = 1
          /\ \A u \in Tasks \ {t} : verFile'[u] = verFile[u]
      BY <2>2, RowAdded
    <3>. QED
      BY <3>1
  <2>. QED
    BY <2>1, <2>2
<1>5. /\ predFile' \in [Tasks -> Seq(PredictionRows)]
      /\ \A u \in Tasks \ {t} : predFile'[u] = predFile[u]
  <2>1. CASE UNCHANGED predFile
    BY <2>1 DEF IInv, TypeOK
  <2>2. CASE AddPrediction(t)
    BY <2>2, RowAdded
  <2>. QED
    BY <2>1, <2>2
<1>6. TypeOK'
  BY <1>1, <1>2, <1>4, <1>5 DEF IInv, TypeOK
<1>7. \A u \in Tasks \ {t} : TaskSound(u)'
  <2> SUFFICES ASSUME NEW u \in Tasks \ {t} PROVE TaskSound(u)'
    OBVIOUS
  <2>1. /\ fut'[u] = fut[u] /\ verFile'[u] = verFile[u] /\ predFile'[u] = predFile[u]
        /\ collecting # u
    BY <1>2, <1>4, <1>5
  <2>2. interrupted' \in {interrupted, TRUE} /\ unwritten \subseteq unwritten'
    BY <1>1
  <2>. QED
    BY <1>1, <2>1, <2>2, OtherTask
<1>8. VerdictSound'
  BY <1>1, <1>2, <1>4, <1>7 DEF VerdictSound, TaskSound
<1>9. VerdictHasItsPrediction'
  BY <1>1, <1>7 DEF VerdictHasItsPrediction, TaskSound
<1>10. AccountSound'
  BY <1>1 DEF AccountSound
<1>11. LossSound'
  <2>1. orphaned' \cup unwritten' = (orphaned \cup unwritten) \cup {t}
    BY <1>1
  <2>. QED
    BY <1>1, <2>1, OneLost
<1>. QED
  BY <1>3, <1>6, <1>8, <1>9, <1>10, <1>11 DEF IInv

LEMMA FirstRowFailsInv ==
  ASSUME IInv, NEW t \in Tasks, FirstRowFails(t)
  PROVE  IInv'
<1>1. verFile[t] = <<>>
  BY DEF FirstRowFails, IInv, VerdictSound
<1>. QED
  BY <1>1, RaiseInv DEF FirstRowFails

LEMMA SecondRowFailsInv ==
  ASSUME IInv, NEW t \in Tasks, SecondRowFails(t)
  PROVE  IInv'
<1>1. /\ collecting = t /\ main = "running" /\ fut[t] = "done"
      /\ mode = "attempted" => verFile[t] = <<>>
  BY DEF SecondRowFails, IInv, CollectSound
<1>. QED
  BY <1>1, RaiseInv DEF SecondRowFails

LEMMA AbortInv ==
  ASSUME IInv, NEW t \in Tasks, Abort(t)
  PROVE  IInv'
<1>1. /\ main = "running" /\ main' = "aborting" /\ collecting = None
      /\ UNCHANGED <<mode, predFile, verFile, runs, fut, rewards, cost, collecting, paid,
                     interrupted, orphaned, unwritten>>
      /\ Live' = Live
  BY DEF Abort, files, work, history, Live
<1>2. TypeOK' /\ FutureSound' /\ PaidSound'
  BY <1>1 DEF IInv, TypeOK, FutureSound, PaidSound, Ran
<1>3. VerdictSound' /\ CollectSound' /\ VerdictHasItsPrediction' /\ AccountSound'
  BY <1>1 DEF IInv, VerdictSound, CollectSound, VerdictHasItsPrediction, AccountSound,
              RowAccounted, Ran
<1>4. LossSound'
  BY <1>1, NoneLost
<1>. QED
  BY <1>2, <1>3, <1>4 DEF IInv

LEMMA NextInv == IInv /\ [Next]_vars => IInv'
<1> SUFFICES ASSUME IInv, [Next]_vars PROVE IInv'
  OBVIOUS
<1>1. CASE Start \/ Crash \/ Fail \/ Report
  BY <1>1, StartInv, CrashInv, FailInv, ReportInv
<1>2. CASE \E t \in Tasks : Attempt(t) \/ WriteFirstRow(t) \/ WriteSecondRow(t) \/ Abort(t)
  BY <1>2, AttemptInv, FirstRowInv, SecondRowInv, AbortInv
<1>4. CASE \E t \in Tasks : FirstRowFails(t) \/ SecondRowFails(t)
  BY <1>4, FirstRowFailsInv, SecondRowFailsInv
<1>3. CASE UNCHANGED vars
  <2>1. UNCHANGED <<mode, predFile, verFile, runs, main, fut, rewards, cost, collecting, paid,
                    interrupted, orphaned, unwritten>>
    BY <1>3 DEF vars, files, work, history
  <2>2. TypeOK' /\ FutureSound' /\ PaidSound'
    BY <2>1 DEF IInv, TypeOK, FutureSound, PaidSound, Ran, Live
  <2>3. VerdictSound' /\ CollectSound' /\ VerdictHasItsPrediction' /\ AccountSound'
    BY <2>1 DEF IInv, VerdictSound, CollectSound, PredictionRow, VerdictHasItsPrediction,
                AccountSound, RowAccounted, Ran, Live
  <2>4. LossSound'
    BY <2>1, NoneLost
  <2>. QED
    BY <2>2, <2>3, <2>4 DEF IInv
<1>. QED
  BY <1>1, <1>2, <1>3, <1>4 DEF Next, Collector

-------------------------------------------------------------------------------
(* What follows from the invariant. *)

(* The inductive invariant holds of every filling of the directory. *)
THEOREM Invariance == Spec => []IInv
BY InitInv, NextInv, PTL DEF Spec

(* Every variable keeps its shape, and no run pays for more than k         *)
(* attempts of a task.                                                     *)
THEOREM TypeCorrect == Spec => []TypeOK
<1>1. IInv => TypeOK
  BY DEF IInv
<1>. QED
  BY <1>1, Invariance, PTL

(* Whatever is killed when, one verdict per task, and none is missing when *)
(* a report is printed.                                                    *)
THEOREM Judged_Once == Spec => []JudgedOnce
<1>1. IInv => JudgedOnce
  BY DEF IInv, VerdictSound, JudgedOnce
<1>. QED
  BY <1>1, Invariance, PTL

(* A verdict stands beside the prediction of the attempts it judges, but   *)
(* for a row that could not be written, and, interactive, a kill between   *)
(* the two rows.                                                           *)
THEOREM Verdict_HasItsPrediction == Spec => []VerdictHasItsPrediction
<1>1. IInv => VerdictHasItsPrediction
  BY DEF IInv
<1>. QED
  BY <1>1, Invariance, PTL

(* However the runs end, no run leaves more than one judged task without   *)
(* its prediction.                                                         *)
THEOREM One_LostPerRun == Spec => []OneLostPerRun
<1>1. IInv => OneLostPerRun
  <2> SUFFICES ASSUME IInv PROVE OneLostPerRun
    OBVIOUS
  <2> DEFINE half == orphaned \cup unwritten
  <2>1. IsFiniteSet(half) /\ Cardinality(half) <= IF main = "running" THEN runs - 1 ELSE runs
    BY DEF IInv, LossSound
  <2>2. Lost \subseteq half
    <3> SUFFICES ASSUME NEW t \in Tasks, verFile[t] # <<>>, predFile[t] = <<>>,
                        collecting # t
                 PROVE  t \in half
      BY DEF Lost
    <3>. QED
      BY DEF IInv, VerdictHasItsPrediction
  <2>3. runs \in Nat
    BY DEF IInv, TypeOK
  <2> HIDE DEF half
  <2>4. IsFiniteSet(Lost) /\ Cardinality(Lost) <= Cardinality(half)
    BY <2>1, <2>2, FS_Subset
  <2>5. Cardinality(half) \in Nat /\ Cardinality(Lost) \in Nat
    BY <2>1, <2>4, FS_CardinalityType
  <2>6. Cardinality(Lost) <= runs
    BY <2>1, <2>3, <2>4, <2>5
  <2>. QED
    BY <2>6 DEF OneLostPerRun
<1>. QED
  BY <1>1, Invariance, PTL

(* Without kills and failures, the rows account for every attempt.         *)
THEOREM Attempts_Accounted == Spec => []AttemptsAccounted
<1>1. IInv => AttemptsAccounted
  <2> SUFFICES ASSUME IInv, ~interrupted, main = "reported", NEW t \in Tasks
               PROVE  RowAccounted(t)
    BY DEF AttemptsAccounted, RowAccounted
  <2>1. collecting = None
    BY DEF IInv, FutureSound, Live
  <2>2. Len(verFile[t]) = 1
    BY DEF IInv, VerdictSound
  <2>3. verFile[t] # <<>>
    BY <2>2, EmptyRow
  <2>. QED
    BY <2>1, <2>3 DEF IInv, AccountSound
<1>. QED
  BY <1>1, Invariance, PTL
===============================================================================
