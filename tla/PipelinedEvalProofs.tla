------------------------- MODULE PipelinedEvalProofs -------------------------
(***************************************************************************)
(* The safety of _run_pipelined for every finite set of tasks, every set   *)
(* of answers and any number of runs, kills and failed writes, and the     *)
(* refinement of the ledger.                                               *)
(***************************************************************************)
EXTENDS PipelinedEval, FiniteSetTheorems, SequenceTheorems, TLAPS

-------------------------------------------------------------------------------
(* Sequences: rows of a file and the queue. *)

LEMMA OneRow ==
  ASSUME NEW S, NEW a \in S
  PROVE  <<a>> \in Seq(S) /\ Len(<<a>>) = 1 /\ <<a>>[1] = a /\ <<a>> # <<>>
OBVIOUS

LEMMA NoRow == ASSUME NEW S PROVE <<>> \in Seq(S) /\ Len(<<>>) = 0
OBVIOUS

LEMMA FirstRow ==
  ASSUME NEW S, NEW a \in S, NEW s \in Seq(S), s = <<>>
  PROVE  Append(s, a) = <<a>>
OBVIOUS

LEMMA AtMostOneRow ==
  ASSUME NEW S, NEW s \in Seq(S), Len(s) <= 1, s # <<>>
  PROVE  Len(s) = 1 /\ s[1] \in S /\ s = <<s[1]>>
<1>1. Len(s) = 1 /\ s[1] \in S
  OBVIOUS
<1>. QED
  BY <1>1, OneRow, SeqEqual

LEMMA Dequeue ==
  ASSUME NEW S, NEW q \in Seq(S), q # <<>>
  PROVE  /\ Tail(q) \in Seq(S) /\ Head(q) = q[1] /\ Head(q) \in S
         /\ Len(Tail(q)) = Len(q) - 1 /\ 1 \in 1..Len(q)
         /\ \A i \in 1..Len(Tail(q)) :
              Tail(q)[i] = q[i + 1] /\ i + 1 \in 1..Len(q)
         /\ \A i \in 1..Len(q) : i = 1 \/ i - 1 \in 1..Len(Tail(q))
OBVIOUS

LEMMA Enqueue ==
  ASSUME NEW S, NEW q \in Seq(S), NEW x \in S
  PROVE  /\ Append(q, x) \in Seq(S)
         /\ Len(q) \in Nat /\ Len(Append(q, x)) = Len(q) + 1
         /\ \A i \in 1..Len(q) : Append(q, x)[i] = q[i]
         /\ Append(q, x)[Len(q) + 1] = x
OBVIOUS

(* What the queue of a starting run holds: every task of S exactly once,   *)
(* with its prediction.                                                    *)
LEMMA QueuesSound ==
  ASSUME NEW S \in SUBSET Tasks, NEW preds \in [Tasks -> Answers \cup {None}],
         \A t \in S : preds[t] # None,
         NEW q \in Queues(S, preds)
  PROVE  /\ q \in Seq(Tasks \X Answers)
         /\ \A i \in 1..Len(q) : q[i][1] \in S /\ q[i][2] = preds[q[i][1]]
         /\ \A i, j \in 1..Len(q) : q[i][1] = q[j][1] => i = j
         /\ \A t \in S : \E i \in 1..Len(q) : q[i][1] = t
<1> DEFINE n == Cardinality(S)
<1>1. n \in Nat
  BY FS_Subset, FS_CardinalityType, PipelinedAssumption
<1>2. PICK order \in Bijection(1..n, S) :
        q = [i \in 1..n |-> <<order[i], preds[order[i]]>>]
  BY DEF Queues
<1> HIDE DEF n
<1>3. /\ order \in [1..n -> S]
      /\ \A i, j \in 1..n : order[i] = order[j] => i = j
      /\ \A t \in S : \E i \in 1..n : order[i] = t
  BY DEF Bijection, Injection, Surjection, IsInjective
<1>4. \A i \in 1..n : q[i] = <<order[i], preds[order[i]]>> /\ q[i] \in Tasks \X Answers
  BY <1>2, <1>3
<1>5. q \in Seq(Tasks \X Answers) /\ Len(q) = n
  <2>1. q \in [1..n -> Tasks \X Answers]
    BY <1>2, <1>4
  <2>. QED
    BY <2>1, <1>1, SeqDef
<1>. QED
  BY <1>3, <1>4, <1>5

-------------------------------------------------------------------------------
LEMMA InitInv == Init => IInv
<1> SUFFICES ASSUME Init PROVE IInv
  OBVIOUS
<1> USE PipelinedAssumption
<1>1. ASSUME NEW t \in Tasks
      PROVE  /\ predFile[t] \in Seq(Answers) /\ verFile[t] \in Seq(Answers \cup {Legacy})
             /\ Len(predFile[t]) <= 1 /\ Len(verFile[t]) <= 1
             /\ \A i \in 1..Len(verFile[t]) :
                  verFile[t][i] # Legacy => predFile[t] = <<verFile[t][i]>>
  <2>1. /\ predFile[t] = <<>> \/ \E a \in Answers : predFile[t] = <<a>>
        /\ verFile[t] \in {<<>>, <<Legacy>>} \/ verFile[t] = predFile[t]
    BY DEF Init
  <2>2. predFile[t] \in Seq(Answers) /\ Len(predFile[t]) <= 1
    <3>1. CASE predFile[t] = <<>>
      BY <3>1, NoRow
    <3>2. ASSUME NEW a \in Answers, predFile[t] = <<a>>
          PROVE  predFile[t] \in Seq(Answers) /\ Len(predFile[t]) <= 1
      BY <3>2, OneRow
    <3>. QED
      BY <2>1, <3>1, <3>2
  <2>3. CASE verFile[t] = <<>>
    BY <2>2, <2>3, NoRow
  <2>4. CASE verFile[t] = <<Legacy>>
    BY <2>2, <2>4, OneRow
  <2>5. CASE verFile[t] = predFile[t] /\ predFile[t] # <<>>
    <3>1. PICK a \in Answers : predFile[t] = <<a>>
      BY <2>1, <2>5
    <3>. QED
      BY <2>2, <2>5, <3>1, OneRow
  <2>. QED
    BY <2>1, <2>3, <2>4, <2>5
<1>2. TypeOK
  <2>1. predFile \in [Tasks -> Seq(Answers)] /\ verFile \in [Tasks -> Seq(Answers \cup {Legacy})]
    BY <1>1 DEF Init
  <2>2. runs \in 0..MaxRuns /\ queue \in Seq(Tasks \X Answers)
    BY NoRow DEF Init
  <2>3. /\ genFut \in [Tasks -> {"none", "submitted", "done", "handled"}]
        /\ verFut \in [Tasks -> {"none", "submitted", "done"}]
        /\ genRes \in [Tasks -> Answers \cup {None, Raised}]
        /\ verArg \in [Tasks -> Answers \cup {None}]
        /\ predictions \in [Tasks -> Answers \cup {None}]
        /\ verification \in [Tasks -> Answers \cup {None, Legacy}]
    BY DEF Init
  <2>. QED
    BY <2>1, <2>2, <2>3 DEF Init, TypeOK
<1>3. OneRowPerTask /\ JudgedIsOnFile
  BY <1>1 DEF OneRowPerTask, JudgedIsOnFile
<1>. QED
  BY <1>2, <1>3 DEF Init, IInv, NothingLost, ThreadsOff, QueueSound,
     PendingSound, GeneratorSound, DictSound, NothingDropped, ControlSound

-------------------------------------------------------------------------------
(* One lemma per action: it keeps the inductive invariant. *)

LEMMA StartInv == IInv /\ Start => IInv'
<1> SUFFICES ASSUME IInv, Start PROVE IInv'
  OBVIOUS
<1> USE PipelinedAssumption
<1>1. TypeOK /\ OneRowPerTask /\ JudgedIsOnFile /\ ThreadsOff /\ main # "running"
  BY DEF IInv, Start
<1>2. predFile' = predFile /\ verFile' = verFile
  BY DEF Start, files
<1>3. ASSUME NEW t \in Tasks
      PROVE  /\ predictions'[t] = None => predFile[t] = <<>>
             /\ predictions'[t] # None =>
                  predictions'[t] \in Answers /\ predFile[t] = <<predictions'[t]>>
             /\ verification'[t] \in Answers \cup {None, Legacy}
             /\ verification'[t] = None => verFile[t] = <<>>
  <2>1. predFile[t] # <<>> => Len(predFile[t]) = 1 /\ predFile[t][1] \in Answers /\ predFile[t] = <<predFile[t][1]>>
    BY <1>1, AtMostOneRow DEF TypeOK, OneRowPerTask
  <2>2. verFile[t] # <<>> => Len(verFile[t]) = 1 /\ verFile[t][1] \in Answers \cup {Legacy}
    BY <1>1, AtMostOneRow DEF TypeOK, OneRowPerTask
  <2>. QED
    BY <2>1, <2>2 DEF Start, Loaded
<1>4. /\ predictions' \in [Tasks -> Answers \cup {None}]
      /\ verification' \in [Tasks -> Answers \cup {None, Legacy}]
  BY <1>3 DEF Start, Loaded
<1>5. /\ queue' \in Seq(Tasks \X Answers)
      /\ \A i \in 1..Len(queue') :
           queue'[i][1] \in Ready(predictions', verification')
             /\ queue'[i][2] = predictions'[queue'[i][1]]
      /\ \A i, j \in 1..Len(queue') : queue'[i][1] = queue'[j][1] => i = j
      /\ \A t \in Ready(predictions', verification') : \E i \in 1..Len(queue') : queue'[i][1] = t
  <2>1. Ready(predictions', verification') \in SUBSET Tasks
        /\ \A t \in Ready(predictions', verification') : predictions'[t] # None
    BY DEF Ready
  <2>2. queue' \in Queues(Ready(predictions', verification'), predictions')
    BY DEF Start
  <2>3. PICK S, preds, q : /\ S = Ready(predictions', verification')
                           /\ preds = predictions' /\ q = queue'
    OBVIOUS
  <2>4. S \in SUBSET Tasks /\ preds \in [Tasks -> Answers \cup {None}]
        /\ (\A t \in S : preds[t] # None) /\ q \in Queues(S, preds)
    BY <1>4, <2>1, <2>2, <2>3
  <2>5. /\ q \in Seq(Tasks \X Answers)
        /\ \A i \in 1..Len(q) : q[i][1] \in S /\ q[i][2] = preds[q[i][1]]
        /\ \A i, j \in 1..Len(q) : q[i][1] = q[j][1] => i = j
        /\ \A t \in S : \E i \in 1..Len(q) : q[i][1] = t
    BY ONLY <2>4, QueuesSound, PipelinedAssumption
  <2>. QED
    BY ONLY <2>3, <2>5
<1>6. TypeOK'
  <2>1. /\ runs' \in 0..MaxRuns /\ skip_gen' \in BOOLEAN /\ main' = "running"
        /\ genFut' \in [Tasks -> {"none", "submitted", "done", "handled"}]
    BY <1>1 DEF Start, TypeOK
  <2>. QED
    BY <1>1, <1>2, <1>4, <1>5, <2>1 DEF Start, TypeOK
<1>7. \A t \in Tasks : verFut'[t] = "none" /\ genFut'[t] \in {"none", "submitted"}
  BY <1>1 DEF Start, ThreadsOff
<1>8. (OneRowPerTask /\ JudgedIsOnFile)'
  BY <1>1, <1>2 DEF OneRowPerTask, JudgedIsOnFile
<1>9. QueueSound'
  <2> SUFFICES ASSUME NEW i \in 1..Len(queue')
               PROVE  /\ AwaitsVerdict(queue[i][1], queue[i][2])'
                      /\ verFut'[queue'[i][1]] = "none"
                      /\ \A j \in 1..Len(queue') : queue'[i][1] = queue'[j][1] => i = j
    BY DEF QueueSound
  <2> DEFINE t == queue'[i][1]
  <2>1. t \in Tasks /\ predictions'[t] # None /\ verification'[t] = None /\ queue'[i][2] = predictions'[t]
    BY <1>5 DEF Ready
  <2>2. genFut'[t] = "none"
    BY <2>1 DEF Start, NeedGen
  <2>. QED
    BY <1>2, <1>3, <1>5, <1>7, <2>1, <2>2 DEF AwaitsVerdict, Putting, Start
<1>10. (ThreadsOff /\ PendingSound /\ ControlSound /\ NothingLost)'
  BY <1>1, <1>7 DEF ThreadsOff, PendingSound, ControlSound, NothingLost, Start
<1>11. GeneratorSound'
  BY <1>2, <1>3, <1>7 DEF GeneratorSound, Start, NeedGen
<1>12. DictSound'
  BY <1>2, <1>3 DEF DictSound
<1>13. NothingDropped'
  BY <1>5 DEF NothingDropped, Queued, Ready, Start, NeedGen
<1>. QED
  BY <1>6, <1>8, <1>9, <1>10, <1>11, <1>12, <1>13 DEF IInv

LEMMA CrashInv == IInv /\ Crash => IInv'
<1> SUFFICES ASSUME IInv, Crash PROVE IInv'
  OBVIOUS
<1> USE PipelinedAssumption DEF Crash, Idle, files
<1>1. TypeOK'
  BY NoRow DEF IInv, TypeOK
<1>2. (OneRowPerTask /\ JudgedIsOnFile)'
  BY DEF IInv, OneRowPerTask, JudgedIsOnFile
<1>3. (ThreadsOff /\ PendingSound /\ GeneratorSound)'
  BY DEF ThreadsOff, PendingSound, GeneratorSound
<1>4. (NothingLost /\ QueueSound /\ DictSound /\ NothingDropped /\ ControlSound)'
  BY DEF NothingLost, QueueSound, DictSound, NothingDropped, ControlSound
<1>. QED
  BY <1>1, <1>2, <1>3, <1>4 DEF IInv

LEMMA ReportInv == IInv /\ Report => IInv'
<1> SUFFICES ASSUME IInv, Report PROVE IInv'
  OBVIOUS
<1> USE PipelinedAssumption DEF Report, Idle, files, shared, dicts
<1>1. TypeOK'
  BY DEF IInv, TypeOK
<1>2. (OneRowPerTask /\ JudgedIsOnFile)'
  BY DEF IInv, OneRowPerTask, JudgedIsOnFile
<1>3. (ThreadsOff /\ PendingSound /\ GeneratorSound)'
  BY DEF ThreadsOff, PendingSound, GeneratorSound
<1>4. (QueueSound /\ DictSound /\ NothingDropped /\ ControlSound)'
  BY DEF QueueSound, DictSound, NothingDropped, ControlSound
<1>5. NothingLost'
  <2> SUFFICES ASSUME ~ioFailed, NEW t \in Tasks
               PROVE  /\ predictions[t] # None => verification[t] # None
                      /\ ~skip_gen => predictions[t] # None
    BY DEF NothingLost
  <2>1. queue = <<>> /\ verFut[t] = "none" /\ genFut[t] \in {"none", "handled"}
    BY DEF IInv, ControlSound
  <2>2. ~Queued(t) /\ ~Putting(t)
    BY <2>1 DEF Queued, Putting
  <2>. QED
    BY <2>1, <2>2 DEF IInv, NothingDropped
<1>. QED
  BY <1>1, <1>2, <1>3, <1>4, <1>5 DEF IInv

LEMMA GenFutureDoneInv == ASSUME NEW t \in Tasks, IInv, GenFutureDone(t) PROVE IInv'
<1> USE PipelinedAssumption DEF GenFutureDone, files, proc, shared, dicts, verVars
<1>1. TypeOK'
  BY DEF IInv, TypeOK
<1>2. main = "running"
  BY DEF IInv, ThreadsOff
<1>3. (OneRowPerTask /\ JudgedIsOnFile)'
  BY DEF IInv, OneRowPerTask, JudgedIsOnFile
<1>4. (ThreadsOff /\ NothingLost /\ DictSound)'
  BY <1>2 DEF IInv, ThreadsOff, NothingLost, DictSound
<1>5. \A u \in Tasks : genFut'[u] = genFut[u] \/ (u = t /\ genFut[u] = "submitted" /\ genFut'[u] = "done")
  BY DEF IInv, TypeOK
<1>6. \A u \in Tasks : \A a : AwaitsVerdict(u, a) => AwaitsVerdict(u, a)'
  BY <1>5 DEF AwaitsVerdict, Putting
<1>7. QueueSound' /\ PendingSound'
  BY <1>2, <1>6 DEF IInv, QueueSound, PendingSound, TypeOK
<1>8. GeneratorSound'
  BY <1>5 DEF IInv, GeneratorSound, TypeOK
<1>9. NothingDropped'
  BY <1>2, <1>5 DEF IInv, NothingDropped, Queued, Putting
<1>10. ControlSound'
  BY <1>2, <1>5 DEF IInv, ControlSound
<1>. QED
  BY <1>1, <1>3, <1>4, <1>7, <1>8, <1>9, <1>10 DEF IInv

LEMMA GenNextInv == ASSUME NEW t \in Tasks, IInv, GenNext(t) PROVE IInv'
<1> USE PipelinedAssumption DEF GenNext, files, proc, shared, dicts, verVars
<1>1. TypeOK'
  BY DEF IInv, TypeOK
<1>2. main = "running"
  BY DEF IInv, ThreadsOff
<1>3. (OneRowPerTask /\ JudgedIsOnFile)'
  BY DEF IInv, OneRowPerTask, JudgedIsOnFile
<1>4. (ThreadsOff /\ NothingLost /\ DictSound /\ GeneratorSound)'
  BY <1>2 DEF IInv, ThreadsOff, NothingLost, DictSound, GeneratorSound
<1>5. \A u \in Tasks : ~Putting(u) /\ ~Putting(u)'
  BY DEF Putting
<1>6. \A u \in Tasks : \A a : AwaitsVerdict(u, a) => AwaitsVerdict(u, a)'
  BY <1>5 DEF AwaitsVerdict
<1>7. QueueSound' /\ PendingSound'
  BY <1>2, <1>6 DEF IInv, QueueSound, PendingSound, TypeOK
<1>8. NothingDropped'
  BY <1>2, <1>5 DEF IInv, NothingDropped, Queued
<1>9. ControlSound'
  BY <1>2 DEF IInv, ControlSound
<1>. QED
  BY <1>1, <1>3, <1>4, <1>7, <1>8, <1>9 DEF IInv

(* The row of a prediction: written once, when no other row can exist. *)
LEMMA PredictionRow ==
  ASSUME IInv, gpc = "write"
  PROVE  /\ main = "running" /\ gcur \in Tasks
         /\ genFut[gcur] = "done" /\ predFile[gcur] = <<>>
         /\ EntryAnswer(gcur) \in Answers
         /\ Append(predFile[gcur], EntryAnswer(gcur)) = <<EntryAnswer(gcur)>>
<1> USE PipelinedAssumption
<1>1. main = "running" /\ gcur \in Tasks /\ genFut[gcur] = "done" /\ predFile[gcur] = <<>>
  BY DEF IInv, ThreadsOff, GeneratorSound
<1>2. EntryAnswer(gcur) \in Answers
  BY <1>1 DEF IInv, GeneratorSound, TypeOK, EntryAnswer
<1>. QED
  BY <1>1, <1>2, FirstRow, NoRow

LEMMA GenWriteInv == IInv /\ GenWrite => IInv'
<1> SUFFICES ASSUME IInv, GenWrite PROVE IInv'
  OBVIOUS
<1> DEFINE c == gcur
           a == EntryAnswer(gcur)
<1>0. /\ main = "running" /\ c \in Tasks /\ genFut[c] = "done" /\ predFile[c] = <<>>
      /\ a \in Answers /\ Append(predFile[c], a) = <<a>>
  BY PredictionRow DEF GenWrite
<1> HIDE DEF a
<1>1. /\ predFile' = [predFile EXCEPT ![c] = <<a>>]
      /\ predictions' = [predictions EXCEPT ![c] = a]
      /\ genFut' = [genFut EXCEPT ![c] = "handled"]
      /\ gpc = "write" /\ gpc' = "put"
      /\ UNCHANGED <<verFile, proc, queue, gen_done, verification, gcur, genRes, verVars, ioFailed>>
  <2>1. Append(predFile[c], a) = <<a>>
    BY <1>0
  <2>. QED
    BY <2>1 DEF GenWrite, a
<1> USE PipelinedAssumption DEF proc, verVars
<1>2. TypeOK
  BY DEF IInv
<1>3. TypeOK'
  <2>1. <<a>> \in Seq(Answers)
    BY <1>0, OneRow
  <2>. QED
    BY <1>0, <1>1, <1>2, <2>1 DEF TypeOK
<1>4. Len(predFile'[c]) = 1 /\ predFile'[c] = <<a>> /\ \A u \in Tasks \ {c} : predFile'[u] = predFile[u]
  BY <1>0, <1>1, <1>2, OneRow DEF TypeOK
<1>5. (OneRowPerTask /\ JudgedIsOnFile)'
  <2>1. \A i \in 1..Len(verFile[c]) : verFile[c][i] = Legacy
    BY <1>0, <1>2, OneRow DEF IInv, JudgedIsOnFile, TypeOK
  <2>. QED
    BY <1>1, <1>4, <2>1 DEF IInv, OneRowPerTask, JudgedIsOnFile
<1>6. (ThreadsOff /\ NothingLost /\ DictSound)'
  BY <1>0, <1>1 DEF IInv, ThreadsOff, NothingLost, DictSound
<1>7. \A u \in Tasks : \A x : AwaitsVerdict(u, x) => u # c /\ AwaitsVerdict(u, x)'
  BY <1>0, <1>1, <1>2, <1>4 DEF AwaitsVerdict, Putting, TypeOK
<1>8. QueueSound' /\ PendingSound'
  BY <1>0, <1>1, <1>2, <1>7 DEF IInv, QueueSound, PendingSound, TypeOK
<1>9. GeneratorSound'
  BY <1>0, <1>1, <1>2, <1>4 DEF IInv, GeneratorSound, TypeOK
<1>10. NothingDropped'
  BY <1>0, <1>1, <1>2 DEF IInv, NothingDropped, Queued, Putting, TypeOK
<1>11. ControlSound'
  BY <1>0, <1>1 DEF IInv, ControlSound
<1>. QED
  BY <1>3, <1>5, <1>6, <1>8, <1>9, <1>10, <1>11 DEF IInv

LEMMA GenWriteFailsInv == IInv /\ GenWriteFails => IInv'
<1> SUFFICES ASSUME IInv, GenWriteFails PROVE IInv'
  OBVIOUS
<1> DEFINE c == gcur
           a == EntryAnswer(gcur)
<1>0. /\ main = "running" /\ c \in Tasks /\ genFut[c] = "done" /\ predFile[c] = <<>>
      /\ a \in Answers /\ Append(predFile[c], a) = <<a>>
  BY PredictionRow DEF GenWriteFails
<1> HIDE DEF a
<1>1. /\ predFile' \in {predFile, [predFile EXCEPT ![c] = <<a>>]}
      /\ predictions' = [predictions EXCEPT ![c] = a]
      /\ genFut' = [genFut EXCEPT ![c] = "handled"]
      /\ gpc = "write" /\ gpc' = "shutdown" /\ gcur' = None /\ ioFailed'
      /\ UNCHANGED <<verFile, proc, queue, gen_done, verification, genRes, verVars>>
  <2>1. Append(predFile[c], a) = <<a>>
    BY <1>0
  <2>. QED
    BY <2>1 DEF GenWriteFails, a
<1> USE PipelinedAssumption DEF proc, verVars
<1>2. TypeOK
  BY DEF IInv
<1>3. TypeOK'
  <2>1. <<a>> \in Seq(Answers)
    BY <1>0, OneRow
  <2>2. ioFailed' \in BOOLEAN
    BY DEF GenWriteFails
  <2>. QED
    <3>1. predFile' \in [Tasks -> Seq(Answers)]
      BY <1>0, <1>1, <1>2, <2>1 DEF TypeOK
    <3>2. predictions' \in [Tasks -> Answers \cup {None}]
      BY <1>0, <1>1, <1>2 DEF TypeOK
    <3>. QED
      BY <1>1, <1>2, <2>2, <3>1, <3>2 DEF TypeOK
<1>4. /\ predFile'[c] = <<>> \/ (Len(predFile'[c]) = 1 /\ predFile'[c] = <<a>>)
      /\ \A u \in Tasks \ {c} : predFile'[u] = predFile[u]
  BY <1>0, <1>1, <1>2, OneRow DEF TypeOK
<1>5. (OneRowPerTask /\ JudgedIsOnFile)'
  <2>1. \A i \in 1..Len(verFile[c]) : verFile[c][i] = Legacy
    BY <1>0, <1>2, OneRow DEF IInv, JudgedIsOnFile, TypeOK
  <2>2. Len(predFile'[c]) <= 1
    <3>1. CASE predFile'[c] = <<>>
      BY <3>1, NoRow
    <3>2. CASE Len(predFile'[c]) = 1
      BY <3>2
    <3>. QED
      BY <1>4, <3>1, <3>2
  <2>3. OneRowPerTask'
    BY <1>1, <1>4, <2>2 DEF IInv, OneRowPerTask
  <2>4. JudgedIsOnFile'
    <3>1. JudgedIsOnFile /\ verFile' = verFile
      BY <1>1 DEF IInv
    <3>. QED
      BY <1>4, <2>1, <3>1 DEF JudgedIsOnFile
  <2>. QED
    BY <2>3, <2>4
<1>6. (ThreadsOff /\ NothingLost /\ DictSound)'
  BY <1>0, <1>1 DEF IInv, ThreadsOff, NothingLost, DictSound
<1>7. \A u \in Tasks : \A x : AwaitsVerdict(u, x) => u # c /\ AwaitsVerdict(u, x)'
  BY <1>0, <1>1, <1>2, <1>4 DEF AwaitsVerdict, Putting, TypeOK
<1>8. QueueSound' /\ PendingSound'
  <2>1. UNCHANGED <<main, queue, verFut, verArg, doneFuts>> /\ main = "running"
    BY <1>0, <1>1
  <2>2. /\ QueueSound /\ PendingSound
        /\ doneFuts \subseteq Tasks
        /\ \A i \in 1..Len(queue) : queue[i][1] \in Tasks
    BY <1>2 DEF IInv, TypeOK
  <2>3. QueueSound'
    BY <1>7, <2>1, <2>2 DEF QueueSound
  <2>4. PendingSound'
    BY <1>7, <2>1, <2>2 DEF PendingSound
  <2>. QED
    BY <2>3, <2>4
<1>9. GeneratorSound'
  BY <1>0, <1>1, <1>2, <1>4 DEF IInv, GeneratorSound, TypeOK
<1>10. NothingDropped'
  BY <1>1 DEF NothingDropped
<1>11. ControlSound'
  BY <1>0, <1>1 DEF IInv, ControlSound
<1>. QED
  BY <1>3, <1>5, <1>6, <1>8, <1>9, <1>10, <1>11 DEF IInv

LEMMA GenPutInv == IInv /\ GenPut => IInv'
<1> SUFFICES ASSUME IInv, GenPut PROVE IInv'
  OBVIOUS
<1> USE PipelinedAssumption DEF files, proc, dicts, verVars
<1>1. TypeOK
  BY DEF IInv
<1>2. PICK c \in Tasks, p \in Answers :
        /\ c = gcur /\ p = predictions[c]
        /\ main = "running" /\ genFut[c] = "handled" /\ predFile[c] = <<p>>
  <2>1. /\ main = "running" /\ gcur \in Tasks /\ genFut[gcur] = "handled"
        /\ predFile[gcur] = <<predictions[gcur]>>
    BY DEF GenPut, IInv, ThreadsOff, GeneratorSound
  <2>2. predFile[gcur] \in Seq(Answers)
    BY <1>1, <2>1 DEF TypeOK
  <2>3. <<predictions[gcur]>> \in Seq(Answers)
    BY <2>1, <2>2
  <2>4. Len(<<predictions[gcur]>>) = 1 /\ <<predictions[gcur]>>[1] = predictions[gcur]
    OBVIOUS
  <2>. QED
    BY <2>1, <2>3, <2>4
<1> DEFINE new == verification[c] = None
<1>3. /\ queue' \in Seq(Tasks \X Answers)
      /\ Len(queue) \in Nat
      /\ Len(queue') = Len(queue) + (IF new THEN 1 ELSE 0)
      /\ \A i \in 1..Len(queue) : queue'[i] = queue[i]
      /\ new => queue'[Len(queue) + 1] = <<c, p>>
  BY <1>1, <1>2, Enqueue DEF GenPut, TypeOK
<1>4. TypeOK'
  BY <1>1, <1>3 DEF GenPut, TypeOK
<1>5. (OneRowPerTask /\ JudgedIsOnFile)'
  BY DEF GenPut, IInv, OneRowPerTask, JudgedIsOnFile
<1>6. (ThreadsOff /\ NothingLost /\ DictSound /\ GeneratorSound)'
  BY <1>2 DEF GenPut, IInv, ThreadsOff, NothingLost, DictSound, GeneratorSound
<1>7. \A u \in Tasks : \A x : AwaitsVerdict(u, x) => u # c /\ AwaitsVerdict(u, x)'
  BY <1>2 DEF GenPut, AwaitsVerdict, Putting
<1>8. PendingSound'
  BY <1>7 DEF GenPut, IInv, PendingSound
<1>9. new => AwaitsVerdict(c, p)' /\ verFut'[c] = "none"
  <2>1. verFut[c] = "none"
    BY <1>1, <1>2, <1>7 DEF IInv, PendingSound, TypeOK
  <2>2. new => verFile[c] = <<>>
    BY <1>2 DEF IInv, DictSound
  <2>. QED
    BY <1>2, <2>1, <2>2 DEF GenPut, AwaitsVerdict, Putting
<1>10. \A i \in 1..Len(queue) :
         /\ queue[i][1] \in Tasks
         /\ AwaitsVerdict(queue[i][1], queue[i][2])
         /\ verFut[queue[i][1]] = "none"
         /\ \A j \in 1..Len(queue) : queue[i][1] = queue[j][1] => i = j
  <2>1. \A i \in 1..Len(queue) : queue[i] \in Tasks \X Answers
    BY <1>1 DEF TypeOK
  <2>. QED
    BY <1>2, <2>1 DEF IInv, QueueSound
<1>11. QueueSound'
  <2> SUFFICES ASSUME NEW i \in 1..Len(queue')
               PROVE  /\ AwaitsVerdict(queue[i][1], queue[i][2])'
                      /\ verFut'[queue'[i][1]] = "none"
                      /\ \A j \in 1..Len(queue') : queue'[i][1] = queue'[j][1] => i = j
    BY DEF QueueSound
  <2>1. PICK u, x : u = queue'[i][1] /\ x = queue'[i][2]
    OBVIOUS
  <2>2. \A j \in 1..Len(queue') : j \in 1..Len(queue) \/ (new /\ j = Len(queue) + 1)
    BY <1>3
  <2>3. \A j \in 1..Len(queue) : queue[j][1] # c
    BY <1>7, <1>10
  <2>4. AwaitsVerdict(u, x)' /\ verFut'[u] = "none"
    <3>1. CASE i \in 1..Len(queue)
      BY <1>3, <1>7, <1>10, <2>1, <3>1 DEF GenPut
    <3>2. CASE new /\ i = Len(queue) + 1
      BY <1>3, <1>9, <2>1, <3>2
    <3>. QED
      BY <2>2, <3>1, <3>2
  <2>5. \A j \in 1..Len(queue') : queue'[i][1] = queue'[j][1] => i = j
    <3> SUFFICES ASSUME NEW j \in 1..Len(queue'), queue'[i][1] = queue'[j][1]
                 PROVE  i = j
      OBVIOUS
    <3>1. \A k \in 1..Len(queue') : queue'[k][1] = c <=> k \notin 1..Len(queue)
      BY <1>3, <2>2, <2>3
    <3>2. CASE i \in 1..Len(queue) /\ j \in 1..Len(queue)
      BY <1>3, <1>10, <3>2
    <3>. QED
      BY <2>2, <3>1, <3>2
  <2>. QED
    BY <2>1, <2>4, <2>5
<1>12. NothingDropped'
  <2>1. \A u \in Tasks : Queued(u) => Queued(u)'
    BY <1>3 DEF Queued
  <2>2. new => Queued(c)'
    BY <1>3 DEF Queued
  <2>. QED
    BY <1>2, <2>1, <2>2 DEF GenPut, IInv, NothingDropped, Putting
<1>13. ControlSound'
  BY <1>2 DEF GenPut, IInv, ControlSound
<1>. QED
  BY <1>4, <1>5, <1>6, <1>8, <1>11, <1>12, <1>13 DEF IInv

LEMMA GenFinishInv == IInv /\ GenFinish => IInv'
<1> SUFFICES ASSUME IInv, GenFinish PROVE IInv'
  OBVIOUS
<1> USE PipelinedAssumption DEF GenFinish, files, proc, dicts, verVars
<1>1. TypeOK'
  BY DEF IInv, TypeOK
<1>2. main = "running"
  BY DEF IInv, ThreadsOff
<1>3. (OneRowPerTask /\ JudgedIsOnFile)'
  BY DEF IInv, OneRowPerTask, JudgedIsOnFile
<1>4. (ThreadsOff /\ NothingLost /\ DictSound /\ GeneratorSound)'
  BY <1>2 DEF IInv, ThreadsOff, NothingLost, DictSound, GeneratorSound
<1>5. \A u \in Tasks : ~Putting(u) /\ ~Putting(u)'
  BY DEF Putting
<1>6. \A u \in Tasks : \A a : AwaitsVerdict(u, a) => AwaitsVerdict(u, a)'
  BY <1>5 DEF AwaitsVerdict
<1>7. QueueSound' /\ PendingSound'
  <2>1. \A i \in 1..Len(queue) : queue[i][1] \in Tasks
    BY DEF IInv, TypeOK
  <2>2. QueueSound'
    BY <1>2, <1>6, <2>1 DEF IInv, QueueSound
  <2>. QED
    BY <1>6, <2>2 DEF IInv, PendingSound
<1>8. NothingDropped'
  BY <1>2, <1>5 DEF IInv, NothingDropped, Queued
<1>9. ControlSound'
  BY <1>2 DEF IInv, ControlSound
<1>. QED
  BY <1>1, <1>3, <1>4, <1>7, <1>8, <1>9 DEF IInv

LEMMA VerSubmitInv == IInv /\ VerSubmit => IInv'
<1> SUFFICES ASSUME IInv, VerSubmit PROVE IInv'
  OBVIOUS
<1> USE PipelinedAssumption DEF files, proc, dicts, genVars
<1>1. TypeOK /\ main = "running"
  BY DEF IInv, ThreadsOff, VerSubmit
<1>2. /\ queue' \in Seq(Tasks \X Answers)
      /\ Len(queue) \in Nat /\ 1 \in 1..Len(queue)
      /\ queue[1] \in Tasks \X Answers
      /\ Len(queue') = Len(queue) - 1
      /\ \A i \in 1..Len(queue') : queue'[i] = queue[i + 1] /\ i + 1 \in 1..Len(queue)
      /\ \A i \in 1..Len(queue) : i = 1 \/ i - 1 \in 1..Len(queue')
  BY <1>1, Dequeue DEF VerSubmit, TypeOK
<1>3. PICK t \in Tasks, a \in Answers : queue[1] = <<t, a>>
  BY <1>2
<1>4. /\ verFut' = [verFut EXCEPT ![t] = "submitted"]
      /\ verArg' = [verArg EXCEPT ![t] = a]
  <2>1. Head(queue) = <<t, a>>
    BY <1>1, <1>3, Dequeue DEF VerSubmit, TypeOK
  <2>2. Head(queue)[1] = t /\ Head(queue)[2] = a
    BY <2>1
  <2>. QED
    BY <2>2 DEF VerSubmit
<1>5. TypeOK'
  BY <1>1, <1>2, <1>4 DEF VerSubmit, TypeOK
<1>6. AwaitsVerdict(t, a) /\ verFut[t] = "none"
  BY <1>1, <1>2, <1>3 DEF IInv, QueueSound
<1>7. \A i \in 1..Len(queue') :
        /\ queue'[i][1] \in Tasks \ {t}
        /\ AwaitsVerdict(queue[i + 1][1], queue[i + 1][2])
        /\ verFut'[queue'[i][1]] = "none"
        /\ \A j \in 1..Len(queue') : queue'[i][1] = queue'[j][1] => i = j
  <2>1. \A i \in 1..Len(queue) : queue[i] \in Tasks \X Answers
    BY <1>1 DEF TypeOK
  <2>2. \A i \in 1..Len(queue) :
          /\ AwaitsVerdict(queue[i][1], queue[i][2])
          /\ verFut[queue[i][1]] = "none"
          /\ \A j \in 1..Len(queue) : queue[i][1] = queue[j][1] => i = j
    BY <1>1 DEF IInv, QueueSound
  <2> SUFFICES ASSUME NEW i \in 1..Len(queue')
               PROVE  /\ queue'[i][1] \in Tasks \ {t}
                      /\ AwaitsVerdict(queue[i + 1][1], queue[i + 1][2])
                      /\ verFut'[queue'[i][1]] = "none"
                      /\ \A j \in 1..Len(queue') : queue'[i][1] = queue'[j][1] => i = j
    OBVIOUS
  <2>3. queue'[i] = queue[i + 1] /\ i + 1 \in 1..Len(queue) /\ i + 1 # 1
    BY <1>2
  <2>4. queue'[i][1] \in Tasks \ {t}
    BY <1>2, <1>3, <2>1, <2>2, <2>3
  <2>5. \A j \in 1..Len(queue') : queue'[i][1] = queue'[j][1] => i = j
    BY <1>2, <2>2, <2>3
  <2>. QED
    BY <1>1, <1>4, <2>2, <2>3, <2>4, <2>5 DEF TypeOK
<1>8. \A u, x : AwaitsVerdict(u, x) => AwaitsVerdict(u, x)'
  BY DEF VerSubmit, AwaitsVerdict, Putting
<1>9. QueueSound'
  <2> SUFFICES ASSUME NEW i \in 1..Len(queue')
               PROVE  AwaitsVerdict(queue[i][1], queue[i][2])'
    BY <1>7 DEF QueueSound
  <2>1. PICK u, x : u = queue'[i][1] /\ x = queue'[i][2]
    OBVIOUS
  <2>. QED
    BY <1>2, <1>7, <1>8, <2>1
<1>10. PendingSound'
  <2>1. \A u \in Tasks : verFut'[u] # "none" => AwaitsVerdict(u, verArg'[u])
    BY <1>1, <1>4, <1>6 DEF IInv, PendingSound, TypeOK
  <2>2. ASSUME NEW u \in Tasks, verFut'[u] # "none" PROVE AwaitsVerdict(u, verArg[u])'
    <3>1. PICK x : x = verArg'[u]
      OBVIOUS
    <3>. QED
      BY <1>8, <2>1, <2>2, <3>1
  <2>3. \A u \in doneFuts' : verFut'[u] = "done"
    BY <1>1, <1>4, <1>6 DEF VerSubmit, IInv, PendingSound, TypeOK
  <2>. QED
    BY <2>2, <2>3 DEF PendingSound
<1>11. (OneRowPerTask /\ JudgedIsOnFile)'
  BY DEF VerSubmit, IInv, OneRowPerTask, JudgedIsOnFile
<1>12. (ThreadsOff /\ NothingLost /\ DictSound /\ GeneratorSound)'
  BY <1>1 DEF VerSubmit, IInv, ThreadsOff, NothingLost, DictSound, GeneratorSound
<1>13. NothingDropped'
  <2>1. \A u \in Tasks : Queued(u) => u = t \/ Queued(u)'
    <3> SUFFICES ASSUME NEW u \in Tasks, NEW i \in 1..Len(queue),
                        queue[i][1] = u, u # t
                 PROVE  \E k \in 1..Len(queue') : queue'[k][1] = u
      BY DEF Queued
    <3>1. i - 1 \in 1..Len(queue') /\ queue'[i - 1] = queue[i]
      BY <1>2, <1>3
    <3>. QED
      BY <3>1
  <2>. QED
    BY <1>1, <1>4, <2>1 DEF VerSubmit, IInv, NothingDropped, Putting, TypeOK
<1>14. ControlSound'
  BY <1>1 DEF VerSubmit, IInv, ControlSound
<1>. QED
  BY <1>5, <1>9, <1>10, <1>11, <1>12, <1>13, <1>14 DEF IInv

LEMMA VerCollectInv == ASSUME IInv, VerCollect PROVE IInv'
<1> USE PipelinedAssumption DEF files, proc, shared, dicts, genVars
<1>1. TypeOK /\ main = "running"
  BY DEF VerCollect, IInv, ThreadsOff
<1>2. TypeOK'
  BY <1>1 DEF VerCollect, TypeOK
<1>3. (OneRowPerTask /\ JudgedIsOnFile)'
  BY DEF VerCollect, IInv, OneRowPerTask, JudgedIsOnFile
<1>4. (ThreadsOff /\ NothingLost /\ DictSound /\ GeneratorSound)'
  BY <1>1 DEF VerCollect, IInv, ThreadsOff, NothingLost, DictSound, GeneratorSound
<1>5. \A u, x : AwaitsVerdict(u, x) => AwaitsVerdict(u, x)'
  BY DEF VerCollect, AwaitsVerdict, Putting
<1>6. \A u \in Tasks : verFut'[u] = "none" <=> verFut[u] = "none"
  BY <1>1 DEF VerCollect, TypeOK
<1>7. QueueSound'
  <2>1. \A i \in 1..Len(queue) : queue[i][1] \in Tasks
    BY <1>1 DEF TypeOK
  <2>. QED
    BY <1>1, <1>5, <1>6, <2>1 DEF VerCollect, IInv, QueueSound
<1>8. PendingSound'
  BY <1>1, <1>5, <1>6 DEF VerCollect, IInv, PendingSound, TypeOK
<1>9. NothingDropped'
  BY <1>1, <1>6 DEF VerCollect, IInv, NothingDropped, Queued, Putting
<1>10. ControlSound'
  BY <1>1, <1>6 DEF VerCollect, IInv, ControlSound, TypeOK
<1>. QED
  BY <1>2, <1>3, <1>4, <1>7, <1>8, <1>9, <1>10 DEF IInv

LEMMA VerFutureDoneInv == ASSUME NEW t \in Tasks, IInv, VerFutureDone(t) PROVE IInv'
<1> USE PipelinedAssumption DEF files, proc, shared, dicts, genVars
<1>1. TypeOK /\ main = "running"
  BY DEF VerFutureDone, IInv, ThreadsOff
<1>2. TypeOK'
  BY <1>1 DEF VerFutureDone, TypeOK
<1>3. (OneRowPerTask /\ JudgedIsOnFile)'
  BY DEF VerFutureDone, IInv, OneRowPerTask, JudgedIsOnFile
<1>4. (ThreadsOff /\ NothingLost /\ DictSound /\ GeneratorSound)'
  BY <1>1 DEF VerFutureDone, IInv, ThreadsOff, NothingLost, DictSound, GeneratorSound
<1>5. \A u, x : AwaitsVerdict(u, x) => AwaitsVerdict(u, x)'
  BY DEF VerFutureDone, AwaitsVerdict, Putting
<1>6. \A u \in Tasks : verFut'[u] = "none" <=> verFut[u] = "none"
  BY <1>1 DEF VerFutureDone, TypeOK
<1>7. QueueSound'
  <2>1. \A i \in 1..Len(queue) : queue[i][1] \in Tasks
    BY <1>1 DEF TypeOK
  <2>. QED
    BY <1>1, <1>5, <1>6, <2>1 DEF VerFutureDone, IInv, QueueSound
<1>8. PendingSound'
  BY <1>1, <1>5, <1>6 DEF VerFutureDone, IInv, PendingSound, TypeOK
<1>9. NothingDropped'
  BY <1>1, <1>6 DEF VerFutureDone, IInv, NothingDropped, Queued, Putting
<1>10. ControlSound'
  BY <1>1, <1>6 DEF VerFutureDone, IInv, ControlSound, TypeOK
<1>. QED
  BY <1>2, <1>3, <1>4, <1>7, <1>8, <1>9, <1>10 DEF IInv

LEMMA VerShutdownInv == ASSUME IInv, VerShutdown PROVE IInv'
<1> USE PipelinedAssumption DEF files, proc, shared, dicts, genVars
<1>1. TypeOK /\ main = "running"
  BY DEF VerShutdown, IInv, ThreadsOff
<1>2. TypeOK'
  BY <1>1 DEF VerShutdown, TypeOK
<1>3. (OneRowPerTask /\ JudgedIsOnFile)'
  BY DEF VerShutdown, IInv, OneRowPerTask, JudgedIsOnFile
<1>4. (ThreadsOff /\ NothingLost /\ DictSound /\ GeneratorSound)'
  BY <1>1 DEF VerShutdown, IInv, ThreadsOff, NothingLost, DictSound, GeneratorSound
<1>5. \A u, x : AwaitsVerdict(u, x) => AwaitsVerdict(u, x)'
  BY DEF VerShutdown, AwaitsVerdict, Putting
<1>6. \A u \in Tasks : verFut'[u] = "none" <=> verFut[u] = "none"
  BY <1>1 DEF VerShutdown, TypeOK
<1>7. QueueSound'
  <2>1. \A i \in 1..Len(queue) : queue[i][1] \in Tasks
    BY <1>1 DEF TypeOK
  <2>. QED
    BY <1>1, <1>5, <1>6, <2>1 DEF VerShutdown, IInv, QueueSound
<1>8. PendingSound'
  BY <1>1, <1>5, <1>6 DEF VerShutdown, IInv, PendingSound, TypeOK
<1>9. NothingDropped'
  BY <1>1, <1>6 DEF VerShutdown, IInv, NothingDropped, Queued, Putting
<1>10. ControlSound'
  BY <1>1, <1>6 DEF VerShutdown, IInv, ControlSound, TypeOK
<1>. QED
  BY <1>2, <1>3, <1>4, <1>7, <1>8, <1>9, <1>10 DEF IInv

LEMMA VerReadGenDoneInv == ASSUME IInv, VerReadGenDone PROVE IInv'
<1> USE PipelinedAssumption DEF files, proc, shared, dicts, genVars
<1>1. TypeOK /\ main = "running"
  BY DEF VerReadGenDone, IInv, ThreadsOff
<1>2. TypeOK'
  BY <1>1 DEF VerReadGenDone, TypeOK
<1>3. (OneRowPerTask /\ JudgedIsOnFile)'
  BY DEF VerReadGenDone, IInv, OneRowPerTask, JudgedIsOnFile
<1>4. (ThreadsOff /\ NothingLost /\ DictSound /\ GeneratorSound)'
  BY <1>1 DEF VerReadGenDone, IInv, ThreadsOff, NothingLost, DictSound, GeneratorSound
<1>5. \A u, x : AwaitsVerdict(u, x) => AwaitsVerdict(u, x)'
  BY DEF VerReadGenDone, AwaitsVerdict, Putting
<1>6. \A u \in Tasks : verFut'[u] = "none" <=> verFut[u] = "none"
  BY <1>1 DEF VerReadGenDone, TypeOK
<1>7. QueueSound'
  <2>1. \A i \in 1..Len(queue) : queue[i][1] \in Tasks
    BY <1>1 DEF TypeOK
  <2>. QED
    BY <1>1, <1>5, <1>6, <2>1 DEF VerReadGenDone, IInv, QueueSound
<1>8. PendingSound'
  BY <1>1, <1>5, <1>6 DEF VerReadGenDone, IInv, PendingSound, TypeOK
<1>9. NothingDropped'
  BY <1>1, <1>6 DEF VerReadGenDone, IInv, NothingDropped, Queued, Putting
<1>10. ControlSound'
  BY <1>1, <1>6 DEF VerReadGenDone, IInv, ControlSound, TypeOK
<1>. QED
  BY <1>2, <1>3, <1>4, <1>7, <1>8, <1>9, <1>10 DEF IInv

LEMMA VerReadQueueInv == ASSUME IInv, VerReadQueue PROVE IInv'
<1> USE PipelinedAssumption DEF files, proc, shared, dicts, genVars
<1>1. TypeOK /\ main = "running"
  BY DEF VerReadQueue, IInv, ThreadsOff
<1>2. TypeOK'
  BY <1>1 DEF VerReadQueue, TypeOK
<1>3. (OneRowPerTask /\ JudgedIsOnFile)'
  BY DEF VerReadQueue, IInv, OneRowPerTask, JudgedIsOnFile
<1>4. (ThreadsOff /\ NothingLost /\ DictSound /\ GeneratorSound)'
  BY <1>1 DEF VerReadQueue, IInv, ThreadsOff, NothingLost, DictSound, GeneratorSound
<1>5. \A u, x : AwaitsVerdict(u, x) => AwaitsVerdict(u, x)'
  BY DEF VerReadQueue, AwaitsVerdict, Putting
<1>6. \A u \in Tasks : verFut'[u] = "none" <=> verFut[u] = "none"
  BY <1>1 DEF VerReadQueue, TypeOK
<1>7. QueueSound'
  <2>1. \A i \in 1..Len(queue) : queue[i][1] \in Tasks
    BY <1>1 DEF TypeOK
  <2>. QED
    BY <1>1, <1>5, <1>6, <2>1 DEF VerReadQueue, IInv, QueueSound
<1>8. PendingSound'
  BY <1>1, <1>5, <1>6 DEF VerReadQueue, IInv, PendingSound, TypeOK
<1>9. NothingDropped'
  BY <1>1, <1>6 DEF VerReadQueue, IInv, NothingDropped, Queued, Putting
<1>10. ControlSound'
  BY <1>1, <1>6 DEF VerReadQueue, IInv, ControlSound, TypeOK
<1>. QED
  BY <1>2, <1>3, <1>4, <1>7, <1>8, <1>9, <1>10 DEF IInv

(* The verdict of a pending task: the first row it gets, for the answer on *)
(* file.                                                                   *)
LEMMA VerdictRow ==
  ASSUME NEW t \in Tasks, IInv, vpc = "record", t \in doneFuts
  PROVE  /\ main = "running" /\ verFut[t] = "done"
         /\ AwaitsVerdict(t, verArg[t])
         /\ verArg[t] \in Answers
         /\ Append(verFile[t], verArg[t]) = <<verArg[t]>>
<1> USE PipelinedAssumption
<1>1. main = "running" /\ verFut[t] = "done" /\ AwaitsVerdict(t, verArg[t])
  BY DEF IInv, ThreadsOff, PendingSound
<1>2. verArg[t] \in Answers
  <2>1. predFile[t] \in Seq(Answers) /\ predFile[t] = <<verArg[t]>>
    BY <1>1 DEF AwaitsVerdict, IInv, TypeOK
  <2>2. Len(<<verArg[t]>>) = 1 /\ <<verArg[t]>>[1] = verArg[t]
    OBVIOUS
  <2>. QED
    BY <2>1, <2>2
<1>3. verFile[t] = <<>>
  BY <1>1 DEF AwaitsVerdict
<1>. QED
  BY <1>1, <1>2, <1>3, FirstRow, NoRow

LEMMA VerRecordInv == ASSUME NEW t \in Tasks, IInv, VerRecord(t) PROVE IInv'
<1> USE PipelinedAssumption DEF files, proc, shared, dicts, genVars
<1>1. PICK a \in Answers : a = verArg[t]
  BY VerdictRow DEF VerRecord
<1>2. /\ TypeOK /\ main = "running" /\ verFut[t] = "done"
      /\ AwaitsVerdict(t, a) /\ Append(verFile[t], a) = <<a>>
  BY <1>1, VerdictRow DEF VerRecord, IInv
<1>3. /\ doneFuts' = doneFuts \ {t}
      /\ verFut' = [verFut EXCEPT ![t] = "none"]
      /\ verification' = [verification EXCEPT ![t] = a]
      /\ verFile' = [verFile EXCEPT ![t] = <<a>>]
      /\ vpc = "record"
      /\ UNCHANGED <<predFile, proc, queue, gen_done, predictions, genVars, vpc,
                     verArg, ioFailed>>
  <2>1. Append(verFile[t], verArg[t]) = <<a>> /\ verArg[t] = a
    BY <1>1, <1>2
  <2>. QED
    BY <2>1 DEF VerRecord
<1>4. TypeOK'
  <2>1. <<a>> \in Seq(Answers \cup {Legacy})
    BY OneRow
  <2>. QED
    BY <1>2, <1>3, <2>1 DEF TypeOK
<1>5. Len(verFile'[t]) = 1 /\ verFile'[t] = <<a>> /\ \A u \in Tasks \ {t} : verFile'[u] = verFile[u]
  BY <1>2, <1>3, OneRow DEF TypeOK
<1>6. (OneRowPerTask /\ JudgedIsOnFile)'
  <2>1. OneRowPerTask'
    BY <1>3, <1>5 DEF IInv, OneRowPerTask
  <2>2. \A i \in 1..Len(verFile'[t]) : verFile'[t][i] = a
    BY <1>5, OneRow
  <2>3. predFile[t] = <<a>>
    BY <1>2 DEF AwaitsVerdict
  <2>. QED
    BY <1>3, <1>5, <2>1, <2>2, <2>3 DEF IInv, JudgedIsOnFile
<1>7. (ThreadsOff /\ NothingLost /\ GeneratorSound)'
  BY <1>2, <1>3 DEF IInv, ThreadsOff, NothingLost, GeneratorSound
<1>8. DictSound'
  BY <1>2, <1>3, <1>5 DEF IInv, DictSound, TypeOK
<1>9. \A u \in Tasks \ {t} : \A x : AwaitsVerdict(u, x) => AwaitsVerdict(u, x)'
  BY <1>3, <1>5 DEF AwaitsVerdict, Putting
<1>10. QueueSound'
  <2>1. ASSUME NEW i \in 1..Len(queue) PROVE queue[i][1] \in Tasks \ {t}
    <3>1. queue[i] \in Tasks \X Answers
      BY <1>2 DEF TypeOK
    <3>2. verFut[queue[i][1]] = "none"
      BY <1>2 DEF IInv, QueueSound
    <3>. QED
      BY <1>2, <3>1, <3>2
  <2>2. \A u \in Tasks \ {t} : verFut'[u] = verFut[u]
    BY <1>3
  <2>. QED
    BY <1>2, <1>3, <1>9, <2>1, <2>2 DEF IInv, QueueSound
<1>11. PendingSound'
  <2>1. \A u \in Tasks \ {t} : verFut'[u] = verFut[u]
    BY <1>3
  <2>2. verFut'[t] = "none"
    BY <1>2, <1>3 DEF TypeOK
  <2>. QED
    BY <1>2, <1>3, <1>9, <2>1, <2>2 DEF IInv, PendingSound, TypeOK
<1>12. NothingDropped'
  BY <1>2, <1>3 DEF IInv, NothingDropped, Queued, Putting, TypeOK
<1>13. ControlSound'
  BY <1>2, <1>3 DEF IInv, ControlSound, TypeOK
<1>. QED
  BY <1>4, <1>6, <1>7, <1>8, <1>10, <1>11, <1>12, <1>13 DEF IInv

LEMMA VerWriteFailsInv == ASSUME NEW t \in Tasks, IInv, VerWriteFails(t) PROVE IInv'
<1> USE PipelinedAssumption DEF files, proc, shared, dicts, genVars
<1>1. PICK a \in Answers : a = verArg[t]
  BY VerdictRow DEF VerWriteFails
<1>2. /\ TypeOK /\ main = "running" /\ verFut[t] = "done"
      /\ AwaitsVerdict(t, a) /\ Append(verFile[t], a) = <<a>>
  BY <1>1, VerdictRow DEF VerWriteFails, IInv
<1>3. /\ doneFuts' = {}
      /\ verFut' = [verFut EXCEPT ![t] = "none"]
      /\ verification' = [verification EXCEPT ![t] = a]
      /\ verFile' \in {verFile, [verFile EXCEPT ![t] = <<a>>]}
      /\ vpc = "record" /\ vpc' = "shutdown" /\ ioFailed'
      /\ UNCHANGED <<predFile, proc, queue, gen_done, predictions, genVars, verArg>>
  <2>1. Append(verFile[t], verArg[t]) = <<a>> /\ verArg[t] = a
    BY <1>1, <1>2
  <2>. QED
    BY <2>1 DEF VerWriteFails
<1>4. TypeOK'
  <2>1. <<a>> \in Seq(Answers \cup {Legacy})
    BY OneRow
  <2>2. verFile' \in [Tasks -> Seq(Answers \cup {Legacy})]
    BY <1>2, <1>3, <2>1 DEF TypeOK
  <2>3. ioFailed' \in BOOLEAN
    BY DEF VerWriteFails
  <2>. QED
    BY <1>2, <1>3, <2>2, <2>3 DEF TypeOK
<1>5. /\ Len(verFile'[t]) <= 1
      /\ \A i \in 1..Len(verFile'[t]) : verFile'[t][i] = a
      /\ \A u \in Tasks \ {t} : verFile'[u] = verFile[u]
  <2>1. verFile[t] = <<>>
    BY <1>2 DEF AwaitsVerdict
  <2>2. CASE verFile' = verFile
    BY <2>1, <2>2, NoRow
  <2>3. CASE verFile' = [verFile EXCEPT ![t] = <<a>>]
    BY <1>2, <2>3, OneRow DEF TypeOK
  <2>. QED
    BY <1>3, <2>2, <2>3
<1>6. (OneRowPerTask /\ JudgedIsOnFile)'
  <2>1. OneRowPerTask'
    BY <1>3, <1>5 DEF IInv, OneRowPerTask
  <2>2. predFile[t] = <<a>>
    BY <1>2 DEF AwaitsVerdict
  <2>. QED
    BY <1>3, <1>5, <2>1, <2>2 DEF IInv, JudgedIsOnFile
<1>7. (ThreadsOff /\ NothingLost /\ GeneratorSound)'
  BY <1>2, <1>3 DEF IInv, ThreadsOff, NothingLost, GeneratorSound
<1>8. DictSound'
  BY <1>2, <1>3, <1>5 DEF IInv, DictSound, TypeOK
<1>9. \A u \in Tasks \ {t} : \A x : AwaitsVerdict(u, x) => AwaitsVerdict(u, x)'
  BY <1>3, <1>5 DEF AwaitsVerdict, Putting
<1>10. QueueSound'
  <2>1. ASSUME NEW i \in 1..Len(queue) PROVE queue[i][1] \in Tasks \ {t}
    <3>1. queue[i] \in Tasks \X Answers
      BY <1>2 DEF TypeOK
    <3>2. verFut[queue[i][1]] = "none"
      BY <1>2 DEF IInv, QueueSound
    <3>. QED
      BY <1>2, <3>1, <3>2
  <2>2. \A u \in Tasks \ {t} : verFut'[u] = verFut[u]
    BY <1>3
  <2>. QED
    BY <1>2, <1>3, <1>9, <2>1, <2>2 DEF IInv, QueueSound
<1>11. PendingSound'
  <2>1. \A u \in Tasks \ {t} : verFut'[u] = verFut[u]
    BY <1>3
  <2>2. verFut'[t] = "none"
    BY <1>2, <1>3 DEF TypeOK
  <2>. QED
    BY <1>2, <1>3, <1>9, <2>1, <2>2 DEF IInv, PendingSound, TypeOK
<1>12. NothingDropped'
  BY <1>3 DEF NothingDropped
<1>13. ControlSound'
  BY <1>2, <1>3 DEF IInv, ControlSound, TypeOK
<1>. QED
  BY <1>4, <1>6, <1>7, <1>8, <1>10, <1>11, <1>12, <1>13 DEF IInv

LEMMA StutterInv == IInv /\ UNCHANGED vars => IInv'
<1> SUFFICES ASSUME IInv, UNCHANGED vars PROVE IInv'
  OBVIOUS
<1> USE DEF vars, files, proc, shared, dicts, genVars, verVars
<1>1. (TypeOK /\ OneRowPerTask /\ JudgedIsOnFile /\ NothingLost)'
  BY DEF IInv, TypeOK, OneRowPerTask, JudgedIsOnFile, NothingLost
<1>2. (ThreadsOff /\ GeneratorSound /\ DictSound /\ ControlSound)'
  BY DEF IInv, ThreadsOff, GeneratorSound, DictSound, ControlSound
<1>3. (QueueSound /\ PendingSound)'
  BY DEF IInv, QueueSound, PendingSound, AwaitsVerdict, Putting
<1>4. NothingDropped'
  BY DEF IInv, NothingDropped, Queued, Putting
<1>. QED
  BY <1>1, <1>2, <1>3, <1>4 DEF IInv

LEMMA NextInv == IInv /\ [Next]_vars => IInv'
<1> SUFFICES ASSUME IInv, [Next]_vars PROVE IInv'
  OBVIOUS
<1>1. CASE Start \/ Crash \/ Report
  BY <1>1, StartInv, CrashInv, ReportInv
<1>2. CASE Generator
  BY <1>2, GenNextInv, GenWriteInv, GenWriteFailsInv, GenPutInv, GenFinishInv DEF Generator
<1>3. CASE Verifier
  BY <1>3, VerSubmitInv, VerCollectInv, VerShutdownInv, VerReadGenDoneInv,
     VerReadQueueInv, VerRecordInv, VerWriteFailsInv DEF Verifier
<1>4. CASE PoolThreads
  BY <1>4, GenFutureDoneInv, VerFutureDoneInv DEF PoolThreads
<1>5. CASE UNCHANGED vars
  BY <1>5, StutterInv
<1>. QED
  BY <1>1, <1>2, <1>3, <1>4, <1>5 DEF Next

-------------------------------------------------------------------------------
(* The inductive invariant holds in every reachable state. *)
THEOREM Invariance == Spec => []IInv
BY InitInv, NextInv, PTL DEF Spec

(* Every variable keeps its type; no row holds anything but an answer. *)
THEOREM TypeCorrect == Spec => []TypeOK
<1>1. IInv => TypeOK
  BY DEF IInv
<1>. QED
  BY <1>1, Invariance, PTL

(* However runs, kills and failed writes fall, no task gets a second row   *)
(* in predictions.jsonl or in verification.jsonl.                          *)
THEOREM OneRow_PerTask == Spec => []OneRowPerTask
<1>1. IInv => OneRowPerTask
  BY DEF IInv
<1>. QED
  BY <1>1, Invariance, PTL

(* No kill leaves a verdict whose answer is not the one on file. *)
THEOREM Judged_OnFile == Spec => []JudgedIsOnFile
<1>1. IInv => JudgedIsOnFile
  BY DEF IInv
<1>. QED
  BY <1>1, Invariance, PTL

(* The verifier's exit test, which reads the event, the queue and the      *)
(* pending futures one after the other, never leaves a prediction unjudged.*)
THEOREM Nothing_Lost == Spec => []NothingLost
<1>1. IInv => NothingLost
  BY DEF IInv
<1>. QED
  BY <1>1, Invariance, PTL

-------------------------------------------------------------------------------
(* The refinement of EvalLedger. *)

LEMMA LedgerInit == Init => Ledger!Init
<1> SUFFICES ASSUME Init PROVE Ledger!Init
  OBVIOUS
<1>1. ASSUME NEW t \in Tasks
      PROVE  /\ Loaded(predFile)[t] \in Answers \cup {None}
             /\ Loaded(verFile)[t] \in {None, Legacy, Loaded(predFile)[t]}
  <2>1. /\ predFile[t] = <<>> \/ \E a \in Answers : predFile[t] = <<a>>
        /\ verFile[t] \in {<<>>, <<Legacy>>} \/ verFile[t] = predFile[t]
    BY DEF Init
  <2>2. \A a : <<a>> # <<>> /\ <<a>>[Len(<<a>>)] = a
    OBVIOUS
  <2>3. Loaded(predFile)[t] \in Answers \cup {None}
    BY <2>1, <2>2 DEF Loaded
  <2>4. Loaded(verFile)[t] \in {None, Legacy, Loaded(predFile)[t]}
    BY <2>1, <2>2 DEF Loaded
  <2>. QED
    BY <2>3, <2>4
<1>2. /\ Loaded(predFile) \in [Tasks -> Answers \cup {None}]
      /\ Loaded(verFile) \in [Tasks -> Answers \cup {None, Legacy}]
  BY <1>1 DEF Loaded
<1>. QED
  BY <1>1, <1>2 DEF Ledger!Init

LEMMA PredictStep ==
  ASSUME IInv, GenWrite \/ GenWriteFails
  PROVE  Ledger!Next \/ UNCHANGED <<Loaded(predFile), Loaded(verFile)>>
<1> DEFINE a == EntryAnswer(gcur)
<1>1. /\ gcur \in Tasks /\ a \in Answers /\ predFile[gcur] = <<>>
      /\ Append(predFile[gcur], a) = <<a>> /\ DOMAIN predFile = Tasks
  BY PredictionRow DEF GenWrite, GenWriteFails, IInv, TypeOK
<1>2. /\ predFile' \in {predFile, [predFile EXCEPT ![gcur] = Append(@, a)]}
      /\ verFile' = verFile
  BY DEF GenWrite, GenWriteFails
<1> HIDE DEF a
<1>3. CASE predFile' = predFile
  BY <1>2, <1>3 DEF Loaded
<1>4. CASE predFile' = [predFile EXCEPT ![gcur] = Append(@, a)]
  <2>1. predFile' = [predFile EXCEPT ![gcur] = <<a>>]
    BY <1>1, <1>4
  <2>2. Loaded(predFile') = [Loaded(predFile) EXCEPT ![gcur] = a]
    <3>1. <<a>> # <<>> /\ <<a>>[Len(<<a>>)] = a
      OBVIOUS
    <3>. QED
      BY <1>1, <2>1, <3>1 DEF Loaded
  <2>3. Loaded(predFile)[gcur] = None /\ Loaded(verFile') = Loaded(verFile)
    BY <1>1, <1>2 DEF Loaded
  <2>4. Ledger!Predict(gcur, a)
    BY <2>2, <2>3 DEF Ledger!Predict, Loaded
  <2>. QED
    BY <1>1, <2>4 DEF Ledger!Next
<1>. QED
  BY <1>2, <1>3, <1>4

LEMMA JudgeStep ==
  ASSUME IInv, NEW t \in Tasks, VerRecord(t) \/ VerWriteFails(t)
  PROVE  Ledger!Next \/ UNCHANGED <<Loaded(predFile), Loaded(verFile)>>
<1> DEFINE a == verArg[t]
<1>1. /\ a \in Answers /\ AwaitsVerdict(t, a) /\ Append(verFile[t], a) = <<a>>
      /\ DOMAIN verFile = Tasks /\ None \notin Answers
  BY VerdictRow, PipelinedAssumption DEF VerRecord, VerWriteFails, IInv, TypeOK
<1>2. /\ verFile' \in {verFile, [verFile EXCEPT ![t] = Append(@, a)]}
      /\ predFile' = predFile
  BY DEF VerRecord, VerWriteFails
<1> HIDE DEF a
<1>3. CASE verFile' = verFile
  BY <1>2, <1>3 DEF Loaded
<1>4. CASE verFile' = [verFile EXCEPT ![t] = Append(@, a)]
  <2>1. verFile' = [verFile EXCEPT ![t] = <<a>>]
    BY <1>1, <1>4
  <2>2. Loaded(verFile') = [Loaded(verFile) EXCEPT ![t] = a]
    <3>1. <<a>> # <<>> /\ <<a>>[Len(<<a>>)] = a
      OBVIOUS
    <3>. QED
      BY <1>1, <2>1, <3>1 DEF Loaded
  <2>3. <<a>> # <<>> /\ <<a>>[Len(<<a>>)] = a
    OBVIOUS
  <2>4. Loaded(verFile)[t] = None /\ Loaded(predFile)[t] = a /\ Loaded(predFile') = Loaded(predFile)
    BY <1>1, <1>2, <2>3 DEF Loaded, AwaitsVerdict
  <2>5. Ledger!Judge(t)
    BY <1>1, <2>2, <2>4 DEF Ledger!Judge, Loaded
  <2>. QED
    BY <2>5 DEF Ledger!Next
<1>. QED
  BY <1>2, <1>3, <1>4

LEMMA LedgerStep ==
  IInv /\ [Next]_vars => [Ledger!Next]_<<Loaded(predFile), Loaded(verFile)>>
<1> SUFFICES ASSUME IInv, [Next]_vars
             PROVE  Ledger!Next \/ UNCHANGED <<Loaded(predFile), Loaded(verFile)>>
  OBVIOUS
<1>1. CASE GenWrite \/ GenWriteFails
  BY <1>1, PredictStep
<1>2. ASSUME NEW t \in Tasks, VerRecord(t) \/ VerWriteFails(t)
      PROVE  Ledger!Next \/ UNCHANGED <<Loaded(predFile), Loaded(verFile)>>
  BY <1>2, JudgeStep
<1>3. CASE UNCHANGED files
  BY <1>3 DEF files, Loaded
<1>4. GenWrite \/ GenWriteFails \/ UNCHANGED files
      \/ \E t \in Tasks : VerRecord(t) \/ VerWriteFails(t)
  <2>1. CASE Start \/ Crash \/ Report
    BY <2>1 DEF Start, Crash, Report
  <2>2. CASE Generator
    BY <2>2 DEF Generator, GenNext, GenPut, GenFinish
  <2>3. CASE Verifier
    BY <2>3 DEF Verifier, VerSubmit, VerCollect, VerShutdown, VerReadGenDone, VerReadQueue
  <2>4. CASE PoolThreads
    BY <2>4 DEF PoolThreads, GenFutureDone, VerFutureDone
  <2>5. CASE UNCHANGED vars
    BY <2>5 DEF vars
  <2>. QED
    BY <2>1, <2>2, <2>3, <2>4, <2>5 DEF Next
<1>. QED
  BY <1>1, <1>2, <1>3, <1>4

(* Whatever the threads, the kills and the failing writes do, the two      *)
(* files evolve as the ledger says: first a prediction, never replaced,    *)
(* then one verdict on that prediction.                                    *)
THEOREM ImplementsLedger == Spec => LedgerSpec
BY Invariance, LedgerInit, LedgerStep, PTL DEF Spec, LedgerSpec, Ledger!Spec

=============================================================================
