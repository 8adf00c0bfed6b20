--------------------------- MODULE TrainerLoopProofs ---------------------------
(***************************************************************************)
(* What a resumed training run finds, for every length of an epoch, every  *)
(* number of epochs, save frequency and keep limit, and any number of runs *)
(* killed at any place.                                                    *)
(***************************************************************************)
EXTENDS TrainerLoop, SequenceTheorems, TLAPS

USE TrainerAssumption

-------------------------------------------------------------------------------
LEMMA TotalNat == Total \in Nat /\ Total > 0
BY DEF Total

(* The epoch of a step. *)
LEMMA EpochOf ==
  ASSUME NEW n \in 0..Total
  PROVE  /\ n \div BatchesPerEpoch \in 0..Epochs
         /\ n \div BatchesPerEpoch < Epochs => n < Total
<1> DEFINE q == n \div BatchesPerEpoch
<1>1. /\ n \in Nat /\ q \in Int /\ n <= BatchesPerEpoch * Epochs
      /\ BatchesPerEpoch * q <= n /\ n < BatchesPerEpoch * (q + 1)
  BY DEF Total
<1> HIDE DEF q
<1>2. q >= 0
  BY <1>1
<1>3. q <= Epochs
  BY <1>1
<1>4. q < Epochs => n < BatchesPerEpoch * Epochs
  BY <1>1
<1>. QED
  BY <1>1, <1>2, <1>3, <1>4 DEF q, Total

LEMMA LeftOf ==
  ASSUME NEW n \in Nat
  PROVE  BatchesLeft(n) \subseteq 0..BatchesPerEpoch
<1>1. n % BatchesPerEpoch \in 0..(BatchesPerEpoch - 1)
  OBVIOUS
<1>. QED
  BY <1>1 DEF BatchesLeft

LEMMA NoPaths == ASSUME NEW S PROVE <<>> \in Seq(S) /\ Len(<<>>) = 0
OBVIOUS

LEMMA LongerPaths ==
  ASSUME NEW S, NEW s \in Seq(S), NEW a \in S
  PROVE  Append(s, a) \in Seq(S) /\ Len(Append(s, a)) = Len(s) + 1 /\ Len(s) \in Nat
OBVIOUS

LEMMA PathsLeft ==
  ASSUME NEW S, NEW s \in Seq(S), NEW n \in 0..Len(s)
  PROVE  /\ SubSeq(s, n + 1, Len(s)) \in Seq(S)
         /\ Len(SubSeq(s, n + 1, Len(s))) = Len(s) - n
OBVIOUS

-------------------------------------------------------------------------------
(* The inductive invariant. *)

LEMMA InitInv == Init => IInv
<1> SUFFICES ASSUME Init PROVE IInv
  OBVIOUS
<1>1. 0 \in 0..Total /\ 0 \in 0..Total + 1 /\ 0 \in 0..Epochs
      /\ 0 \in 0..BatchesPerEpoch /\ 0 \in 0..MaxRuns
  BY TotalNat
<1>2. ckpt \in [1..Total -> [Roles \cup {"data"} -> File]]
  BY DEF Init, File
<1>3. /\ previous_saved_paths \in [Roles -> Seq(1..Total)]
      /\ \A r \in Roles : Len(previous_saved_paths[r]) = 0
  BY NoPaths DEF Init
<1>4. TypeOK
  <2>1. LoopType
    BY <1>1 DEF Init, LoopType
  <2>2. DiskType
    BY <1>1, <1>2, <1>3 DEF Init, DiskType, Parts, Roles
  <2>3. DiskLimit
    BY <1>3, <2>2 DEF DiskLimit, DiskType
  <2>. QED
    BY <2>1, <2>2, <2>3 DEF TypeOK
<1>5. InStep /\ SaveProgress /\ Tracked
  BY DEF Init, InStep, SaveProgress, Tracked
<1>6. OnDisk
  BY DEF Init, OnDisk, Kept, Roles
<1>7. ResumeConsistent /\ ResumesWhereSaved
  BY DEF Init, ResumeConsistent, ResumesWhereSaved
<1>. QED
  BY <1>4, <1>5, <1>6, <1>7 DEF IInv

LEMMA StartInv == ASSUME IInv, Start PROVE IInv'
<1>1. 0 \in 0..Total /\ 0 \in 0..Total + 1 /\ 0 \in 0..Epochs /\ 0 \in 0..BatchesPerEpoch
  BY TotalNat
<1>2. /\ previous_saved_paths' \in [Roles -> Seq(1..Total)]
      /\ \A r \in Roles : Len(previous_saved_paths'[r]) = 0
  BY NoPaths DEF Start
<1>3. runs' \in 0..MaxRuns
  BY DEF Start, IInv, TypeOK, LoopType
<1>4. TypeOK'
  <2>1. LoopType'
    BY <1>1, <1>3 DEF Start, LoopType
  <2>2. DiskType'
    BY <1>2 DEF IInv, TypeOK, DiskType, Start, config, disk, history, Parts, Roles
  <2>3. DiskLimit'
    BY <1>2, <2>2 DEF DiskLimit, DiskType
  <2>. QED
    BY <2>1, <2>2, <2>3 DEF TypeOK
<1>5. InStep' /\ SaveProgress' /\ ResumeConsistent' /\ ResumesWhereSaved'
  BY DEF Start, InStep, SaveProgress, ResumeConsistent, ResumesWhereSaved, Roles
<1>6. OnDisk' /\ Tracked'
  BY DEF IInv, OnDisk, Tracked, Kept, Start, config, disk, history
<1>. QED
  BY <1>4, <1>5, <1>6 DEF IInv

(* What does not save leaves the disk and its description alone. *)
LEMMA SameDisk ==
  ASSUME IInv, LoopType', UNCHANGED <<config, saving, disk, saved>>,
         epoch_lost' \in BOOLEAN
  PROVE  TypeOK' /\ OnDisk'
<1>1. DiskType' /\ DiskLimit'
  BY DEF IInv, TypeOK, DiskType, DiskLimit, config, saving, disk
<1>2. OnDisk'
  BY DEF IInv, OnDisk, Kept, config, disk
<1>. QED
  BY <1>1, <1>2 DEF TypeOK

(* A step that only leaves the loop. *)
LEMMA LeaveInv ==
  ASSUME IInv, pc' \in {"down", "raised", "done"},
         pc' = "raised" => tracker = Torn \/ keep > 0,
         global_steps' \in 0..Total + 1, epoch' \in 0..Epochs,
         UNCHANGED <<config, runs, left, fetched, weights, saving, disk, history>>
  PROVE  IInv'
<1>1. TypeOK' /\ OnDisk'
  <2>1. LoopType' /\ epoch_lost' \in BOOLEAN
    BY DEF IInv, TypeOK, LoopType, DiskType, history
  <2>. QED
    BY <2>1, SameDisk DEF history
<1>2. InStep' /\ SaveProgress' /\ ResumeConsistent' /\ ResumesWhereSaved'
  BY DEF InStep, SaveProgress, ResumeConsistent, ResumesWhereSaved, config, disk
<1>3. Tracked'
  BY DEF IInv, Tracked, Kept, config, disk, history
<1>. QED
  BY <1>1, <1>2, <1>3 DEF IInv

LEMMA LoadInv ==
  ASSUME IInv, LoadNothing \/ LoadRaises \/ LoadCheckpoint
  PROVE  IInv'
<1>1. CASE LoadNothing
  <2>1. TypeOK' /\ OnDisk'
    <3>1. LoopType' /\ epoch_lost' \in BOOLEAN
      BY <1>1, TotalNat DEF LoadNothing, IInv, TypeOK, LoopType, DiskType, history
    <3>. QED
      BY <1>1, <3>1, SameDisk DEF LoadNothing, history
  <2>2. InStep' /\ SaveProgress' /\ ResumeConsistent' /\ ResumesWhereSaved'
    BY <1>1, TotalNat DEF LoadNothing, IInv, InStep, Tracked, SaveProgress,
          ResumeConsistent, ResumesWhereSaved, config, disk, history
  <2>3. Tracked'
    BY <1>1 DEF LoadNothing, IInv, Tracked, Kept, config, disk, history
  <2>. QED
    BY <2>1, <2>2, <2>3 DEF IInv
<1>2. CASE LoadRaises
  <2>1. tracker = Torn \/ keep > 0
    <3>1. CASE tracker \in Nat /\ keep = 0
      <4>1. /\ tracker \in 1..Total
            /\ ckpt[tracker]["actor"] = tracker /\ ckpt[tracker]["data"] = tracker
            /\ use_critic => ckpt[tracker]["critic"] = tracker
        BY <3>1 DEF IInv, TypeOK, DiskType, Tracked, Kept
      <4>2. Loadable(tracker)
        BY <3>1, <4>1 DEF Loadable
      <4>. QED
        BY <1>2, <3>1, <4>2 DEF LoadRaises
    <3>2. keep \in Nat /\ tracker \in Nat \cup {None, Torn} /\ tracker # None
      BY <1>2 DEF LoadRaises, IInv, TypeOK, DiskType
    <3>. QED
      BY <3>1, <3>2
  <2>. QED
    BY <1>2, <2>1, LeaveInv DEF LoadRaises, IInv, TypeOK, LoopType, loop
<1>3. CASE LoadCheckpoint
  <2>1. /\ tracker \in 1..Total /\ tracker >= saved /\ saved \in Nat /\ Total \in Nat
        /\ ckpt[tracker]["data"] = tracker
        /\ ckpt[tracker]["actor"] = tracker
        /\ use_critic => ckpt[tracker]["critic"] = tracker
    <3>1. tracker \in 1..Total /\ ckpt[tracker]["data"] = tracker
          /\ tracker >= saved /\ saved \in Nat
      <4>1. tracker \in Nat
        BY <1>3 DEF LoadCheckpoint
      <4>2. tracker \in 1..Total \cup {None, Torn} /\ saved \in 0..Total
        BY DEF IInv, TypeOK, DiskType
      <4>3. tracker >= saved /\ ckpt[tracker]["data"] = tracker
        BY <4>1 DEF IInv, Tracked
      <4>. QED
        BY <4>1, <4>2, <4>3
    <3>2. ckpt[tracker]["actor"] = tracker
      BY <1>3, <3>1 DEF LoadCheckpoint, Loadable, IInv, OnDisk, Kept
    <3>3. ASSUME use_critic PROVE ckpt[tracker]["critic"] = tracker
      BY <1>3, <3>1, <3>3 DEF LoadCheckpoint, Loadable, IInv, OnDisk, Kept
    <3>. QED
      BY <3>1, <3>2, <3>3, TotalNat
  <2>2. fetched' = tracker
    BY <1>3, <2>1 DEF LoadCheckpoint
  <2>3. left' \in 0..BatchesPerEpoch
    BY <1>3, <2>1, <2>2, LeftOf DEF LoadCheckpoint
  <2>4. /\ epoch' \in 0..Epochs
        /\ epoch' < Epochs => tracker < Total
    BY <1>3, <2>1, EpochOf DEF LoadCheckpoint
  <2>5. /\ weights' \in [Roles -> 0..Total] /\ weights'["actor"] = tracker
        /\ use_critic => weights'["critic"] = tracker
    BY <1>3, <2>1 DEF LoadCheckpoint, Roles
  <2>6. /\ global_steps' = tracker + 1 /\ pc' \in {"train", "done"}
        /\ pc' = "train" => epoch' < Epochs
        /\ UNCHANGED <<config, runs, saving, disk, saved>>
        /\ epoch_lost' \in BOOLEAN
    BY <1>3 DEF LoadCheckpoint, IInv, TypeOK, DiskType
  <2>7. TypeOK' /\ OnDisk'
    <3>1. LoopType'
      BY <2>1, <2>2, <2>3, <2>4, <2>5, <2>6 DEF IInv, TypeOK, LoopType
    <3>. QED
      BY <2>6, <3>1, SameDisk
  <2>8. InStep' /\ ResumesWhereSaved'
    BY <2>1, <2>2, <2>4, <2>6 DEF InStep, ResumesWhereSaved
  <2>9. ResumeConsistent'
    BY <2>1, <2>2, <2>5, <2>6 DEF ResumeConsistent, config
  <2>10. SaveProgress'
    BY <2>6 DEF SaveProgress
  <2>11. Tracked'
    BY <2>1, <2>6 DEF IInv, Tracked, Kept, config, disk
  <2>. QED
    BY <2>7, <2>8, <2>9, <2>10, <2>11 DEF IInv
<1>. QED
  BY <1>1, <1>2, <1>3

LEMMA NextEpochInv == ASSUME IInv, NextEpoch PROVE IInv'
<1>1. epoch \in Nat /\ epoch < Epochs /\ epoch' = epoch + 1
  BY DEF NextEpoch, IInv, TypeOK, LoopType, InStep
<1>2. CASE pc' = "done" /\ left' = left
  BY <1>1, <1>2, LeaveInv DEF NextEpoch, IInv, TypeOK, LoopType
<1>3. CASE pc' = "train" /\ epoch' < Epochs /\ left' = BatchesPerEpoch
  <2>1. TypeOK' /\ OnDisk'
    <3>1. LoopType' /\ epoch_lost' \in BOOLEAN
      BY <1>1, <1>3 DEF NextEpoch, IInv, TypeOK, LoopType, DiskType, history
    <3>. QED
      BY <3>1, SameDisk DEF NextEpoch, history
  <2>2. InStep' /\ ResumesWhereSaved' /\ ResumeConsistent' /\ SaveProgress'
    BY <1>3 DEF NextEpoch, IInv, InStep, ResumesWhereSaved, ResumeConsistent,
                SaveProgress, config, disk, history
  <2>3. Tracked'
    BY <1>3 DEF NextEpoch, IInv, Tracked, Kept, config, disk, history
  <2>. QED
    BY <2>1, <2>2, <2>3 DEF IInv
<1>. QED
  BY <1>1, <1>2, <1>3 DEF NextEpoch

LEMMA TrainStepInv == ASSUME IInv, TrainStep PROVE IInv'
<1>1. /\ pc = "train" /\ global_steps \in 1..Total /\ global_steps > saved
      /\ saved \in Nat /\ fetched = global_steps - 1
      /\ weights \in [Roles -> 0..Total] /\ weights["actor"] = global_steps - 1
      /\ use_critic => weights["critic"] = global_steps - 1
      /\ left \in 0..BatchesPerEpoch /\ left > 0 /\ Total \in Nat
  BY TotalNat DEF TrainStep, IInv, TypeOK, LoopType, DiskType, InStep, ResumeConsistent
<1>2. /\ fetched' = global_steps /\ left' \in 0..BatchesPerEpoch
      /\ pc' \in {"save", "advance"} /\ part' = "actor" /\ writing' = FALSE
      /\ UNCHANGED <<config, runs, global_steps, epoch, previous_saved_paths, disk, history>>
  BY <1>1 DEF TrainStep
<1>3. /\ weights' \in [Roles -> 0..Total] /\ weights'["actor"] = global_steps
      /\ use_critic => weights'["critic"] = global_steps
  <2>1. weights' = [r \in Roles |-> weights[r] + IF r = "actor" \/ use_critic THEN 1 ELSE 0]
    BY DEF TrainStep
  <2>2. ASSUME NEW r \in Roles
        PROVE  weights[r] + (IF r = "actor" \/ use_critic THEN 1 ELSE 0) \in 0..Total
    <3>1. weights[r] \in 0..Total
      BY <1>1
    <3>2. (r = "actor" \/ use_critic) => weights[r] = global_steps - 1
      BY <1>1 DEF Roles
    <3>. QED
      BY <1>1, <3>1, <3>2
  <2>3. weights' \in [Roles -> 0..Total]
    BY <2>1, <2>2
  <2>4. weights'["actor"] = global_steps /\ (use_critic => weights'["critic"] = global_steps)
    BY <1>1, <2>1 DEF Roles
  <2>. QED
    BY <2>3, <2>4
<1>4. TypeOK'
  <2>1. LoopType'
    BY <1>1, <1>2, <1>3 DEF IInv, TypeOK, LoopType
  <2>2. DiskType' /\ DiskLimit'
    BY <1>2 DEF IInv, TypeOK, DiskType, DiskLimit, Parts, Roles, config, disk, history
  <2>. QED
    BY <2>1, <2>2 DEF TypeOK
<1>5. InStep'
  BY <1>1, <1>2, <1>3 DEF IInv, InStep, config, history
<1>6. SaveProgress' /\ ResumeConsistent' /\ ResumesWhereSaved'
  BY <1>2 DEF SaveProgress, Before, Kept, ResumeConsistent, ResumesWhereSaved
<1>7. OnDisk' /\ Tracked'
  BY <1>1, <1>2 DEF IInv, OnDisk, Tracked, Kept, config, disk, history
<1>. QED
  BY <1>4, <1>5, <1>6, <1>7 DEF IInv

LEMMA AdvanceInv == ASSUME IInv, Advance PROVE IInv'
<1>1. /\ pc = "advance" /\ global_steps \in 1..Total /\ global_steps >= saved
      /\ saved \in Nat /\ Total \in Nat /\ global_steps' = global_steps + 1
      /\ epoch \in 0..Epochs /\ epoch < Epochs /\ fetched = global_steps
      /\ weights["actor"] = global_steps
      /\ use_critic => weights["critic"] = global_steps
      /\ UNCHANGED <<config, runs, epoch, left, fetched, weights, saving, disk, history>>
  BY TotalNat DEF Advance, IInv, TypeOK, LoopType, DiskType, InStep
<1>2. CASE IsLastStep
  BY <1>1, <1>2, LeaveInv DEF Advance
<1>3. CASE ~IsLastStep
  <2>1. pc' = "train" /\ global_steps' \in 1..Total
    BY <1>1, <1>3 DEF Advance, IsLastStep
  <2>2. TypeOK' /\ OnDisk'
    <3>1. LoopType' /\ epoch_lost' \in BOOLEAN
      BY <1>1, <2>1 DEF IInv, TypeOK, LoopType, DiskType, history
    <3>. QED
      BY <1>1, <3>1, SameDisk DEF history
  <2>3. InStep' /\ SaveProgress' /\ ResumeConsistent' /\ ResumesWhereSaved'
    BY <1>1, <2>1 DEF InStep, SaveProgress, ResumeConsistent, ResumesWhereSaved,
                      config, disk, history
  <2>4. Tracked'
    BY <1>1, <2>1 DEF IInv, TypeOK, DiskType, Tracked, Kept, config, disk, history
  <2>. QED
    BY <2>2, <2>3, <2>4 DEF IInv
<1>. QED
  BY <1>2, <1>3

(* Saving. *)

LEMMA Saving ==
  ASSUME IInv, pc = "save"
  PROVE  /\ global_steps \in 1..Total /\ Total \in Nat /\ global_steps >= saved
         /\ epoch < Epochs /\ saved \in 0..Total
         /\ fetched = global_steps /\ weights["actor"] = global_steps
         /\ use_critic => weights["critic"] = global_steps
         /\ part \in Kept \cup {"tracker"} /\ part \in Parts
         /\ keep \in Nat /\ use_critic \in BOOLEAN
         /\ ckpt \in [1..Total -> [Roles \cup {"data"} -> File]]
         /\ Kept \subseteq Roles \cup {"data"}
         /\ previous_saved_paths \in [Roles -> Seq(1..Total)]
         /\ tracker \in 1..Total \cup {None, Torn}
<1>1. Kept \subseteq Roles \cup {"data"}
  BY DEF Kept, Roles
<1>2. part \in Kept \cup {"tracker"}
  BY DEF IInv, SaveProgress
<1>. QED
  BY <1>1, <1>2, TotalNat DEF IInv, TypeOK, DiskType, InStep

LEMMA SaveOpensInv == ASSUME IInv, SaveOpens PROVE IInv'
<1>1. /\ pc = "save" /\ pc' = "save" /\ part' = part /\ writing' = TRUE /\ saved' = saved
      /\ UNCHANGED <<config, runs, loop, epoch_lost>>
  BY DEF SaveOpens, OpenRole, OpenData, OpenTracker
<1>2. LoopType' /\ InStep'
  BY <1>1 DEF IInv, TypeOK, LoopType, InStep, config, loop
<1>3. ResumeConsistent' /\ ResumesWhereSaved'
  BY <1>1 DEF ResumeConsistent, ResumesWhereSaved
<1>4. Kept' = Kept /\ Before(part)' = Before(part) /\ part \notin Before(part)
  BY <1>1, Saving DEF Kept, Before, config
<1>5. CASE OpenRole
  <2>1. /\ part \in Roles /\ tracker' = tracker /\ part # "data" /\ part # "tracker"
    BY <1>5 DEF OpenRole, Roles
  <2>2. PICK removed :
          /\ removed = {previous_saved_paths[part][i] : i \in 1..Surplus(part)}
          /\ ckpt' = [s \in 1..Total |->
               [ckpt[s] EXCEPT ![part] = IF s = global_steps THEN Torn
                                         ELSE IF s \in removed THEN None ELSE @]]
    BY <1>5 DEF OpenRole
  <2>3. PICK n : n = Surplus(part)
    OBVIOUS
  <2>4. previous_saved_paths[part] \in Seq(1..Total) /\ Len(previous_saved_paths[part]) \in Nat
    BY <1>1, <2>1, Saving
  <2>5. /\ n \in 0..Len(previous_saved_paths[part])
        /\ keep = 0 => n = 0
        /\ keep > 0 => Len(previous_saved_paths[part]) - n < keep
    BY <1>1, <2>3, <2>4, Saving DEF Surplus
  <2>6. PICK paths :
          /\ paths = SubSeq(previous_saved_paths[part], n + 1, Len(previous_saved_paths[part]))
          /\ previous_saved_paths' = [previous_saved_paths EXCEPT ![part] = paths]
    BY <1>5, <2>3 DEF OpenRole
  <2>7. paths \in Seq(1..Total) /\ Len(paths) = Len(previous_saved_paths[part]) - n
    BY <2>4, <2>5, <2>6, PathsLeft
  <2>8. /\ previous_saved_paths' \in [Roles -> Seq(1..Total)]
        /\ previous_saved_paths'[part] = paths
        /\ \A r \in Roles : r # part => previous_saved_paths'[r] = previous_saved_paths[r]
    BY <1>1, <2>1, <2>6, <2>7, Saving
  <2>9. DiskLimit'
    <3>1. SUFFICES ASSUME keep > 0, NEW r \in Roles
                   PROVE  Len(previous_saved_paths'[r]) <= keep
      BY <1>1 DEF DiskLimit, config
    <3>2. CASE r = part
      BY <1>1, <2>4, <2>5, <2>7, <2>8, <3>1, <3>2, Saving
    <3>3. CASE r # part
      BY <2>8, <3>1, <3>3 DEF IInv, TypeOK, DiskLimit
    <3>. QED
      BY <3>2, <3>3
  <2>10. ASSUME NEW s \in 1..Total
         PROVE  /\ ckpt'[s] \in [Roles \cup {"data"} -> File]
                /\ \A q \in Roles \cup {"data"} :
                     q # part => ckpt'[s][q] = ckpt[s][q]
                /\ ckpt'[s][part] \in {None, Torn, ckpt[s][part]}
                /\ (keep = 0 /\ s # global_steps) => ckpt'[s][part] = ckpt[s][part]
    <3>1. ckpt[s] \in [Roles \cup {"data"} -> File]
      BY <1>1, Saving
    <3>2. keep = 0 => removed = {}
      BY <2>2, <2>3, <2>5
    <3>. QED
      BY <2>1, <2>2, <3>1, <3>2 DEF File
  <2>11. DiskType'
    <3>1. ckpt' \in [1..Total -> [Roles \cup {"data"} -> File]]
      BY <2>2, <2>10
    <3>. QED
      BY <1>1, <2>1, <2>8, <3>1 DEF IInv, TypeOK, DiskType, config
  <2>12. OnDisk'
    <3>1. SUFFICES ASSUME NEW s \in 1..Total, NEW q \in Kept
                   PROVE  ckpt'[s][q] \in {None, Torn, s}
      BY <1>4 DEF OnDisk
    <3>2. ckpt[s][q] \in {None, Torn, s} /\ q \in Roles \cup {"data"}
      BY <1>1, Saving DEF IInv, OnDisk
    <3>. QED
      BY <2>10, <3>2
  <2>13. SaveProgress'
    <3>1. \A q \in Before(part) : q \in Roles \cup {"data"} /\ q # part
      BY <1>1, <1>4, <2>1, Saving DEF Before, Roles
    <3>2. global_steps' = global_steps /\ keep' = keep
      BY <1>1 DEF loop, config
    <3>3. \A q \in Before(part) : ckpt'[global_steps][q] = global_steps
      BY <1>1, <2>10, <3>1, Saving DEF IInv, SaveProgress
    <3>4. keep > 0 => Len(previous_saved_paths'[part]) < keep
      BY <2>5, <2>7, <2>8
    <3>5. part \in Kept \cup {"tracker"}
      BY <1>1, Saving
    <3>. QED
      BY <1>1, <1>4, <2>1, <3>2, <3>3, <3>4, <3>5 DEF SaveProgress
  <2>14. Tracked'
    <3>1. SUFFICES ASSUME tracker \in Nat PROVE Tracked'
      BY <1>1, <2>1 DEF IInv, Tracked
    <3>2. /\ tracker \in 1..Total /\ tracker < global_steps /\ tracker >= saved
          /\ ckpt[tracker]["data"] = tracker
          /\ keep = 0 => \A q \in Kept : ckpt[tracker][q] = tracker
      BY <1>1, <3>1, Saving DEF IInv, Tracked
    <3>3. ckpt'[tracker]["data"] = tracker
      BY <2>1, <2>10, <3>2
    <3>4. keep = 0 => \A q \in Kept : ckpt'[tracker][q] = tracker
      BY <1>1, <2>10, <3>2, Saving
    <3>5. tracker # None /\ global_steps' = global_steps /\ keep' = keep
      BY <1>1, <3>1 DEF loop, config
    <3>. QED
      BY <1>1, <1>4, <2>1, <3>2, <3>3, <3>4, <3>5 DEF Tracked
  <2>. QED
    BY <1>2, <1>3, <2>9, <2>11, <2>12, <2>13, <2>14 DEF IInv, TypeOK
<1>6. CASE OpenData
  <2>1. /\ part = "data" /\ tracker' = tracker /\ previous_saved_paths' = previous_saved_paths
        /\ ckpt' = [ckpt EXCEPT ![global_steps]["data"] = Torn]
    BY <1>6 DEF OpenData
  <2>2. /\ ckpt' \in [1..Total -> [Roles \cup {"data"} -> File]]
        /\ \A s \in 1..Total : s # global_steps => ckpt'[s] = ckpt[s]
        /\ \A q \in Roles : ckpt'[global_steps][q] = ckpt[global_steps][q]
        /\ ckpt'[global_steps]["data"] = Torn
    BY <1>1, <2>1, Saving DEF File, Roles
  <2>3. DiskType' /\ DiskLimit'
    BY <1>1, <2>1, <2>2 DEF IInv, TypeOK, DiskType, DiskLimit, config
  <2>4. OnDisk'
    BY <1>1, <1>4, <2>2, Saving DEF IInv, OnDisk
  <2>5. SaveProgress'
    <3>1. Before(part) \subseteq Roles /\ part \notin Roles /\ part # "tracker"
      BY <2>1 DEF Before, Kept, Roles
    <3>2. global_steps' = global_steps
      BY <1>1 DEF loop
    <3>. QED
      BY <1>1, <1>4, <2>2, <3>1, <3>2 DEF IInv, SaveProgress
  <2>6. Tracked'
    BY <1>1, <1>4, <2>1, <2>2, Saving DEF IInv, Tracked, loop, config
  <2>. QED
    BY <1>2, <1>3, <2>3, <2>4, <2>5, <2>6 DEF IInv, TypeOK
<1>7. CASE OpenTracker
  <2>1. part = "tracker" /\ tracker' = Torn
        /\ UNCHANGED <<ckpt, previous_saved_paths>>
    BY <1>7 DEF OpenTracker
  <2>2. DiskType' /\ DiskLimit'
    BY <1>1, <2>1 DEF IInv, TypeOK, DiskType, DiskLimit, config
  <2>3. OnDisk' /\ Tracked'
    BY <1>4, <2>1 DEF IInv, OnDisk, Tracked
  <2>4. SaveProgress'
    BY <1>1, <1>4, <2>1 DEF IInv, SaveProgress, Roles, loop
  <2>. QED
    BY <1>2, <1>3, <2>2, <2>3, <2>4 DEF IInv, TypeOK
<1>. QED
  BY <1>5, <1>6, <1>7 DEF SaveOpens

(* A file of a checkpoint is whole. *)
LEMMA FileClosed ==
  ASSUME IInv, pc = "save", part \in Kept,
         ckpt' = [ckpt EXCEPT ![global_steps][part] = global_steps]
  PROVE  /\ ckpt' \in [1..Total -> [Roles \cup {"data"} -> File]]
         /\ \A s \in 1..Total : s # global_steps => ckpt'[s] = ckpt[s]
         /\ \A q \in Kept : q # part => ckpt'[global_steps][q] = ckpt[global_steps][q]
         /\ ckpt'[global_steps][part] = global_steps
<1>1. /\ ckpt \in [1..Total -> [Roles \cup {"data"} -> File]]
      /\ global_steps \in 1..Total /\ global_steps \in File
      /\ part \in Roles \cup {"data"} /\ Kept \subseteq Roles \cup {"data"}
  <2>1. global_steps \in Nat
    BY Saving
  <2>. QED
    BY <2>1, Saving DEF File
<1>2. PICK dir : dir = [ckpt[global_steps] EXCEPT ![part] = global_steps]
  OBVIOUS
<1>3. ckpt' = [ckpt EXCEPT ![global_steps] = dir]
  BY <1>2
<1>4. /\ dir \in [Roles \cup {"data"} -> File] /\ dir[part] = global_steps
      /\ \A q \in Kept : q # part => dir[q] = ckpt[global_steps][q]
  BY <1>1, <1>2
<1>. QED
  BY <1>1, <1>3, <1>4

LEMMA SaveClosesInv == ASSUME IInv, SaveCloses PROVE IInv'
<1>1. /\ pc = "save" /\ writing /\ writing' = FALSE
      /\ UNCHANGED <<config, runs, loop, epoch_lost>>
  BY DEF SaveCloses
<1>2. Kept' = Kept /\ \A q : Before(q)' = Before(q)
  BY <1>1 DEF Kept, Before, config
<1>3. global_steps' = global_steps /\ keep' = keep /\ use_critic' = use_critic
  BY <1>1 DEF loop, config
<1>4. CASE part = "tracker"
  <2>1. /\ pc' = "advance" /\ saved' = global_steps /\ part' = part
        /\ tracker' = global_steps /\ UNCHANGED <<ckpt, previous_saved_paths>>
    BY <1>4 DEF SaveCloses, NextPart, Roles
  <2>2. \A q \in Kept : ckpt[global_steps][q] = global_steps
    BY <1>1, <1>4 DEF IInv, SaveProgress, Before
  <2>3. LoopType'
    BY <1>1, <2>1 DEF IInv, TypeOK, LoopType, loop
  <2>4. DiskType' /\ DiskLimit'
    <3>1. saved' \in 0..Total /\ tracker' \in 1..Total \cup {None, Torn}
      BY <1>1, <2>1, Saving
    <3>. QED
      BY <1>1, <2>1, <3>1 DEF IInv, TypeOK, DiskType, DiskLimit, config
  <2>5. InStep'
    BY <1>1, <2>1, Saving DEF InStep, loop, config
  <2>6. OnDisk' /\ SaveProgress' /\ ResumeConsistent' /\ ResumesWhereSaved'
    BY <1>2, <2>1 DEF IInv, OnDisk, SaveProgress, ResumeConsistent, ResumesWhereSaved
  <2>7. Tracked'
    <3>1. "data" \in Kept
      BY DEF Kept
    <3>. QED
      BY <1>1, <1>2, <1>3, <2>1, <2>2, <3>1, Saving DEF Tracked
  <2>. QED
    BY <2>3, <2>4, <2>5, <2>6, <2>7 DEF IInv, TypeOK
<1>5. CASE part \in Kept
  <2>1. PICK file :
          /\ ckpt' = [ckpt EXCEPT ![global_steps][part] = file]
          /\ part = "data" => file = fetched
          /\ part \in Roles => file = weights[part]
    BY <1>1, <1>5 DEF SaveCloses, Kept, Roles
  <2>2. file = global_steps
    BY <1>1, <1>5, <2>1, Saving DEF Kept, Roles
  <2>3. /\ ckpt' \in [1..Total -> [Roles \cup {"data"} -> File]]
        /\ \A s \in 1..Total : s # global_steps => ckpt'[s] = ckpt[s]
        /\ \A q \in Kept : q # part => ckpt'[global_steps][q] = ckpt[global_steps][q]
        /\ ckpt'[global_steps][part] = global_steps
    BY <1>1, <1>5, <2>1, <2>2, FileClosed
  <2>4. /\ NextPart(part) \in (Kept \cup {"tracker"}) \ {part}
        /\ NextPart(part) # None
        /\ Before(NextPart(part)) \subseteq Before(part) \cup {part}
        /\ Before(NextPart(part)) \subseteq Kept
    <3>1. CASE part = "actor" /\ use_critic
      <4>1. NextPart(part) = "critic" /\ Before("critic") = {"actor"}
        BY <3>1 DEF NextPart, Before
      <4>. QED
        BY <3>1, <4>1 DEF Kept
    <3>2. CASE part = "actor" /\ ~use_critic
      <4>1. NextPart(part) = "data" /\ Before("data") = {"actor"}
        BY <3>2 DEF NextPart, Before, Kept
      <4>. QED
        BY <3>2, <4>1 DEF Kept
    <3>3. CASE part = "critic" /\ use_critic
      <4>1. /\ NextPart(part) = "data" /\ Before("data") = {"actor", "critic"}
            /\ Before(part) = {"actor"}
        BY <3>3 DEF NextPart, Before, Kept
      <4>. QED
        BY <3>3, <4>1 DEF Kept
    <3>4. CASE part = "data"
      <4>1. /\ NextPart(part) = "tracker" /\ Before("tracker") = Kept
            /\ Before(part) = Kept \ {"data"} /\ "tracker" # None
        BY <3>4 DEF NextPart, Before
      <4>. QED
        BY <3>4, <4>1 DEF Kept
    <3>. QED
      BY <1>5, <3>1, <3>2, <3>3, <3>4 DEF Kept
  <2>5. pc' = "save" /\ part' = NextPart(part) /\ saved' = saved /\ tracker' = tracker
    BY <1>1, <1>5, <2>4 DEF SaveCloses, Kept
  <2>6. LoopType' /\ InStep'
    BY <1>1, <2>5 DEF IInv, TypeOK, LoopType, InStep, loop, config
  <2>7. previous_saved_paths' \in [Roles -> Seq(1..Total)] /\ DiskLimit'
    <3>1. CASE part = "data"
      <4>1. previous_saved_paths' = previous_saved_paths
        BY <3>1 DEF SaveCloses, Roles
      <4>. QED
        BY <1>1, <1>3, <4>1, Saving DEF IInv, TypeOK, DiskLimit
    <3>2. CASE part \in Roles
      <4>1. PICK paths :
              /\ paths = Append(previous_saved_paths[part], global_steps)
              /\ previous_saved_paths' = [previous_saved_paths EXCEPT ![part] = paths]
        BY <3>2 DEF SaveCloses, Roles
      <4>2. /\ paths \in Seq(1..Total) /\ Len(previous_saved_paths[part]) \in Nat
            /\ Len(paths) = Len(previous_saved_paths[part]) + 1
        BY <1>1, <3>2, <4>1, Saving, LongerPaths
      <4>3. keep > 0 => Len(previous_saved_paths[part]) < keep
        BY <1>1, <3>2 DEF IInv, SaveProgress
      <4>4. /\ previous_saved_paths' \in [Roles -> Seq(1..Total)]
            /\ previous_saved_paths'[part] = paths
            /\ \A r \in Roles : r # part => previous_saved_paths'[r] = previous_saved_paths[r]
        BY <1>1, <3>2, <4>1, <4>2, Saving
      <4>5. ASSUME keep > 0, NEW r \in Roles
            PROVE  Len(previous_saved_paths'[r]) <= keep
        <5>1. CASE r = part
          BY <1>1, <4>2, <4>3, <4>4, <4>5, <5>1, Saving
        <5>2. CASE r # part
          BY <4>4, <4>5, <5>2 DEF IInv, TypeOK, DiskLimit
        <5>. QED
          BY <5>1, <5>2
      <4>. QED
        BY <1>3, <4>4, <4>5 DEF DiskLimit
    <3>. QED
      BY <1>5, <3>1, <3>2 DEF Kept, Roles
  <2>8. DiskType'
    <3>1. part' \in Parts
      BY <2>4, <2>5 DEF Kept, Parts, Roles
    <3>. QED
      BY <1>1, <2>3, <2>5, <2>7, <3>1 DEF IInv, TypeOK, DiskType, config
  <2>9. OnDisk'
    <3>1. SUFFICES ASSUME NEW s \in 1..Total, NEW q \in Kept
                   PROVE  ckpt'[s][q] \in {None, Torn, s}
      BY <1>2 DEF OnDisk
    <3>2. ckpt[s][q] \in {None, Torn, s}
      BY DEF IInv, OnDisk
    <3>. QED
      BY <2>3, <3>2
  <2>10. SaveProgress'
    <3>1. \A q \in Before(part) : ckpt[global_steps][q] = global_steps
      BY <1>1 DEF IInv, SaveProgress
    <3>2. \A q \in Before(NextPart(part)) : ckpt'[global_steps][q] = global_steps
      BY <2>3, <2>4, <3>1
    <3>. QED
      BY <1>1, <1>2, <1>3, <2>4, <2>5, <3>2 DEF SaveProgress
  <2>11. Tracked'
    <3>1. SUFFICES ASSUME tracker \in Nat PROVE Tracked'
      BY <2>5 DEF IInv, Tracked
    <3>2. /\ tracker \in 1..Total /\ tracker < global_steps /\ tracker >= saved
          /\ ckpt[tracker]["data"] = tracker
          /\ keep = 0 => \A q \in Kept : ckpt[tracker][q] = tracker
      BY <1>1, <3>1, Saving DEF IInv, Tracked
    <3>3. ckpt'[tracker] = ckpt[tracker] /\ tracker # None
      BY <1>1, <2>3, <3>1, <3>2, Saving
    <3>. QED
      BY <1>2, <1>3, <2>5, <3>2, <3>3 DEF Tracked
  <2>12. ResumeConsistent' /\ ResumesWhereSaved'
    BY <2>5 DEF ResumeConsistent, ResumesWhereSaved
  <2>. QED
    BY <2>6, <2>7, <2>8, <2>9, <2>10, <2>11, <2>12 DEF IInv, TypeOK
<1>. QED
  BY <1>1, <1>4, <1>5, Saving

LEMMA NextInv == IInv /\ [Next]_vars => IInv'
<1> SUFFICES ASSUME IInv, [Next]_vars PROVE IInv'
  OBVIOUS
<1>1. CASE Crash
  BY <1>1, LeaveInv DEF Crash, IInv, TypeOK, LoopType, loop
<1>2. CASE UNCHANGED vars
  <2>1. TypeOK' /\ OnDisk'
    <3>1. LoopType' /\ epoch_lost' \in BOOLEAN
      BY <1>2 DEF IInv, TypeOK, LoopType, DiskType, vars, loop, history
    <3>. QED
      BY <1>2, <3>1, SameDisk DEF vars, history
  <2>. QED
    BY <1>2, <2>1 DEF IInv, InStep, SaveProgress, Before, Tracked, Kept, ResumeConsistent,
                      ResumesWhereSaved, vars, config, loop, saving, disk, history
<1>. QED
  BY <1>1, <1>2, StartInv, LoadInv, NextEpochInv, TrainStepInv, AdvanceInv,
     SaveOpensInv, SaveClosesInv DEF Next, Trainer

-------------------------------------------------------------------------------
(* Wherever runs are killed, the counters of a step agree, whole files are *)
(* of their step, and the tracker names a checkpoint no save touches.      *)
THEOREM Invariance == Spec => []IInv
<1>. QED
  BY InitInv, NextInv, PTL DEF Spec

(* Every variable keeps its shape, and a manager stays in its disk limit. *)
THEOREM TypeCorrect == Spec => []TypeOK
<1>1. IInv => TypeOK
  BY DEF IInv
<1>. QED
  BY <1>1, Invariance, PTL

(* A resumed step trains the weights, the step counter and the data of one *)
(* and the same history.                                                   *)
THEOREM Resume_Consistent == Spec => []ResumeConsistent
<1>1. IInv => ResumeConsistent
  BY DEF IInv
<1>. QED
  BY <1>1, Invariance, PTL

(* A run never starts before the last completed save, and cannot start     *)
(* only after a kill within the tracker's write or under a keep limit.     *)
THEOREM Resumes_WhereSaved == Spec => []ResumesWhereSaved
<1>1. IInv => ResumesWhereSaved
  BY DEF IInv
<1>. QED
  BY <1>1, Invariance, PTL
===============================================================================
