------------------------------ MODULE TrainerLoop ------------------------------
(***************************************************************************)
(* The training loop that scripts/rl/run_grpo_uno.sh starts, and what a    *)
(* run that was killed leaves to the next one: RayPPOTrainer.fit with      *)
(* _save_checkpoint and _load_checkpoint (verl/trainer/ppo/ray_trainer.py) *)
(* and the checkpoint managers behind them (verl/utils/checkpoint).        *)
(*                                                                         *)
(* Abstractions.  Weights are the number of batches they were trained on,  *)
(* and the files of all ranks and contents of one role are one file.  A    *)
(* file under construction is Torn; so is the tracker between its          *)
(* truncation and its write.  The script's resume_mode is the default      *)
(* "auto", its critic_warmup is 0, its total_training_steps the length of  *)
(* all epochs; async_save is off, which only Megatron has.  A validation,  *)
(* a log call or a worker that raises ends the run like a kill.            *)
(***************************************************************************)
EXTENDS Naturals, Sequences

CONSTANTS BatchesPerEpoch, \* len(self.train_dataloader)
          Epochs,          \* trainer.total_epochs
          SaveFreq,        \* trainer.save_freq; 0 for none
          Keeps,           \* max_ckpt_to_keep, for actor and critic; 0 for None
          MaxRuns,         \* bound: how often the script is started
          None, Torn

ASSUME TrainerAssumption ==
  /\ BatchesPerEpoch \in Nat \ {0} /\ Epochs \in Nat \ {0}
  /\ SaveFreq \in Nat /\ Keeps \subseteq Nat /\ MaxRuns \in Nat
  /\ None \notin Nat \cup {"critic", "data", "tracker"}
  /\ Torn \notin Nat /\ None # Torn

VARIABLES
  use_critic, keep,     \* the configuration
  runs,                 \* how often the script was started
  pc,                   \* "down" (killed), "load", "train", "save", "advance",
                        \* "raised" (the load failed) or "done"
  global_steps, epoch,
  left,                 \* batches the iterator of this epoch still has
  fetched,              \* batches the dataloader has given out, over all runs
  weights,              \* of actor and critic
  part, writing,        \* "save": the file at hand, and whether it is open
  previous_saved_paths, \* the steps each checkpoint manager has saved
  ckpt,                 \* the directories global_step_*
  tracker,              \* latest_checkpointed_iteration.txt
  (* history *)
  saved,                \* the last step whose save was completed, or 0
  epoch_lost            \* a resumed iterator had nothing left

config == <<use_critic, keep>>
loop == <<global_steps, epoch, left, fetched, weights>>
saving == <<part, writing, previous_saved_paths>>
disk == <<ckpt, tracker>>
history == <<saved, epoch_lost>>
vars == <<config, runs, pc, loop, saving, disk, history>>

-------------------------------------------------------------------------------
Total == BatchesPerEpoch * Epochs   \* total_training_steps

Roles == {"actor", "critic"}
Parts == Roles \cup {"data", "tracker"}

Init ==
  /\ use_critic \in BOOLEAN /\ keep \in Keeps
  /\ runs = 0 /\ pc = "down"
  /\ global_steps = 0 /\ epoch = 0 /\ left = 0 /\ fetched = 0
  /\ weights = [r \in Roles |-> 0]
  /\ part = "actor" /\ writing = FALSE
  /\ previous_saved_paths = [r \in Roles |-> <<>>]
  /\ ckpt = [s \in 1..Total |-> [p \in Roles \cup {"data"} |-> None]]
  /\ tracker = None
  /\ saved = 0 /\ epoch_lost = FALSE

Running == pc \in {"load", "train", "save", "advance"}

Start ==
  /\ ~Running
  /\ runs < MaxRuns
  /\ runs' = runs + 1
  /\ pc' = "load"
  /\ global_steps' = 0 /\ epoch' = 0 /\ left' = 0 /\ fetched' = 0
  /\ weights' = [r \in Roles |-> 0]
  /\ part' = "actor" /\ writing' = FALSE
  /\ previous_saved_paths' = [r \in Roles |-> <<>>]
  /\ UNCHANGED <<config, disk, history>>

Crash ==
  /\ Running
  /\ pc' = "down"
  /\ UNCHANGED <<config, runs, loop, saving, disk, history>>

-------------------------------------------------------------------------------
(* _load_checkpoint, find_latest_ckpt_path and the start of fit *)

(* A bug the code does not have: a tracker without a number counts as      *)
(* none.                                                                   *)
LoadNothing_Torn ==
  /\ pc = "load"
  /\ tracker \in {None, Torn}
  /\ global_steps' = 1 /\ epoch' = 0 /\ left' = BatchesPerEpoch
  /\ pc' = "train"
  /\ UNCHANGED <<config, runs, fetched, weights, saving, disk, history>>

LoadNothing ==
  /\ pc = "load"
  /\ tracker = None
  /\ global_steps' = 1 /\ epoch' = 0 /\ left' = BatchesPerEpoch
  /\ pc' = "train"
  /\ UNCHANGED <<config, runs, fetched, weights, saving, disk, history>>

(* The files load_checkpoint asks for; data.pt may be missing. *)
Loadable(s) ==
  /\ ckpt[s]["actor"] \in Nat
  /\ use_critic => ckpt[s]["critic"] \in Nat
  /\ ckpt[s]["data"] # Torn

(* Once its directory is there, a checkpoint that cannot be read raises;   *)
(* so does int("") for a tracker that was truncated.                       *)
LoadRaises ==
  /\ pc = "load"
  /\ tracker # None
  /\ tracker \in Nat => ~Loadable(tracker)
  /\ pc' = "raised"
  /\ UNCHANGED <<config, runs, loop, saving, disk, history>>

(* A dataloader saved behind the last batch of its epoch is restored by    *)
(* torchdata (external) as an iterator with nothing left, or as a new one. *)
BatchesLeft(n) ==
  IF n % BatchesPerEpoch # 0 THEN {BatchesPerEpoch - (n % BatchesPerEpoch)}
  ELSE {BatchesPerEpoch} \cup (IF n = 0 THEN {} ELSE {0})

LoadCheckpoint ==
  /\ pc = "load"
  /\ tracker \in Nat
  /\ Loadable(tracker)
  /\ global_steps' = tracker + 1
  /\ epoch' = tracker \div BatchesPerEpoch
  /\ weights' = [r \in Roles |->
       IF r = "actor" \/ use_critic THEN ckpt[tracker][r] ELSE 0]
  /\ fetched' = IF ckpt[tracker]["data"] = None THEN 0 ELSE ckpt[tracker]["data"]
  /\ left' \in BatchesLeft(fetched')
  /\ pc' = IF epoch' < Epochs THEN "train" ELSE "done"
  /\ epoch_lost' = (epoch_lost \/ (left' = 0 /\ epoch' < Epochs))
  /\ UNCHANGED <<config, runs, saving, disk, saved>>

-------------------------------------------------------------------------------
(* The loop of fit *)

NextEpoch ==
  /\ pc = "train" /\ left = 0
  /\ epoch' = epoch + 1
  /\ IF epoch' < Epochs
     THEN left' = BatchesPerEpoch /\ UNCHANGED pc
     ELSE pc' = "done" /\ UNCHANGED left
  /\ UNCHANGED <<config, runs, global_steps, fetched, weights, saving, disk, history>>

IsLastStep == global_steps >= Total

(* A bug the code does not have: only multiples of save_freq are saved. *)
ShouldSave_FreqOnly(esi) ==
  SaveFreq > 0 /\ (global_steps % SaveFreq = 0 \/ esi)

ShouldSave(esi) ==
  SaveFreq > 0 /\ (IsLastStep \/ global_steps % SaveFreq = 0 \/ esi)

(* A batch is fetched, rolled out and trained on; the instance may be      *)
(* about to expire (ESI).                                                  *)
TrainStep ==
  /\ pc = "train" /\ left > 0
  /\ left' = left - 1
  /\ fetched' = fetched + 1
  /\ weights' = [r \in Roles |-> weights[r] + IF r = "actor" \/ use_critic THEN 1 ELSE 0]
  /\ \E esi \in BOOLEAN : pc' = IF ShouldSave(esi) THEN "save" ELSE "advance"
  /\ part' = "actor" /\ writing' = FALSE
  /\ UNCHANGED <<config, runs, global_steps, epoch, previous_saved_paths, disk, history>>

(* The metrics are logged and the next step begins, or fit returns. *)
Advance ==
  /\ pc = "advance"
  /\ global_steps' = global_steps + 1
  /\ pc' = IF IsLastStep THEN "done" ELSE "train"
  /\ UNCHANGED <<config, runs, epoch, left, fetched, weights, saving, disk, history>>

-------------------------------------------------------------------------------
(* _save_checkpoint *)

(* A bug the code does not have: the tracker is written before data.pt. *)
NextPart_TrackerFirst(p) ==
  CASE p = "actor" -> IF use_critic THEN "critic" ELSE "tracker"
    [] p = "critic" -> "tracker"
    [] p = "tracker" -> "data"
    [] p = "data" -> None

NextPart(p) ==
  CASE p = "actor" -> IF use_critic THEN "critic" ELSE "data"
    [] p = "critic" -> "data"
    [] p = "data" -> "tracker"
    [] p = "tracker" -> None

(* A bug the code does not have: room is made for no new checkpoint.       *)
Surplus_Keep(r) ==
  IF keep > 0 /\ Len(previous_saved_paths[r]) >= keep
  THEN Len(previous_saved_paths[r]) - keep
  ELSE 0

(* How many of its oldest checkpoints a manager removes before it writes. *)
Surplus(r) ==
  IF keep > 0 /\ Len(previous_saved_paths[r]) >= keep
  THEN Len(previous_saved_paths[r]) - keep + 1
  ELSE 0

(* Surplus checkpoints are removed and the first file is opened. *)
OpenRole ==
  /\ part \in Roles
  /\ LET steps == previous_saved_paths[part]
         removed == {steps[i] : i \in 1..Surplus(part)}
     IN /\ ckpt' = [s \in 1..Total |->
             [ckpt[s] EXCEPT ![part] = IF s = global_steps THEN Torn
                                       ELSE IF s \in removed THEN None ELSE @]]
        /\ previous_saved_paths' =
             [previous_saved_paths EXCEPT
                ![part] = SubSeq(steps, Surplus(part) + 1, Len(steps))]
  /\ UNCHANGED <<tracker, saved>>

OpenData ==
  /\ part = "data"
  /\ ckpt' = [ckpt EXCEPT ![global_steps][part] = Torn]
  /\ UNCHANGED <<tracker, saved, previous_saved_paths>>

OpenTracker ==
  /\ part = "tracker"
  /\ tracker' = Torn
  /\ UNCHANGED <<ckpt, saved, previous_saved_paths>>

SaveOpens ==
  /\ pc = "save" /\ ~writing
  /\ OpenRole \/ OpenData \/ OpenTracker
  /\ writing' = TRUE
  /\ UNCHANGED <<config, runs, pc, loop, part, epoch_lost>>

SaveCloses ==
  /\ pc = "save" /\ writing
  /\ \/ /\ part \in Roles
        /\ ckpt' = [ckpt EXCEPT ![global_steps][part] = weights[part]]
        /\ previous_saved_paths' =
             [previous_saved_paths EXCEPT ![part] = Append(@, global_steps)]
        /\ UNCHANGED tracker
     \/ /\ part = "data"
        /\ ckpt' = [ckpt EXCEPT ![global_steps][part] = fetched]
        /\ UNCHANGED <<tracker, previous_saved_paths>>
     \/ /\ part = "tracker"
        /\ tracker' = global_steps
        /\ UNCHANGED <<ckpt, previous_saved_paths>>
  /\ writing' = FALSE
  /\ IF NextPart(part) = None
     THEN pc' = "advance" /\ saved' = global_steps /\ UNCHANGED part
     ELSE part' = NextPart(part) /\ UNCHANGED <<pc, saved>>
  /\ UNCHANGED <<config, runs, loop, epoch_lost>>

-------------------------------------------------------------------------------
Trainer ==
  \/ LoadNothing \/ LoadRaises \/ LoadCheckpoint
  \/ NextEpoch \/ TrainStep \/ Advance
  \/ SaveOpens \/ SaveCloses

Next == Start \/ Crash \/ Trainer

(* A started trainer goes on until it is killed. *)
Spec == Init /\ [][Next]_vars /\ WF_vars(Trainer)

-------------------------------------------------------------------------------
File == Nat \cup {None, Torn}

LoopType ==
  /\ runs \in 0..MaxRuns
  /\ pc \in {"down", "load", "train", "save", "advance", "raised", "done"}
  /\ global_steps \in 0..Total + 1 /\ epoch \in 0..Epochs
  /\ left \in 0..BatchesPerEpoch /\ fetched \in 0..Total
  /\ weights \in [Roles -> 0..Total]

DiskType ==
  /\ use_critic \in BOOLEAN /\ keep \in Keeps
  /\ part \in Parts /\ writing \in BOOLEAN
  /\ previous_saved_paths \in [Roles -> Seq(1..Total)]
  /\ ckpt \in [1..Total -> [Roles \cup {"data"} -> File]]
  /\ tracker \in 1..Total \cup {None, Torn}
  /\ saved \in 0..Total /\ epoch_lost \in BOOLEAN

(* A manager never knows of more checkpoints of its own than it may keep. *)
DiskLimit == keep > 0 => \A r \in Roles : Len(previous_saved_paths[r]) <= keep

TypeOK == LoopType /\ DiskType /\ DiskLimit

(* Wherever the runs before were killed, the weights, the position in the  *)
(* data and the step counter agree when a step begins: no batch is trained *)
(* on twice and none is skipped in the history of the weights.             *)
ResumeConsistent ==
  pc = "train" =>
    /\ weights["actor"] = global_steps - 1
    /\ use_critic => weights["critic"] = global_steps - 1
    /\ fetched = global_steps - 1

(* A run starts behind the last save that was completed, and never before  *)
(* it.  Where it cannot, it raises, and only because the last run was      *)
(* killed as it wrote the tracker, or because a keep limit removes old     *)
(* checkpoints before the new one is complete.                             *)
ResumesWhereSaved ==
  /\ pc = "train" => global_steps > saved
  /\ pc = "raised" => tracker = Torn \/ keep > 0

FinalSaved ==
  tracker = Total /\ Loadable(Total) /\ ckpt[Total]["data"] = Total

(* A run that is not killed and does not fail to load ends with the final  *)
(* checkpoint complete, unless the dataloader had lost an epoch.           *)
TrainingEnds ==
  (pc = "load") ~>
    (pc \in {"down", "raised"} \/ (pc = "done" /\ (FinalSaved \/ epoch_lost)))

-------------------------------------------------------------------------------
(* The inductive invariant. *)

(* The counters agree at every place of a step, and steps are in range. *)
InStep ==
  /\ pc = "load" =>
       /\ global_steps = 0 /\ fetched = 0
       /\ weights["actor"] = 0 /\ weights["critic"] = 0
  /\ pc = "train" => global_steps \in 1..Total /\ epoch < Epochs /\ global_steps > saved
  /\ pc \in {"save", "advance"} =>
       /\ global_steps \in 1..Total /\ epoch < Epochs /\ global_steps >= saved
       /\ fetched = global_steps /\ weights["actor"] = global_steps
       /\ use_critic => weights["critic"] = global_steps

Kept == {"actor", "data"} \cup (IF use_critic THEN {"critic"} ELSE {})

(* A whole file of a checkpoint is of that step. *)
OnDisk == \A s \in 1..Total : \A p \in Kept : ckpt[s][p] \in {None, Torn, s}

Before(p) ==
  CASE p = "actor" -> {}
    [] p = "critic" -> {"actor"}
    [] p = "data" -> Kept \ {"data"}
    [] p = "tracker" -> Kept

(* What was saved before the file at hand is whole, and there is room. *)
SaveProgress ==
  pc = "save" =>
    /\ part \in Kept \cup {"tracker"}
    /\ \A p \in Before(part) : ckpt[global_steps][p] = global_steps
    /\ (part = "tracker" /\ writing) => tracker = Torn
    /\ (writing /\ part \in Roles /\ keep > 0) => Len(previous_saved_paths[part]) < keep

(* The checkpoint the tracker names is behind the step at hand, not before *)
(* the last completed save, and whole unless old ones are removed; its     *)
(* data.pt always is.                                                      *)
Tracked ==
  /\ tracker = None => saved = 0
  /\ tracker \in Nat =>
       /\ tracker >= saved
       /\ pc \in {"train", "save"} => tracker < global_steps
       /\ pc = "advance" => tracker <= global_steps
       /\ ckpt[tracker]["data"] = tracker
       /\ keep = 0 => \A p \in Kept : ckpt[tracker][p] = tracker

IInv ==
  /\ TypeOK /\ InStep /\ OnDisk /\ SaveProgress /\ Tracked
  /\ ResumeConsistent /\ ResumesWhereSaved

===============================================================================
