----------------------------- MODULE MCTrainerLoop -----------------------------
(* Small instances of TrainerLoop for TLC. *)
EXTENDS TrainerLoop

===============================================================================
