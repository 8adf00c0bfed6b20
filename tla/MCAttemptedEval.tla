--------------------------- MODULE MCAttemptedEval ---------------------------
(* Small instances of AttemptedEval for TLC. *)
EXTENDS AttemptedEval

===============================================================================
