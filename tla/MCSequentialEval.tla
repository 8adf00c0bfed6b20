--------------------------- MODULE MCSequentialEval ---------------------------
(* Small instances of SequentialEval for TLC. *)
EXTENDS SequentialEval

===============================================================================
