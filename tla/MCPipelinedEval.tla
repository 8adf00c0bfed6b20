--------------------------- MODULE MCPipelinedEval ---------------------------
(* Small instances of PipelinedEval for TLC. *)
EXTENDS PipelinedEval

CONSTANTS answer

MCAnswers == {answer, Empty}

===============================================================================
