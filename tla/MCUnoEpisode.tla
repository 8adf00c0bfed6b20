----------------------------- MODULE MCUnoEpisode -----------------------------
(* Small instances of UnoEpisode for TLC. *)
EXTENDS UnoEpisode

===============================================================================
