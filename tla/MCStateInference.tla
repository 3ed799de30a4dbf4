-------------------------- MODULE MCStateInference --------------------------
(* Small instances of StateInference: a turn and the start of the next, with  *)
(* the patterns of two tools, or of none where only the log matters.          *)
EXTENDS StateInference

NoTools == {}
TwoTools == {"Read", "Bash"}
=============================================================================
