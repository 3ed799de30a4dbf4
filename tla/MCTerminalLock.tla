--------------------------- MODULE MCTerminalLock ---------------------------
(* Small instances of TerminalLock: connections 1 and 2 are two tabs of user  *)
(* "ann", connection 3 belongs to "bob".                                      *)
EXTENDS TerminalLock

MCUserOf == [c \in Connections |-> IF c = 3 THEN "bob" ELSE "ann"]
=============================================================================
