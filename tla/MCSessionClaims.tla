-------------------------- MODULE MCSessionClaims ---------------------------
(* Small instances of SessionClaims: two instances, two or three files, and   *)
(* one or two clients.                                                        *)
EXTENDS SessionClaims, TLC

Symmetry == Permutations(Instances) \cup Permutations(Sessions) \cup Permutations(Clients)
=============================================================================
