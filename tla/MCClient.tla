------------------------------ MODULE MCClient ------------------------------
(* Small instances of Client for TLC.                                       *)
EXTENDS Client, TLC

CONSTANTS c1, c2

AllClientFaults == {"ack", "delete", "poll"}
Symmetry == Permutations(Clients)
=============================================================================
