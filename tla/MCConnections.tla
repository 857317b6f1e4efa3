--------------------------- MODULE MCConnections ---------------------------
(* Constants of Connections for TLC.                                       *)
EXTENDS Connections, TLC

CONSTANTS u1, u2, b1, b2, j1, j2

Names == Permutations(Jobs) \cup Permutations(Banks) \cup Permutations(Users)
=============================================================================
