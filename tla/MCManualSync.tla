---------------------------- MODULE MCManualSync ----------------------------
(* Constants of ManualSync for TLC.                                        *)
EXTENDS ManualSync, TLC

CONSTANTS l1, l2, c1, c2, c3

Names == Permutations(Calls) \cup Permutations(Links)
=============================================================================
