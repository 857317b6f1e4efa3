--------------------------- MODULE MCSyncPipeline ---------------------------
(* Constants of SyncPipeline for TLC.                                      *)
EXTENDS SyncPipeline, TLC

CONSTANTS l1, l2, w1, w2

Names == Permutations(Links) \cup Permutations(Workers)
=============================================================================
