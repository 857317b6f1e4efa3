------------------------ MODULE MCTransactionHistory ------------------------
(* Constants of TransactionHistory for TLC.                                *)
EXTENDS TransactionHistory

CONSTANTS s1, s2
=============================================================================
