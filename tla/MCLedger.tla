----------------------------- MODULE MCLedger -----------------------------
(* Constants of Ledger for TLC.                                            *)
EXTENDS Ledger

CONSTANTS all, week
=============================================================================
