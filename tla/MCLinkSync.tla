----------------------------- MODULE MCLinkSync -----------------------------
(* Constants of LinkSync for TLC.  Connections are named after the bank.   *)
EXTENDS LinkSync, TLC

CONSTANTS r1, r2, r3, d1, d2, demo, plaid

AllToDemo  == [r \in Requests |-> demo]
AllToPlaid == [r \in Requests |-> plaid]
NoPlaid    == {}
OnlyPlaid  == {plaid}

(* Requests about one connection are interchangeable, and so are           *)
(* deliveries; used by the runs that check no liveness.                    *)
Sessions == Permutations(Requests) \cup Permutations(Deliveries)
=============================================================================
