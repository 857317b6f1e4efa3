---------------------------- MODULE MCWebSession ----------------------------
(* Constants of WebSession for TLC.                                        *)
EXTENDS WebSession, TLC

CONSTANTS u1, u2, s1, s2, p1

Names == Permutations(Users) \cup Permutations(SignIns)
=============================================================================
