-------------------------- MODULE MCProviderClient --------------------------
(* Constants of ProviderClient for TLC.                                    *)
EXTENDS ProviderClient, TLC

CONSTANTS c1, c2, c3, c4, c5

Callers == Permutations(Calls)
=============================================================================
