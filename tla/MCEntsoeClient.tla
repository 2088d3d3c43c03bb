--------------------------- MODULE MCEntsoeClient ---------------------------
(* A small instance of EntsoeClient for TLC.                                *)
EXTENDS EntsoeClient, TLC

CONSTANTS t1, t2

Threads == Permutations(Callers)
=============================================================================
