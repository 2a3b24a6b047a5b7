------------------------------- MODULE MCWorkers -------------------------------
(* Workers on a small instance: three requests with one token, one with another. *)
EXTENDS Workers, TLC

CONSTANTS j1, j2, r1

TwoTokens == [r \in Request |-> IF r = r1 THEN j2 ELSE j1]

Symmetric == Permutations(Worker) \cup Permutations(Request \ {r1})
================================================================================
