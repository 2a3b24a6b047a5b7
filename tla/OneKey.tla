-------------------------------- MODULE OneKey --------------------------------
(***************************************************************************)
(* What an agent's data directory promises about its key: the key is       *)
(* chosen once, and every process that acts as the agent, now or after a   *)
(* restart, has that key.  AgentStore implements it until two processes    *)
(* create the agent at the same time.                                      *)
(***************************************************************************)
CONSTANTS
  Key,       \* key pairs that may be generated
  Process    \* processes that act as the agent

VARIABLES
  chosen,    \* the agent's key, as a set of at most one
  held       \* held[p]: the key p has in memory, as a set of at most one

vars == <<chosen, held>>

Init ==
  /\ chosen = {}
  /\ held = [p \in Process |-> {}]

Choose(k) ==
  /\ chosen = {}
  /\ chosen' = {k}
  /\ UNCHANGED held

Adopt(p) ==
  /\ chosen # {} /\ held[p] = {}
  /\ held' = [held EXCEPT ![p] = chosen]
  /\ UNCHANGED chosen

Drop(p) ==
  /\ held[p] # {}
  /\ held' = [held EXCEPT ![p] = {}]
  /\ UNCHANGED chosen

Next ==
  \/ \E k \in Key: Choose(k)
  \/ \E p \in Process: Adopt(p) \/ Drop(p)

Spec == Init /\ [][Next]_vars
================================================================================
