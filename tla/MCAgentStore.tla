----------------------------- MODULE MCAgentStore -----------------------------
(* AgentStore on a small instance: a directory with two processes, two keys
   and two key ids, with a manifest that does not declare the scope that gets
   delegated. *)
EXTENDS AgentStore

write == <<"code", "write">>
generate == <<"image", "generate">>

WriteOnly == {{write}}
GenerateScope == {{generate}}

Symmetric == Permutations(Process) \cup Permutations(Key)
================================================================================
