------------------------------ MODULE MCAgentNames ------------------------------
(* Owners with and without a dot, names of up to two characters and "x.x", typed as a pair
   and as a URI, pairs with a "#", and what a user may get wrong. *)
EXTENDS AgentNames

Letters == {"x", "1"}

Owners == {<<"x">>, <<"x", "x">>, <<"x", ".", "x">>}
Names == {<<"x">>, <<"x", "x">>, <<>>}
DottedNames == {<<"x", ".", "x">>}

Pair(owner, name) == owner \o <<".">> \o name
Both(owners, names) ==
  {Pair(o, n): o \in owners, n \in names}
    \cup {AgentUri(o, n, k): o \in owners, n \in names, k \in {<<"1">>, <<"x", "#", "1">>}}

Hashed == {Pair(<<"x", "#", "x">>, <<"x">>), Pair(<<"x">>, <<"x", "#", "x">>)}

Wrong == {<<"x">>, <<"x", "/", "x", ".", "x">>, <<Scheme, "x", "/", "x">>,
          <<Scheme, "x", "#", "1">>, <<Scheme, "x", "#", "/", "x">>}

Arguments == Both(Owners, Names) \cup Both({<<"x">>}, DottedNames) \cup Hashed \cup Wrong
================================================================================
