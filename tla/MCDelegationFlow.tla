--------------------------- MODULE MCDelegationFlow ---------------------------
(* DelegationFlow on small instances: two agents, one hierarchy of capabilities,
   one action below it, one outside it, and callers that expect the right schema,
   the wrong one, or none. *)
EXTENDS DelegationFlow

CONSTANTS A, B, Image, Other

AtoB == {<<A, B>>}
SelfToo == {<<A, B>>, <<A, A>>}

img == <<"image">>
gen == <<"image", "generate">>
code == <<"code">>

Segments == {"image", "generate", "code"}
Handlers == [generate |-> [capability |-> gen, schema |-> Image]]

Ask(action, expect, cosign) == [action |-> action, expect |-> expect, cosign |-> cosign]

Plain == {Ask("generate", Image, TRUE)}
Unsigned == {Ask("generate", "any", FALSE), Ask("unknown", "any", TRUE)}
Mixed == {Ask("generate", Image, TRUE), Ask("generate", Other, FALSE)}

OneManifest == {{img}}
Manifests == {{img}, {code}}
OneScope == {{gen}}
Scopes == {{gen}, {img, code}}

Symmetric == Permutations(Call)
================================================================================
