---------------------------- MODULE MCCodingToImage ----------------------------
(* The names of run.py; 2 seconds stand for the token's 60, so that it may expire. *)
EXTENDS CodingToImage

generate == <<"image", "generate">>
CodingCaps == {<<"code", "write">>, generate}
ImageCaps == {generate}
Scope == {generate}

CapSets == {CodingCaps, ImageCaps}
Handlers == [image_generate |-> [capability |-> generate, schema |-> "image.generate.v1"]]
Ask == [action |-> "image_generate", expect |-> "image.generate.v1", cosign |-> TRUE]

Pair == {<<coding, image>>}
Segments == {"code", "write", "image", "generate"}
Requests == {Ask}
ScopeSets == {Scope}
================================================================================
