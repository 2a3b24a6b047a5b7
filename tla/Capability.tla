------------------------------ MODULE Capability ------------------------------
(***************************************************************************)
(* L1/L4: which capability names cover which.  A name such as              *)
(* "code.write.python" is the sequence of its dot-free segments, so that   *)
(* cap.startswith(declared + ".") is "declared is a strict prefix of cap". *)
(***************************************************************************)
EXTENDS SequencesExt

(* One declared name against one asked-for name, in manifest_has_capability and
   in _scope_covers: equal, or declared is an ancestor in the hierarchy. *)
Covers(declared, name) == name = declared \/ IsStrictPrefix(declared, name)

(* manifest_has_capability *)
HasCapability(caps, name) == \E d \in caps: Covers(d, name)

(* _scope_covers *)
ScopeCovers(scope, required) == \E s \in scope: Covers(s, required)

(* The loop over scope in issue_delegation (own manifest) and in verify_token
   (the delegator's manifest). *)
ScopeDeclared(caps, scope) == \A s \in scope: HasCapability(caps, s)
================================================================================
