-------------------------------- MODULE Journal --------------------------------
(***************************************************************************)
(* What an agent's audit log promises to its readers: the class comment    *)
(* of AuditLog calls it "append-only at the API level".  Entries are       *)
(* added once, keep their content for ever, and the only later change is   *)
(* that an entry left open for the peer is countersigned once, which       *)
(* closes it.  AuditLog (one SQLite file, several writers) implements it.  *)
(***************************************************************************)
CONSTANTS
  Id,        \* event ids
  Content,   \* what both parties sign
  Signer     \* the parties whose signatures an entry can carry

VARIABLE entries   \* the set of entries in the log

Entry == [id: Id, content: Content, signers: SUBSET Signer, open: BOOLEAN]

Init == entries = {}

(* A new entry under an id the log does not hold. *)
Append(e) ==
  /\ \A f \in entries: f.id # e.id
  /\ entries' = entries \cup {e}

Closed(e, s) == [id |-> e.id, content |-> e.content,
                 signers |-> e.signers \cup {s}, open |-> FALSE]

(* The peer's signature arrives for an open entry and closes it. *)
Countersign(e, s) ==
  /\ e.open
  /\ s \notin e.signers
  /\ entries' = (entries \ {e}) \cup {Closed(e, s)}

Next ==
  \/ \E e \in Entry: Append(e)
  \/ \E e \in entries, s \in Signer: Countersign(e, s)

Spec == Init /\ [][Next]_entries
================================================================================
