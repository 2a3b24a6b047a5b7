------------------------------ MODULE AgentStore ------------------------------
(***************************************************************************)
(* The data directory of one agent: private.pem and manifest.json, and the *)
(* processes that open it through Agent.create (agent.py): a program that  *)
(* embeds the SDK and serves, and the commands of cli.py, each of which    *)
(* creates the agent, does one thing and exits.                            *)
(*                                                                         *)
(* Files are read and written one operation at a time: a process may die,  *)
(* and another may run, between exists() and the read or write that        *)
(* follows, and between the truncation of a file and its new content.      *)
(***************************************************************************)
EXTENDS Capability

CONSTANTS
  Process,    \* processes that open the directory
  Key,        \* key pairs KeyPair.generate may return
  NoKey,
  Kid,        \* key ids an agent URI may name; "1" is the default
  CapSet,     \* the capability sets that get published
  ScopeSet,   \* the scopes that get delegated
  Faults      \* whether processes die and writes fail

ASSUME KeyAssumption == NoKey \notin Key
ASSUME KidAssumption == "1" \in Kid
ASSUME FaultsAssumption == Faults \in BOOLEAN

VARIABLES
  pem,         \* private.pem
  mfile,       \* manifest.json
  proc,        \* proc[p]: where p is, and the Agent object it has built
  generated,   \* keys generated so far
  raced,       \* history: two processes have generated a key at once, none being there
  inSync,      \* history: processes that have read or are writing manifest.json with
               \* no other writer at it, and that no failure or writer has come after
  returned,    \* history: what publish_manifest has returned to one of them, until
               \* the file is opened for writing again
  tokens,      \* delegation tokens issued
  registered   \* the manifests of this agent that a peer has on record

files == <<pem, mfile>>
keys == <<generated, raced>>
history == <<inSync, returned>>
results == <<tokens, registered>>
vars == <<files, proc, keys, history, results>>

--------------------------------------------------------------------------------
(* A program that serves, or one command; "show" stands for `atf init' and
   `atf audit ls', which print what they have loaded. *)
Command == {"serve", "show", "publish", "delegate"}

Creating == {"open_key", "write_key"}
Open == {"running", "open_manifest", "write_manifest", "return_manifest"}
Holding == Open \cup {"check_manifest", "load_manifest"}
Ended == {"off", "bad_key", "bad_manifest", "refused"}

(* A manifest envelope: whose agent_id, whose signature, which capabilities. *)
Envelope == [kid: Kid, key: Key, caps: CapSet]
NoEnvelope == [kid |-> "1", key |-> NoKey, caps |-> {}]

File(content) == [state |-> "whole", content |-> content]
Absent(none) == [state |-> "absent", content |-> none]
Torn(none) == [state |-> "torn", content |-> none]
FileOf(Content, none) ==
  {File(c): c \in Content} \cup {Absent(none), Torn(none)}

Proc == [pc: {"check_key", "load_key", "chmod"} \cup Creating \cup Holding \cup Ended,
         cmd: Command, kid: Kid, key: Key \cup {NoKey},
         manifest: Envelope \cup {NoEnvelope}]

Off == [pc |-> "off", cmd |-> "serve", kid |-> "1", key |-> NoKey,
        manifest |-> NoEnvelope]

TypeOK ==
  /\ pem \in FileOf(Key, NoKey)
  /\ mfile \in FileOf(Envelope, NoEnvelope)
  /\ proc \in [Process -> Proc]
  /\ generated \subseteq Key
  /\ raced \in BOOLEAN
  /\ inSync \subseteq Process
  /\ returned \in Envelope \cup {NoEnvelope}
  /\ tokens \subseteq [kid: Kid, key: Key, scope: ScopeSet]
  /\ registered \subseteq Envelope

Init ==
  /\ pem = Absent(NoKey)
  /\ mfile = Absent(NoEnvelope)
  /\ proc = [p \in Process |-> Off]
  /\ generated = {}
  /\ raced = FALSE
  /\ inSync = {}
  /\ returned = NoEnvelope
  /\ tokens = {}
  /\ registered = {}
--------------------------------------------------------------------------------
At(p, pc) == proc[p].pc = pc
GoTo(p, pc) == proc' = [proc EXCEPT ![p].pc = pc]
End(p, pc) == proc' = [proc EXCEPT ![p] = [Off EXCEPT !.pc = pc]]

(* _resolve drops the key id of a URI, so that a command always creates the
   agent under the default one. *)
KidOf(cmd, uri) == IF cmd = "serve" THEN uri ELSE "1"

Start(p, cmd, uri) ==
  /\ proc[p].pc \in Ended
  /\ proc' = [proc EXCEPT ![p] = [Off EXCEPT !.pc = "check_key", !.cmd = cmd,
                                             !.kid = KidOf(cmd, uri)]]
  /\ inSync' = inSync \ {p}
  /\ UNCHANGED <<files, keys, returned, results>>

(* Variant with a bug: a fresh key every time, as the docstring of create says. *)
AlwaysGenerate(p) ==
  /\ At(p, "check_key")
  /\ \E k \in Key \ generated:
       /\ proc' = [proc EXCEPT ![p].pc = "open_key", ![p].key = k]
       /\ generated' = generated \cup {k}
  /\ UNCHANGED <<files, raced, history, results>>

(* key_path.exists(), and KeyPair.generate if it does not: a race if another process
   has generated one that is not stored yet. *)
CheckKey(p) ==
  /\ At(p, "check_key")
  /\ \/ pem.state # "absent" /\ GoTo(p, "load_key") /\ UNCHANGED keys
     \/ /\ pem.state = "absent"
        /\ raced' = (raced \/ \E q \in Process: proc[q].pc \in Creating)
        /\ \E k \in Key \ generated:
             /\ proc' = [proc EXCEPT ![p].pc = "open_key", ![p].key = k]
             /\ generated' = generated \cup {k}
  /\ UNCHANGED <<files, history, results>>

(* Variant with a bug: an empty file is taken for a key. *)
LoadKeyUnchecked(p) ==
  /\ At(p, "load_key")
  /\ proc' = [proc EXCEPT ![p].pc = "check_manifest", ![p].key = pem.content]
  /\ UNCHANGED <<files, keys, history, results>>

(* KeyPair.from_pem raises on an empty file. *)
LoadKey(p) ==
  /\ At(p, "load_key")
  /\ IF pem.state = "whole"
     THEN proc' = [proc EXCEPT ![p].pc = "check_manifest", ![p].key = pem.content]
     ELSE End(p, "bad_key")
  /\ UNCHANGED <<files, keys, history, results>>

(* write_bytes truncates the file, then writes; all keys have the same length. *)
OpenKey(p) ==
  /\ At(p, "open_key")
  /\ pem' = Torn(NoKey)
  /\ GoTo(p, "write_key")
  /\ UNCHANGED <<mfile, keys, history, results>>

WriteKey(p) ==
  /\ At(p, "write_key")
  /\ pem' = File(proc[p].key)
  /\ GoTo(p, "chmod")
  /\ UNCHANGED <<mfile, keys, history, results>>

(* chmod, and the audit log's file. *)
Chmod(p) ==
  /\ At(p, "chmod")
  /\ GoTo(p, "check_manifest")
  /\ UNCHANGED <<files, keys, history, results>>

CheckManifest(p) ==
  /\ At(p, "check_manifest")
  /\ GoTo(p, IF mfile.state = "absent" THEN "running" ELSE "load_manifest")
  /\ UNCHANGED <<files, keys, history, results>>

Writing(p) == At(p, "write_manifest")

(* p has the file to itself. *)
Synced(p) == IF \E q \in Process \ {p}: Writing(q) THEN {} ELSE {p}

(* json.loads raises on an incomplete file. *)
LoadManifest(p) ==
  /\ At(p, "load_manifest")
  /\ IF mfile.state = "whole"
     THEN /\ proc' = [proc EXCEPT ![p].pc = "running", ![p].manifest = mfile.content]
          /\ inSync' = (inSync \ {p}) \cup Synced(p)
     ELSE End(p, "bad_manifest") /\ UNCHANGED inSync
  /\ UNCHANGED <<files, keys, returned, results>>
--------------------------------------------------------------------------------
Does(p, cmd) == At(p, "running") /\ proc[p].cmd \in {"serve", cmd}

(* A command is over after its one operation; a program goes on. *)
Done(p) == IF proc[p].cmd = "serve" THEN GoTo(p, "running") ELSE End(p, "off")

(* publish_manifest: the new manifest is in memory, and served, before it is on
   disk. *)
Publish(p, caps) ==
  /\ Does(p, "publish")
  /\ proc' = [proc EXCEPT ![p].pc = "open_manifest",
                          ![p].manifest = [kid |-> proc[p].kid, key |-> proc[p].key,
                                           caps |-> caps]]
  /\ UNCHANGED <<files, keys, history, results>>

(* Variant with a bug: an existing file is taken for the one to be written. *)
OpenManifestOnce(p) ==
  /\ At(p, "open_manifest")
  /\ IF mfile.state = "absent"
     THEN mfile' = Torn(NoEnvelope) /\ GoTo(p, "write_manifest")
     ELSE GoTo(p, "return_manifest") /\ UNCHANGED mfile
  /\ inSync' = Synced(p)
  /\ returned' = NoEnvelope
  /\ UNCHANGED <<pem, keys, results>>

(* write_text truncates the file, *)
OpenManifest(p) ==
  /\ At(p, "open_manifest")
  /\ mfile' = Torn(NoEnvelope)
  /\ GoTo(p, "write_manifest")
  /\ inSync' = Synced(p)
  /\ returned' = NoEnvelope
  /\ UNCHANGED <<pem, keys, results>>

(* writes and closes it.  Another process may have filled it since: its longer
   manifest then shows behind the end of this one. *)
WriteManifest(p) ==
  /\ Writing(p)
  /\ \/ mfile' = File(proc[p].manifest)
     \/ mfile.state = "whole" /\ mfile' = Torn(NoEnvelope)
  /\ GoTo(p, "return_manifest")
  /\ UNCHANGED <<pem, keys, history, results>>

ReturnManifest(p) ==
  /\ At(p, "return_manifest")
  /\ returned' = IF p \in inSync THEN proc[p].manifest ELSE returned
  /\ Done(p)
  /\ UNCHANGED <<files, keys, inSync, results>>

(* Variant with a bug: an exception of write_text is caught and forgotten. *)
WriteFailsQuietly(p) ==
  /\ Faults
  /\ proc[p].pc \in {"open_manifest", "write_manifest"}
  /\ GoTo(p, "return_manifest")
  /\ UNCHANGED <<files, keys, history, results>>

(* publish_manifest raises: the manifest in memory stays the new one. *)
WriteFails(p) ==
  /\ Faults
  /\ proc[p].pc \in {"open_manifest", "write_manifest"}
  /\ Done(p)
  /\ inSync' = inSync \ {p}
  /\ UNCHANGED <<files, keys, returned, results>>

(* issue_delegation: the scope is checked against the manifest in memory, and not
   at all if there is none. *)
MayDelegate(p, scope) ==
  proc[p].manifest = NoEnvelope \/ ScopeDeclared(proc[p].manifest.caps, scope)

Delegate(p, scope) ==
  /\ Does(p, "delegate")
  /\ MayDelegate(p, scope)
  /\ tokens' = tokens \cup {[kid |-> proc[p].kid, key |-> proc[p].key, scope |-> scope]}
  /\ Done(p)
  /\ UNCHANGED <<files, keys, history, registered>>

RefuseDelegation(p, scope) ==
  /\ Does(p, "delegate")
  /\ ~MayDelegate(p, scope)
  /\ IF proc[p].cmd = "serve" THEN Done(p) ELSE End(p, "refused")
  /\ UNCHANGED <<files, keys, history, results>>

Show(p) ==
  /\ At(p, "running")
  /\ proc[p].cmd = "show"
  /\ End(p, "off")
  /\ UNCHANGED <<files, keys, history, results>>

(* register_peer at the peer, which has fetched the key and the manifest p serves and
   keeps one manifest per agent id. *)
Registrable(p) ==
  /\ proc[p].manifest.key = proc[p].key
  /\ proc[p].manifest.kid = proc[p].kid

Register(p) ==
  /\ proc[p].pc \in Open /\ proc[p].cmd = "serve"
  /\ proc[p].manifest # NoEnvelope
  /\ Registrable(p)
  /\ registered' = {r \in registered: r.kid # proc[p].kid} \cup {proc[p].manifest}
  /\ UNCHANGED <<files, proc, keys, history, tokens>>

Die(p) ==
  /\ Faults
  /\ proc[p].pc \notin Ended
  /\ End(p, "off")
  /\ UNCHANGED <<files, keys, history, results>>

Create(p) ==
  \/ CheckKey(p) \/ LoadKey(p) \/ OpenKey(p) \/ WriteKey(p) \/ Chmod(p)
  \/ CheckManifest(p) \/ LoadManifest(p)

Next ==
  \E p \in Process:
    \/ \E cmd \in Command, uri \in Kid: Start(p, cmd, uri)
    \/ Create(p)
    \/ \E caps \in CapSet: Publish(p, caps)
    \/ OpenManifest(p) \/ WriteManifest(p) \/ WriteFails(p) \/ ReturnManifest(p)
    \/ \E scope \in ScopeSet: Delegate(p, scope) \/ RefuseDelegation(p, scope)
    \/ Show(p) \/ Register(p) \/ Die(p)

Spec == Init /\ [][Next]_vars
--------------------------------------------------------------------------------
(* Without a race the directory is an agent with one key: whatever dies between two
   file operations of Agent.create, every step is one of OneKey's, so no process
   ever acts under a key other than the first that was stored. *)
OK == INSTANCE OneKey
        WITH chosen <- {pem.content} \ {NoKey},
             held <- [p \in Process |->
                        IF proc[p].pc \in Holding THEN {proc[p].key} ELSE {}]

OneKeyUnlessRaced == OK!Init /\ [][~raced' => [OK!Next]_(OK!vars)]_vars

(* Even after a race, in which a process may keep a key that another one's file
   replaced, the directory settles: with a key on disk and nobody between exists()
   and the end of the write, the key stays, and the processes that hold another one
   become no more, whatever is started or dies. *)
Settled ==
  /\ pem.state = "whole"
  /\ \A p \in Process: proc[p].pc \notin Creating

Strays == {p \in Process: proc[p].pc \in Holding \cup {"chmod"} /\ proc[p].key # pem.content}

SettledForGood ==
  [][Settled => Settled' /\ pem' = pem /\ Strays' \subseteq Strays]_vars

(* "any-token-verifies-with-issuer-key" (design 5.2), across processes, deaths and
   restarts: unless two processes created the agent at once, what a command issues
   verifies under the key that the peer has registered of a serving process. *)
TokensVerify ==
  ~raced => \A t \in tokens, r \in registered: t.kid = r.kid => t.key = r.key

(* An agent that serves a manifest of its own id can be registered: after any
   sequence of deaths, restarts and failed writes it is not one of an earlier key.
   (A manifest of another key id in the same directory stays one.) *)
ServedRegistrable ==
  ~raced =>
    \A p \in Process:
      /\ proc[p].pc \in Open
      /\ proc[p].manifest # NoEnvelope /\ proc[p].manifest.kid = proc[p].kid
      => Registrable(p)

(* What publish_manifest has returned is what the next process will load, until
   somebody opens the file again: deaths and failures of other processes, and those
   of a publisher whose manifest is in memory only, leave it alone. *)
ReturnedIsStored == returned # NoEnvelope => mfile = File(returned)

(* An agent serves and checks scopes by the manifest a restart would find, unless its
   own write has failed or another process has opened the file after it. *)
MemoryIsStored ==
  \A p \in inSync:
    At(p, "running") /\ proc[p].manifest # NoEnvelope => mfile = File(proc[p].manifest)
================================================================================
