--------------------------- MODULE AgentStoreProofs ---------------------------
(***************************************************************************)
(* For any number of processes, keys and key ids on one data directory,    *)
(* with deaths and failed writes: until two processes create the agent at  *)
(* once it has one key, and what publish_manifest has returned is on disk  *)
(* until the file is opened again.                                         *)
(***************************************************************************)
EXTENDS AgentStore, TLAPS

Keyed == Holding \cup {"chmod"}

(* What holds of a process's place and Agent object: it knows a key when it needs
   one, and without a race it is the key of the file. *)
Fits(x) ==
  /\ x \in Proc
  /\ x.pc \in Creating \cup Keyed => x.key \in Key
  /\ x.pc \in Open \ {"running"} => x.manifest \in Envelope
  /\ x.pc \notin Open \cup Ended => x.manifest = NoEnvelope
  /\ ~raced =>
       /\ x.pc = "open_key" => pem.state = "absent"
       /\ x.pc = "write_key" => pem.state = "torn"
       /\ x.pc \in Keyed => pem.state = "whole" /\ x.key = pem.content
       /\ x.pc \in Holding /\ x.manifest # NoEnvelope => x.manifest.key = x.key

Fitting == \A p \in Process: Fits(proc[p])

(* Without a race one process at a time is between exists() and the end of the write. *)
Alone ==
  ~raced =>
    \A p, q \in Process: p # q /\ proc[p].pc \in Creating => proc[q].pc \notin Creating

(* Without a race everything signed is signed with the key of the file. *)
Owned ==
  ~raced =>
    /\ mfile.state = "whole" => pem.state = "whole" /\ mfile.content.key = pem.content
    /\ \A t \in tokens: pem.state = "whole" /\ t.key = pem.content
    /\ \A r \in registered: pem.state = "whole" /\ r.key = pem.content

(* A process in step with manifest.json has no other writer beside it, finds the file
   empty when it is about to fill it, and has the file's manifest afterwards; what
   has been returned is on disk, and nobody is writing. *)
Settling == {"return_manifest", "running"}

Agreed ==
  /\ \A p \in inSync:
       /\ \A q \in Process \ {p}: ~Writing(q)
       /\ Writing(p) => mfile.state # "whole"
       /\ proc[p].pc \in Settling /\ proc[p].manifest # NoEnvelope =>
            mfile = File(proc[p].manifest)
  /\ returned # NoEnvelope => mfile = File(returned) /\ \A q \in Process: ~Writing(q)

IInv == /\ TypeOK
        /\ Fitting
        /\ Alone
        /\ Owned
        /\ Agreed
--------------------------------------------------------------------------------
(* What FileOf's members are. *)
LEMMA FileFields ==
  ASSUME NEW Content, NEW none, NEW file \in FileOf(Content, none)
  PROVE  /\ file.state \in {"whole", "absent", "torn"}
         /\ file.state = "whole" => file.content \in Content
         /\ file.state # "whole" => file.content = none
BY DEF FileOf, File, Absent, Torn

(* A file without content is one of them, and so is one with content. *)
LEMMA FileMade ==
  ASSUME NEW Content, NEW none
  PROVE  /\ Torn(none) \in FileOf(Content, none)
         /\ Absent(none) \in FileOf(Content, none)
         /\ \A c \in Content: File(c) \in FileOf(Content, none)
BY DEF FileOf, Torn, Absent

(* A process that is not there fits. *)
LEMMA OffFits ==
  ASSUME NEW pc \in Ended
  PROVE  /\ [Off EXCEPT !.pc = pc] \in Proc
         /\ [Off EXCEPT !.pc = pc].pc = pc
         /\ pc \notin Creating \cup Keyed \cup Open
<1>1. "serve" \in Command /\ "1" \in Kid /\ pc \in Ended
  BY KidAssumption DEF Command
<1>2. QED
  BY <1>1 DEF Off, Proc, Ended, Creating, Keyed, Holding, Open

(* An empty directory. *)
LEMMA InitIInv == Init => IInv
<1> SUFFICES ASSUME Init PROVE IInv
  OBVIOUS
<1>1. \A p \in Process: proc[p] = Off /\ Off.pc = "off" /\ Off \in Proc
  BY KidAssumption DEF Init, Off, Proc, Command, Ended
<1>2. TypeOK
  <2>1. pem \in FileOf(Key, NoKey) /\ mfile \in FileOf(Envelope, NoEnvelope)
    BY FileMade DEF Init
  <2>2. QED
    BY <1>1, <2>1 DEF Init, TypeOK
<1>3. Fitting
  BY <1>1 DEF Fitting, Fits, Creating, Keyed, Holding, Open, Ended
<1>4. Alone
  BY <1>1 DEF Alone, Creating
<1>5. Owned /\ Agreed
  BY DEF Init, Owned, Agreed, Absent
<1>6. QED
  BY <1>2, <1>3, <1>4, <1>5 DEF IInv

(* The part of the invariant that is not about processes. *)
Stored ==
  /\ mfile \in FileOf(Envelope, NoEnvelope)
  /\ inSync \subseteq Process
  /\ returned \in Envelope \cup {NoEnvelope}
  /\ tokens \subseteq [kid: Kid, key: Key, scope: ScopeSet]
  /\ registered \subseteq Envelope
  /\ Owned

LEMMA SameStored ==
  ASSUME IInv, UNCHANGED <<files, results, returned>>, inSync' \subseteq inSync,
         ~raced' => ~raced
  PROVE  Stored'
BY DEF IInv, TypeOK, Stored, Owned, files, results

(* One process moves on; the key's file stays as it is. *)
LEMMA ProcStep ==
  ASSUME IInv, NEW p \in Process, NEW x,
         proc' = [proc EXCEPT ![p] = x],
         UNCHANGED pem,
         raced' \in BOOLEAN, ~raced' => ~raced,
         generated' \subseteq Key,
         Stored', Agreed',
         Fits(x),
         ~raced' /\ x.pc \in Creating => \A q \in Process \ {p}: proc[q].pc \notin Creating
  PROVE  IInv'
<1>1. proc'[p] = x /\ \A q \in Process \ {p}: proc'[q] = proc[q]
  BY DEF IInv, TypeOK
<1>2. TypeOK'
  BY DEF IInv, TypeOK, Fits, Stored
<1>3. Fitting'
  BY <1>1 DEF IInv, Fitting, Fits
<1>4. Alone'
  BY <1>1 DEF IInv, Alone
<1>5. QED
  BY <1>2, <1>3, <1>4 DEF IInv, Stored

(* A process that neither opens nor writes manifest.json stays in step with it if it
   keeps the manifest it has. *)
Keeps(p, x) ==
  /\ x.pc # "write_manifest"
  /\ p \in inSync' /\ x.pc \in Settling /\ x.manifest # NoEnvelope =>
       proc[p].pc \in Settling /\ x.manifest = proc[p].manifest

LEMMA AgreedKept ==
  ASSUME IInv, NEW p \in Process, NEW x,
         proc' = [proc EXCEPT ![p] = x],
         UNCHANGED <<mfile, returned>>, inSync' \subseteq inSync,
         Keeps(p, x)
  PROVE  Agreed'
<1>1. proc'[p] = x /\ \A q \in Process \ {p}: proc'[q] = proc[q]
  BY DEF IInv, TypeOK
<1>2. \A q \in Process: Writing(q)' => Writing(q) /\ q # p
  BY <1>1 DEF Writing, At, Keeps
<1>3. ASSUME NEW q \in inSync'
      PROVE  /\ \A r \in Process \ {q}: ~Writing(r)'
             /\ Writing(q)' => mfile'.state # "whole"
             /\ proc'[q].pc \in Settling /\ proc'[q].manifest # NoEnvelope =>
                  mfile' = File(proc'[q].manifest)
  <2>1. q \in inSync /\ q \in Process
    BY DEF IInv, TypeOK
  <2>2. CASE q = p
    BY <1>1, <1>2, <2>1, <2>2 DEF IInv, Agreed, Keeps
  <2>3. CASE q # p
    BY <1>1, <1>2, <2>1, <2>3 DEF IInv, Agreed
  <2>4. QED
    BY <2>2, <2>3
<1>4. returned' # NoEnvelope => mfile' = File(returned') /\ \A q \in Process: ~Writing(q)'
  BY <1>2 DEF IInv, Agreed
<1>5. QED
  BY <1>3, <1>4 DEF Agreed

(* A process that reads, thinks or issues. *)
LEMMA QuietStep ==
  ASSUME IInv, NEW p \in Process, NEW x,
         proc' = [proc EXCEPT ![p] = x],
         UNCHANGED <<files, returned>>, inSync' \subseteq inSync,
         raced' \in BOOLEAN, ~raced' => ~raced,
         generated' \subseteq Key,
         Stored',
         Fits(x), Keeps(p, x),
         ~raced' /\ x.pc \in Creating => \A q \in Process \ {p}: proc[q].pc \notin Creating
  PROVE  IInv'
<1>1. Agreed'
  BY AgreedKept DEF files
<1>2. QED
  BY <1>1, ProcStep DEF files

(* A process that ends. *)
LEMMA EndStep ==
  ASSUME IInv, NEW p \in Process, NEW pc \in Ended, End(p, pc),
         UNCHANGED <<pem, keys>>, Stored',
         (UNCHANGED <<mfile, returned>> /\ inSync' \subseteq inSync) \/ Agreed'
  PROVE  IInv'
<1> DEFINE x == [Off EXCEPT !.pc = pc]
<1>1. x \in Proc /\ x.pc = pc /\ pc \notin Creating \cup Keyed \cup Open
  BY OffFits
<1>2. Fits(x) /\ Keeps(p, x)
  BY <1>1 DEF Fits, Keeps, Settling, Creating, Keyed, Holding, Open
<1>3. proc' = [proc EXCEPT ![p] = x]
  BY DEF End
<1>4. x.pc \notin Creating
  BY <1>1
<1> HIDE DEF x
<1>5. Agreed'
  BY <1>2, <1>3, AgreedKept
<1>6. raced' \in BOOLEAN /\ (~raced' => ~raced) /\ generated' \subseteq Key
  BY DEF keys, IInv, TypeOK
<1>7. QED
  BY <1>2, <1>3, <1>4, <1>5, <1>6, ProcStep

(* A process that goes on to another place with the Agent object it has. *)
LEMMA GoToStep ==
  ASSUME IInv, NEW p \in Process,
         NEW pc \in {"load_key", "check_manifest", "load_manifest", "running",
                    "write_manifest", "return_manifest"},
         GoTo(p, pc),
         pc \in Keyed => proc[p].pc \in Keyed,
         pc \notin Open => proc[p].pc \notin Open \cup Ended,
         pc \in {"write_manifest", "return_manifest"} => proc[p].pc \in Open \ {"running"},
         UNCHANGED <<pem, keys>>, Stored', Agreed'
  PROVE  IInv'
<1> DEFINE x == [proc[p] EXCEPT !.pc = pc]
<1>1. proc[p] \in Proc /\ Fits(proc[p])
  BY DEF IInv, Fitting, Fits
<1>2. /\ x \in Proc /\ x.pc = pc /\ x.key = proc[p].key /\ x.manifest = proc[p].manifest
  BY <1>1 DEF Proc, Holding, Open
<1>3. Fits(x)
  BY <1>1, <1>2 DEF Fits, Creating, Keyed, Holding, Open, Ended
<1>4. proc' = [proc EXCEPT ![p] = x]
  BY DEF GoTo
<1>5. x.pc \notin Creating
  BY <1>2 DEF Creating
<1> HIDE DEF x
<1>6. raced' \in BOOLEAN /\ (~raced' => ~raced) /\ generated' \subseteq Key
  BY DEF keys, IInv, TypeOK
<1>7. QED
  BY <1>3, <1>4, <1>5, <1>6, ProcStep

(* Where it goes without having the file written, it stays in step. *)
LEMMA GoToKeeps ==
  ASSUME IInv, NEW p \in Process, NEW pc, GoTo(p, pc), pc # "write_manifest",
         p \in inSync' /\ pc \in Settling /\ proc[p].manifest # NoEnvelope =>
           proc[p].pc \in Settling,
         UNCHANGED <<mfile, returned>>, inSync' \subseteq inSync
  PROVE  Agreed'
<1> DEFINE x == [proc[p] EXCEPT !.pc = pc]
<1>1. x.pc = pc /\ x.manifest = proc[p].manifest
  BY DEF IInv, TypeOK, Proc
<1>2. proc' = [proc EXCEPT ![p] = x]
  BY DEF GoTo
<1> HIDE DEF x
<1>3. Keeps(p, x)
  BY <1>1 DEF Keeps
<1>4. QED
  BY <1>2, <1>3, AgreedKept

(* An operation that is over. *)
LEMMA DoneStep ==
  ASSUME IInv, NEW p \in Process, proc[p].pc \in Open, Done(p),
         UNCHANGED <<pem, keys>>, Stored',
         \/ /\ UNCHANGED <<mfile, returned>> /\ inSync' \subseteq inSync
            /\ p \in inSync' => proc[p].pc \in Settling
         \/ Agreed'
  PROVE  IInv'
<1>1. CASE proc[p].cmd = "serve"
  <2>1. GoTo(p, "running")
    BY <1>1 DEF Done
  <2>2. Agreed'
    BY <2>1, GoToKeeps
  <2>3. QED
    BY <2>1, <2>2, GoToStep DEF Keyed, Holding, Open
<1>2. CASE proc[p].cmd # "serve"
  BY <1>2, EndStep DEF Done, Ended
<1>3. QED
  BY <1>1, <1>2
--------------------------------------------------------------------------------
LEMMA StartStep ==
  ASSUME IInv, NEW p \in Process, NEW cmd \in Command, NEW uri \in Kid, Start(p, cmd, uri)
  PROVE  IInv'
<1> DEFINE x == [Off EXCEPT !.pc = "check_key", !.cmd = cmd,
                            !.kid = KidOf(cmd, uri)]
<1>1. KidOf(cmd, uri) \in Kid
  BY KidAssumption DEF KidOf
<1>2. x \in Proc /\ x.pc = "check_key" /\ x.manifest = NoEnvelope
  BY <1>1 DEF Off, Proc
<1>3. proc' = [proc EXCEPT ![p] = x]
  BY DEF Start
<1> HIDE DEF x
<1>4. Fits(x) /\ Keeps(p, x) /\ x.pc \notin Creating
  BY <1>2 DEF Fits, Keeps, Settling, Creating, Keyed, Holding, Open
<1>5. Stored'
  BY SameStored DEF Start, keys
<1>6. /\ UNCHANGED <<files, returned>> /\ inSync' \subseteq inSync
      /\ raced' \in BOOLEAN /\ (~raced' => ~raced) /\ generated' \subseteq Key
  BY DEF Start, keys, IInv, TypeOK
<1>7. QED
  BY <1>3, <1>4, <1>5, <1>6, QuietStep

(* A key generated while another is about to be stored is a race. *)
LEMMA CheckKeyStep ==
  ASSUME IInv, NEW p \in Process, CheckKey(p)
  PROVE  IInv'
<1>1. /\ UNCHANGED <<files, returned>> /\ inSync' \subseteq inSync
      /\ raced' \in BOOLEAN /\ (~raced' => ~raced)
  <2> DEFINE race == \E q \in Process: proc[q].pc \in Creating
  <2>1. UNCHANGED <<files, returned>> /\ inSync' \subseteq inSync
    BY DEF CheckKey, history
  <2>2. raced' = raced \/ raced' = (raced \/ race)
    BY DEF CheckKey, keys
  <2>3. raced \in BOOLEAN
    BY DEF IInv, TypeOK
  <2> HIDE DEF race
  <2>4. CASE raced' = raced
    BY <2>1, <2>3, <2>4
  <2>5. CASE raced' = (raced \/ race)
    <3>1. CASE raced' = TRUE
      BY <2>1, <3>1
    <3>2. CASE raced' = FALSE /\ ~raced
      BY <2>1, <3>2
    <3>3. QED
      BY <2>3, <2>5, <3>1, <3>2, Zenon
  <2>6. QED
    BY <2>2, <2>4, <2>5
<1>2. Stored'
  BY <1>1, SameStored DEF CheckKey
<1>3. CASE GoTo(p, "load_key") /\ UNCHANGED keys
  <2>1. Agreed'
    BY <1>1, <1>3, GoToKeeps DEF files, Settling
  <2>2. QED
    BY <1>1, <1>2, <1>3, <2>1, GoToStep DEF CheckKey, At, Keyed, Holding, Open, Ended, files
<1>4. CASE /\ pem.state = "absent"
           /\ raced' = (raced \/ \E q \in Process: proc[q].pc \in Creating)
           /\ \E k \in Key \ generated:
                /\ proc' = [proc EXCEPT ![p].pc = "open_key", ![p].key = k]
                /\ generated' = generated \cup {k}
  <2>1. PICK k \in Key \ generated:
          /\ proc' = [proc EXCEPT ![p].pc = "open_key", ![p].key = k]
          /\ generated' = generated \cup {k}
    BY <1>4
  <2> DEFINE x == [proc[p] EXCEPT !.pc = "open_key", !.key = k]
  <2>2. Fits(proc[p]) /\ proc[p].pc = "check_key"
    BY DEF IInv, Fitting, CheckKey, At
  <2>3. /\ x \in Proc /\ x.pc = "open_key" /\ x.key = k
        /\ x.manifest = proc[p].manifest
    BY <2>2 DEF Fits, Proc, Creating
  <2>4. Fits(x) /\ Keeps(p, x)
    BY <1>4, <2>2, <2>3 DEF Fits, Keeps, Settling, Creating, Keyed, Holding, Open, Ended
  <2>5. proc' = [proc EXCEPT ![p] = x] /\ generated' \subseteq Key
    BY <2>1 DEF IInv, TypeOK
  <2>6. ~raced' => \A q \in Process \ {p}: proc[q].pc \notin Creating
    BY <1>4
  <2> HIDE DEF x
  <2>7. QED
    BY <1>1, <1>2, <2>4, <2>5, <2>6, QuietStep
<1>5. QED
  BY <1>3, <1>4 DEF CheckKey

LEMMA LoadKeyStep ==
  ASSUME IInv, NEW p \in Process, LoadKey(p)
  PROVE  IInv'
<1>1. /\ UNCHANGED <<files, returned>> /\ inSync' \subseteq inSync /\ UNCHANGED keys
      /\ raced' \in BOOLEAN /\ (~raced' => ~raced) /\ generated' \subseteq Key
  BY DEF LoadKey, history, keys, IInv, TypeOK
<1>2. Stored'
  BY <1>1, SameStored DEF LoadKey
<1>3. CASE pem.state = "whole"
  <2> DEFINE x == [proc[p] EXCEPT !.pc = "check_manifest", !.key = pem.content]
  <2>1. pem.content \in Key
    BY <1>3, FileFields DEF IInv, TypeOK
  <2>2. Fits(proc[p]) /\ proc[p].pc = "load_key"
    BY DEF IInv, Fitting, LoadKey, At
  <2>3. /\ x \in Proc /\ x.pc = "check_manifest" /\ x.key = pem.content
        /\ x.manifest = NoEnvelope
    BY <2>1, <2>2 DEF Fits, Proc, Holding, Open, Ended
  <2>4. Fits(x) /\ Keeps(p, x) /\ x.pc \notin Creating
    BY <1>3, <2>1, <2>3 DEF Fits, Keeps, Settling, Creating, Open
  <2>5. proc' = [proc EXCEPT ![p] = x]
    BY <1>3 DEF LoadKey
  <2> HIDE DEF x
  <2>6. QED
    BY <1>1, <1>2, <2>4, <2>5, QuietStep
<1>4. CASE pem.state # "whole"
  BY <1>1, <1>2, <1>4, EndStep DEF LoadKey, Ended, files
<1>5. QED
  BY <1>3, <1>4

(* Without a race nobody holds a key yet when the file is opened and written. *)
LEMMA PemStep ==
  ASSUME IInv, NEW p \in Process, OpenKey(p) \/ WriteKey(p)
  PROVE  IInv'
<1> DEFINE pc == IF At(p, "open_key") THEN "write_key" ELSE "chmod"
           x == [proc[p] EXCEPT !.pc = pc]
<1>1. Fits(proc[p]) /\ proc[p].pc \in Creating
  BY DEF IInv, Fitting, OpenKey, WriteKey, At, Creating
<1>2. /\ x \in Proc /\ x.pc = pc /\ x.key = proc[p].key /\ x.key \in Key
      /\ x.manifest = NoEnvelope
  BY <1>1 DEF Fits, Proc, Creating, Keyed, Holding, Open, Ended
<1>3. /\ proc' = [proc EXCEPT ![p] = x]
      /\ UNCHANGED <<mfile, keys, history, results>>
      /\ IF At(p, "open_key") THEN pem' = Torn(NoKey) ELSE pem' = File(proc[p].key)
  BY DEF OpenKey, WriteKey, GoTo, At
<1>4. pem' \in FileOf(Key, NoKey)
  BY <1>2, <1>3, FileMade
<1>5. /\ At(p, "open_key") => pem'.state = "torn" /\ x.pc = "write_key"
      /\ ~At(p, "open_key") =>
           pem'.state = "whole" /\ pem'.content = x.key /\ x.pc = "chmod"
  BY <1>2, <1>3 DEF Torn, File
<1>6. ~raced =>
        /\ pem.state # "whole"
        /\ \A q \in Process \ {p}: proc[q].pc \notin Creating \cup Keyed
  BY <1>1 DEF IInv, Fitting, Fits, Alone, Creating
<1> HIDE DEF x, pc
<1>7. proc'[p] = x /\ \A q \in Process \ {p}: proc'[q] = proc[q]
  BY <1>3 DEF IInv, TypeOK
<1>8. TypeOK'
  BY <1>2, <1>3, <1>4 DEF IInv, TypeOK, keys, history, results
<1>9. Fitting'
  <2>1. \A q \in Process \ {p}: Fits(proc[q])'
    BY <1>3, <1>6, <1>7 DEF IInv, Fitting, Fits, Creating, Keyed, keys
  <2>2. Fits(proc[p])'
    BY <1>2, <1>5, <1>7 DEF Fits, Keyed, Holding, Open
  <2>3. QED
    BY <2>1, <2>2 DEF Fitting
<1>10. Alone'
  BY <1>3, <1>6, <1>7 DEF Alone, keys
<1>11. Owned'
  BY <1>3, <1>6 DEF IInv, Owned, keys, results
<1>12. Agreed'
  <2>1. x.pc \in {"write_key", "chmod"}
    BY <1>5
  <2>2. Keeps(p, x)
    BY <2>1 DEF Keeps, Settling
  <2>3. UNCHANGED <<mfile, returned>> /\ inSync' \subseteq inSync
    BY <1>3 DEF history
  <2>4. QED
    BY <1>3, <2>2, <2>3, AgreedKept
<1>13. QED
  BY <1>8, <1>9, <1>10, <1>11, <1>12 DEF IInv

(* What is read is in step with the file, if nobody is writing it. *)
LEMMA ManifestLoaded ==
  ASSUME IInv, NEW p \in Process, LoadManifest(p)
  PROVE  IInv'
<1>1. /\ UNCHANGED <<files, returned, keys>> /\ inSync' \subseteq Process
      /\ raced' \in BOOLEAN /\ (~raced' => ~raced) /\ generated' \subseteq Key
  BY DEF LoadManifest, keys, IInv, TypeOK, Synced
<1>2. Stored'
  BY <1>1 DEF LoadManifest, IInv, TypeOK, Stored, Owned, files, results, keys
<1>3. CASE mfile.state = "whole"
  <2> DEFINE x == [proc[p] EXCEPT !.pc = "running", !.manifest = mfile.content]
  <2>1. mfile.content \in Envelope /\ mfile = File(mfile.content)
    BY <1>3, FileFields DEF IInv, TypeOK, FileOf, File, Absent, Torn
  <2>2. Fits(proc[p]) /\ proc[p].pc = "load_manifest"
    BY DEF IInv, Fitting, LoadManifest, At
  <2>3. /\ x \in Proc /\ x.pc = "running" /\ x.key = proc[p].key
        /\ x.manifest = mfile.content
    BY <2>1, <2>2 DEF Fits, Proc, Holding, Open
  <2>4. Fits(x) /\ x.pc \notin Creating
    BY <1>3, <2>1, <2>2, <2>3 DEF IInv, Owned, Fits, Creating, Keyed, Holding, Open
  <2>5. proc' = [proc EXCEPT ![p] = x]
    BY <1>3 DEF LoadManifest
  <2> HIDE DEF x
  <2>6. proc'[p] = x /\ \A q \in Process \ {p}: proc'[q] = proc[q]
    BY <2>5 DEF IInv, TypeOK
  <2>7. ~Writing(p)' /\ \A q \in Process \ {p}: Writing(q)' <=> Writing(q)
    BY <2>3, <2>6 DEF Writing, At
  <2>8. \A q \in Process: ~Writing(q) => ~Writing(q)'
    BY <2>7
  <2>9. inSync' = (inSync \ {p}) \cup Synced(p)
    BY <1>3 DEF LoadManifest
  <2>10. ASSUME NEW q \in inSync'
         PROVE  /\ \A r \in Process \ {q}: ~Writing(r)'
                /\ Writing(q)' => mfile'.state # "whole"
                /\ proc'[q].pc \in Settling /\ proc'[q].manifest # NoEnvelope =>
                     mfile' = File(proc'[q].manifest)
    <3>1. CASE q = p
      <4>1. \A r \in Process \ {p}: ~Writing(r)
        BY <2>9, <3>1 DEF Synced
      <4>2. QED
        BY <1>1, <2>1, <2>3, <2>6, <2>7, <3>1, <4>1 DEF files
    <3>2. CASE q # p
      <4>1. q \in inSync /\ q \in Process
        BY <2>9, <3>2 DEF Synced, IInv, TypeOK
      <4>2. QED
        BY <1>1, <2>6, <2>7, <2>8, <3>2, <4>1 DEF files, IInv, Agreed
    <3>3. QED
      BY <3>1, <3>2
  <2>11. returned' # NoEnvelope => mfile' = File(returned') /\ \A q \in Process: ~Writing(q)'
    BY <1>1, <2>8 DEF files, IInv, Agreed
  <2>12. Agreed'
    BY <2>10, <2>11 DEF Agreed
  <2>13. QED
    BY <1>1, <1>2, <2>4, <2>5, <2>12, ProcStep DEF files
<1>4. CASE mfile.state # "whole"
  BY <1>1, <1>2, <1>4, EndStep DEF LoadManifest, Ended, files
<1>5. QED
  BY <1>3, <1>4

LEMMA PublishStep ==
  ASSUME IInv, NEW p \in Process, NEW caps \in CapSet, Publish(p, caps)
  PROVE  IInv'
<1> DEFINE m == [kid |-> proc[p].kid, key |-> proc[p].key, caps |-> caps]
           x == [proc[p] EXCEPT !.pc = "open_manifest", !.manifest = m]
<1>1. /\ UNCHANGED <<files, returned, keys>> /\ inSync' \subseteq inSync
      /\ raced' \in BOOLEAN /\ (~raced' => ~raced) /\ generated' \subseteq Key
  BY DEF Publish, history, keys, IInv, TypeOK
<1>2. Stored'
  BY <1>1, SameStored DEF Publish
<1>3. Fits(proc[p]) /\ proc[p].pc = "running"
  BY DEF IInv, Fitting, Publish, Does, At
<1>4. m \in Envelope /\ m.key = proc[p].key
  BY <1>3 DEF Fits, Proc, Envelope, Keyed, Holding, Open
<1>5. proc' = [proc EXCEPT ![p] = x]
  BY DEF Publish
<1> HIDE DEF m
<1>6. /\ x \in Proc /\ x.pc = "open_manifest" /\ x.key = proc[p].key /\ x.manifest = m
  BY <1>3, <1>4 DEF Fits, Proc, Holding, Open
<1>7. Fits(x) /\ Keeps(p, x) /\ x.pc \notin Creating
  BY <1>3, <1>4, <1>6 DEF Fits, Keeps, Settling, Creating, Keyed, Holding, Open
<1> HIDE DEF x
<1>8. QED
  BY <1>1, <1>2, <1>5, <1>7, QuietStep

(* Who opens the file is in step with it if it is the only writer; nobody else is. *)
LEMMA OpenManifestStep ==
  ASSUME IInv, NEW p \in Process, OpenManifest(p)
  PROVE  IInv'
<1>1. mfile'.state # "whole" /\ mfile' \in FileOf(Envelope, NoEnvelope)
  BY FileMade DEF OpenManifest, Torn
<1>2. Stored'
  BY <1>1 DEF OpenManifest, IInv, TypeOK, Stored, Owned, Synced, keys, results
<1>3. proc'[p].pc = "write_manifest" /\ \A q \in Process \ {p}: proc'[q] = proc[q]
  BY DEF OpenManifest, GoTo, IInv, TypeOK, Proc
<1>4. Agreed'
  <2>1. ASSUME NEW q \in inSync'
        PROVE  q = p /\ \A r \in Process \ {p}: ~Writing(r)'
    BY <1>3, <2>1 DEF OpenManifest, Synced, Writing, At
  <2>2. returned' = NoEnvelope
    BY DEF OpenManifest
  <2>3. proc'[p].pc \notin Settling
    BY <1>3 DEF Settling
  <2>4. QED
    BY <1>1, <2>1, <2>2, <2>3 DEF Agreed
<1>5. QED
  BY <1>2, <1>4, GoToStep DEF OpenManifest, At, Keyed, Holding, Open

(* The only writer finds the file empty, so that the file has what it writes. *)
LEMMA WriteManifestStep ==
  ASSUME IInv, NEW p \in Process, WriteManifest(p)
  PROVE  IInv'
<1>1. /\ Torn(NoEnvelope).state = "torn" /\ Torn(NoEnvelope) \in FileOf(Envelope, NoEnvelope)
      /\ \A c \in Envelope: File(c) \in FileOf(Envelope, NoEnvelope)
      /\ \A c: File(c).state = "whole" /\ File(c).content = c
  BY FileMade DEF Torn, File
<1>2. Fits(proc[p]) /\ proc[p].pc = "write_manifest" /\ proc[p].pc \in Holding /\ Writing(p)
  BY DEF IInv, Fitting, WriteManifest, Writing, At, Holding, Open
<1>3. /\ proc[p].manifest \in Envelope /\ proc[p].manifest # NoEnvelope
      /\ ~raced => pem.state = "whole" /\ proc[p].manifest.key = pem.content
  BY <1>2, KeyAssumption DEF Fits, Keyed, Open, Envelope, NoEnvelope
<1>4. UNCHANGED <<pem, keys, history, results>>
  BY DEF WriteManifest
<1>5. Stored'
  BY <1>1, <1>3, <1>4 DEF WriteManifest, IInv, TypeOK, Stored, Owned, keys, history, results
<1>6. /\ proc'[p].pc = "return_manifest" /\ proc'[p].manifest = proc[p].manifest
      /\ \A q \in Process \ {p}: proc'[q] = proc[q]
  BY DEF WriteManifest, GoTo, IInv, TypeOK, Proc
<1>7. Agreed'
  <2>1. ASSUME NEW q \in inSync'
        PROVE  /\ q = p /\ mfile' = File(proc[p].manifest)
               /\ \A r \in Process \ {p}: ~Writing(r)'
    <3>1. q \in inSync /\ q \in Process
      BY <1>4 DEF history, IInv, TypeOK
    <3>2. q = p
      BY <1>2, <3>1 DEF IInv, Agreed
    <3>3. mfile.state # "whole" /\ \A r \in Process \ {p}: ~Writing(r)
      BY <1>2, <3>1, <3>2 DEF IInv, Agreed
    <3>4. \A r \in Process \ {p}: ~Writing(r)'
      BY <1>6, <3>3 DEF Writing, At
    <3>5. QED
      BY <3>2, <3>3, <3>4 DEF WriteManifest
  <2>2. returned' = NoEnvelope
    BY <1>2, <1>4 DEF history, IInv, Agreed
  <2>3. ~Writing(p)'
    BY <1>6 DEF Writing, At
  <2>4. QED
    BY <1>6, <2>1, <2>2, <2>3 DEF Agreed
<1>8. QED
  BY <1>2, <1>4, <1>5, <1>7, GoToStep DEF WriteManifest, Keyed, Holding, Open

(* What a process in step returns is what the file has. *)
LEMMA ReturnManifestStep ==
  ASSUME IInv, NEW p \in Process, ReturnManifest(p)
  PROVE  IInv'
<1>1. Fits(proc[p]) /\ proc[p].pc = "return_manifest" /\ proc[p].pc \in Settling \cap Open
  BY DEF IInv, Fitting, ReturnManifest, At, Settling, Open
<1>2. proc[p].manifest \in Envelope /\ proc[p].manifest # NoEnvelope
  BY <1>1, KeyAssumption DEF Fits, Open, Envelope, NoEnvelope
<1>3. UNCHANGED <<files, keys, inSync, results>>
  BY DEF ReturnManifest
<1>4. Stored'
  BY <1>2, <1>3 DEF ReturnManifest, IInv, TypeOK, Stored, Owned, files, keys, results
<1>5. PICK x: /\ proc' = [proc EXCEPT ![p] = x]
              /\ x.pc # "write_manifest"
              /\ x.pc \in Settling => x.manifest = proc[p].manifest
  <2>1. CASE proc[p].cmd = "serve"
    <3> DEFINE x == [proc[p] EXCEPT !.pc = "running"]
    <3>1. proc' = [proc EXCEPT ![p] = x]
      BY <2>1 DEF ReturnManifest, Done, GoTo
    <3>2. x.pc = "running" /\ x.manifest = proc[p].manifest
      BY <1>1 DEF Fits, Proc
    <3> HIDE DEF x
    <3>3. QED
      BY <3>1, <3>2
  <2>2. CASE proc[p].cmd # "serve"
    <3> DEFINE x == [Off EXCEPT !.pc = "off"]
    <3>1. proc' = [proc EXCEPT ![p] = x]
      BY <2>2 DEF ReturnManifest, Done, End
    <3>2. x.pc = "off"
      BY DEF Off
    <3> HIDE DEF x
    <3>3. QED
      BY <3>1, <3>2 DEF Settling
  <2>3. QED
    BY <2>1, <2>2
<1>6. proc'[p] = x /\ \A q \in Process \ {p}: proc'[q] = proc[q]
  BY <1>5 DEF IInv, TypeOK
<1>7. ~Writing(p) /\ \A q \in Process: Writing(q)' => Writing(q)
  BY <1>1, <1>5, <1>6 DEF Writing, At
<1>8. Agreed'
  <2>1. ASSUME NEW q \in inSync'
        PROVE  /\ \A r \in Process \ {q}: ~Writing(r)'
               /\ Writing(q)' => mfile'.state # "whole"
               /\ proc'[q].pc \in Settling /\ proc'[q].manifest # NoEnvelope =>
                    mfile' = File(proc'[q].manifest)
    <3>1. q \in inSync /\ q \in Process /\ mfile' = mfile
      BY <1>3 DEF files, IInv, TypeOK
    <3>2. CASE q = p
      BY <1>1, <1>5, <1>6, <1>7, <3>1, <3>2 DEF IInv, Agreed
    <3>3. CASE q # p
      BY <1>6, <1>7, <3>1, <3>3 DEF IInv, Agreed
    <3>4. QED
      BY <3>2, <3>3
  <2>2. returned' # NoEnvelope =>
          mfile' = File(returned') /\ \A q \in Process: ~Writing(q)'
    <3>1. CASE p \in inSync
      <4>1. returned' = proc[p].manifest /\ mfile' = mfile
        BY <1>3, <3>1 DEF ReturnManifest, files
      <4>2. mfile = File(proc[p].manifest) /\ \A q \in Process \ {p}: ~Writing(q)
        BY <1>1, <1>2, <3>1 DEF IInv, Agreed
      <4>3. QED
        BY <1>7, <4>1, <4>2
    <3>2. CASE p \notin inSync
      BY <1>3, <1>7, <3>2 DEF ReturnManifest, IInv, Agreed, files
    <3>3. QED
      BY <3>1, <3>2
  <2>3. QED
    BY <2>1, <2>2 DEF Agreed
<1>9. QED
  BY <1>1, <1>3, <1>4, <1>8, DoneStep DEF ReturnManifest, files

(* What is signed is signed with the key the process holds. *)
LEMMA SignStep ==
  ASSUME IInv, NEW p \in Process,
         \/ \E scope \in ScopeSet: Delegate(p, scope)
         \/ Register(p)
  PROVE  IInv'
<1>1. ASSUME NEW scope \in ScopeSet, Delegate(p, scope)
      PROVE  IInv'
  <2>1. Fits(proc[p]) /\ proc[p].pc = "running" /\ proc[p].pc \in Holding \cap Open \cap Settling
    BY <1>1 DEF IInv, Fitting, Delegate, Does, At, Holding, Open, Settling
  <2>2. /\ proc[p].kid \in Kid /\ proc[p].key \in Key
        /\ ~raced => pem.state = "whole" /\ proc[p].key = pem.content
    BY <2>1 DEF Fits, Proc, Keyed
  <2>3. Stored'
    BY <1>1, <2>2 DEF Delegate, IInv, TypeOK, Stored, Owned, files, keys, history
  <2>4. QED
    BY <1>1, <2>1, <2>3, DoneStep DEF Delegate, files, keys, history
<1>2. CASE Register(p)
  <2>1. Fits(proc[p]) /\ proc[p].pc \in Holding
    BY <1>2 DEF IInv, Fitting, Register, Holding
  <2>2. /\ proc[p].manifest \in Envelope /\ proc[p].manifest.key = proc[p].key
        /\ ~raced => pem.state = "whole" /\ proc[p].key = pem.content
    BY <1>2, <2>1 DEF Fits, Proc, Keyed, Register, Registrable
  <2>3. Stored'
    BY <1>2, <2>2 DEF Register, IInv, TypeOK, Stored, Owned, files, keys, history
  <2>4. TypeOK' /\ Fitting' /\ Alone' /\ Agreed'
    BY <1>2, <2>3 DEF Register, IInv, TypeOK, Fitting, Fits, Alone, Agreed, Writing, At, Stored,
      files, keys, history
  <2>5. QED
    BY <2>3, <2>4 DEF Stored, IInv
<1>3. QED
  BY <1>1, <1>2

(* Every step of every process. *)
LEMMA NextIInv == IInv /\ [Next]_vars => IInv'
<1> SUFFICES ASSUME IInv, [Next]_vars PROVE IInv'
  OBVIOUS
<1>0. ASSUME UNCHANGED <<files, keys, returned, results>>, inSync' \subseteq inSync
      PROVE  Stored' /\ UNCHANGED <<pem, mfile>>
  BY <1>0, SameStored DEF files, keys
<1>1. ASSUME NEW p \in Process, Chmod(p) PROVE IInv'
  <2>1. Agreed'
    BY <1>1, GoToKeeps DEF Chmod, files, history, Settling
  <2>2. QED
    BY <1>0, <1>1, <2>1, GoToStep DEF Chmod, At, Keyed, Holding, Open, Ended, history
<1>2. ASSUME NEW p \in Process, CheckManifest(p) PROVE IInv'
  <2>1. proc[p].manifest = NoEnvelope
    BY <1>2 DEF CheckManifest, At, IInv, Fitting, Fits, Open, Ended
  <2>2. Agreed'
    BY <1>2, <2>1, GoToKeeps DEF CheckManifest, files, history
  <2>3. QED
    BY <1>0, <1>2, <2>2, GoToStep DEF CheckManifest, At, Keyed, Holding, Open, Ended, history
<1>3. ASSUME NEW p \in Process, WriteFails(p) PROVE IInv'
  BY <1>0, <1>3, DoneStep DEF WriteFails, Open
<1>4. ASSUME NEW p \in Process, NEW scope \in ScopeSet, RefuseDelegation(p, scope)
      PROVE  IInv'
  BY <1>0, <1>4, DoneStep, EndStep DEF RefuseDelegation, Does, At, Open, Ended, history, Settling
<1>5. ASSUME NEW p \in Process, Show(p) \/ Die(p) PROVE IInv'
  BY <1>0, <1>5, EndStep DEF Show, Die, Ended, history
<1>6. CASE UNCHANGED vars
  BY <1>6 DEF vars, files, keys, history, results, IInv, TypeOK, Fitting, Fits, Alone, Owned,
    Agreed, Writing, At
<1>7. QED
  BY <1>1, <1>2, <1>3, <1>4, <1>5, <1>6, StartStep, CheckKeyStep, LoadKeyStep, PemStep,
    ManifestLoaded, PublishStep, OpenManifestStep, WriteManifestStep, ReturnManifestStep, SignStep
  DEF Next, Create

LEMMA Invariant == Spec => []IInv
BY InitIInv, NextIInv, PTL DEF Spec
--------------------------------------------------------------------------------
(* Files, processes and what they have issued keep their shapes. *)
THEOREM TypeCorrect == Spec => []TypeOK
BY Invariant, PTL DEF IInv

(* Without a race at creation, whatever dies, restarts or fails to be written: a
   token of a command verifies under the key a peer has registered of the agent. *)
THEOREM Verifiable == Spec => []TokensVerify
<1>1. IInv => TokensVerify
  BY DEF IInv, Owned, TokensVerify
<1>2. QED
  BY <1>1, Invariant, PTL

(* Nor does a serving process ever serve a manifest of another key. *)
THEOREM Served == Spec => []ServedRegistrable
<1>1. IInv => ServedRegistrable
  BY DEF IInv, Fitting, Fits, Holding, ServedRegistrable, Registrable
<1>2. QED
  BY <1>1, Invariant, PTL

(* What publish_manifest has returned stays on disk until the file is opened again,
   however many processes publish, fail and die, with a race at creation or without. *)
THEOREM ReturnedStored == Spec => []ReturnedIsStored
<1>1. IInv => ReturnedIsStored
  BY DEF IInv, Agreed, ReturnedIsStored
<1>2. QED
  BY <1>1, Invariant, PTL

(* And a process in step with the file acts on the manifest a restart would load. *)
THEOREM MemoryStored == Spec => []MemoryIsStored
<1>1. IInv => MemoryIsStored
  BY DEF IInv, Agreed, MemoryIsStored, Settling, At
<1>2. QED
  BY <1>1, Invariant, PTL
--------------------------------------------------------------------------------
(* A step of process p, to x, that leaves private.pem alone: it generates a key only
   where none is, and gets one from the file or keeps what it has. *)
Moves(p, x) ==
  /\ proc' = [proc EXCEPT ![p] = x] /\ pem' = pem
  /\ x.pc \in Creating => pem.state = "absent"
  /\ x.pc \in Keyed => \/ proc[p].pc \in Keyed /\ x.key = proc[p].key
                       \/ pem.state = "whole" /\ x.key = pem.content

LEMMA EndMoves ==
  ASSUME NEW p \in Process, NEW pc \in Ended, End(p, pc), pem' = pem
  PROVE  \E x: Moves(p, x)
<1> DEFINE x == [Off EXCEPT !.pc = pc]
<1>1. x.pc \notin Creating \cup Keyed
  BY OffFits
<1>2. proc' = [proc EXCEPT ![p] = x]
  BY DEF End
<1> HIDE DEF x
<1>3. Moves(p, x)
  BY <1>1, <1>2 DEF Moves
<1>4. QED
  BY <1>3

LEMMA GoToMoves ==
  ASSUME TypeOK, NEW p \in Process, NEW pc, GoTo(p, pc), pem' = pem,
         pc \notin Creating, pc \in Keyed => proc[p].pc \in Keyed
  PROVE  \E x: Moves(p, x)
<1> DEFINE x == [proc[p] EXCEPT !.pc = pc]
<1>1. x.pc = pc /\ x.key = proc[p].key
  BY DEF TypeOK, Proc
<1>2. proc' = [proc EXCEPT ![p] = x]
  BY DEF GoTo
<1> HIDE DEF x
<1>3. Moves(p, x)
  BY <1>1, <1>2 DEF Moves
<1>4. QED
  BY <1>3

LEMMA DoneMoves ==
  ASSUME TypeOK, NEW p \in Process, proc[p].pc \in Open, Done(p), pem' = pem
  PROVE  \E x: Moves(p, x)
BY GoToMoves, EndMoves DEF Done, Open, Holding, Keyed, Creating, Ended

LEMMA NextMoves ==
  ASSUME TypeOK, [Next]_vars
  PROVE  \/ UNCHANGED <<pem, proc>>
         \/ \E p \in Process: OpenKey(p) \/ WriteKey(p) \/ \E x: Moves(p, x)
<1> USE DEF files
<1>1. ASSUME NEW p \in Process, NEW cmd \in Command, NEW uri \in Kid, Start(p, cmd, uri)
      PROVE  \E x: Moves(p, x)
  <2> DEFINE x == [Off EXCEPT !.pc = "check_key", !.cmd = cmd,
                              !.kid = KidOf(cmd, uri)]
  <2>1. x.pc \notin Creating \cup Keyed
    BY DEF Off, Creating, Keyed, Holding, Open
  <2>2. proc' = [proc EXCEPT ![p] = x] /\ pem' = pem
    BY <1>1 DEF Start
  <2> HIDE DEF x
  <2>3. Moves(p, x)
    BY <2>1, <2>2 DEF Moves
  <2>4. QED
    BY <2>3
<1>2. ASSUME NEW p \in Process, CheckKey(p) PROVE \E x: Moves(p, x)
  <2>1. CASE GoTo(p, "load_key")
    BY <1>2, <2>1, GoToMoves DEF CheckKey, Creating, Keyed, Holding, Open
  <2>2. ASSUME NEW k \in Key \ generated, pem.state = "absent",
               proc' = [proc EXCEPT ![p].pc = "open_key", ![p].key = k]
        PROVE  \E x: Moves(p, x)
    <3> DEFINE x == [proc[p] EXCEPT !.pc = "open_key", !.key = k]
    <3>1. x.pc \notin Keyed
      BY DEF TypeOK, Proc, Keyed, Holding, Open
    <3>2. proc' = [proc EXCEPT ![p] = x] /\ pem' = pem
      BY <1>2, <2>2 DEF CheckKey
    <3> HIDE DEF x
    <3>3. Moves(p, x)
      BY <2>2, <3>1, <3>2 DEF Moves
    <3>4. QED
      BY <3>3
  <2>3. QED
    BY <1>2, <2>1, <2>2 DEF CheckKey
<1>3. ASSUME NEW p \in Process, LoadKey(p) PROVE \E x: Moves(p, x)
  <2>1. CASE pem.state = "whole"
    <3> DEFINE x == [proc[p] EXCEPT !.pc = "check_manifest", !.key = pem.content]
    <3>1. x.key = pem.content /\ x.pc \notin Creating
      BY DEF TypeOK, Proc, Creating
    <3>2. proc' = [proc EXCEPT ![p] = x] /\ pem' = pem
      BY <1>3, <2>1 DEF LoadKey
    <3> HIDE DEF x
    <3>3. Moves(p, x)
      BY <2>1, <3>1, <3>2 DEF Moves
    <3>4. QED
      BY <3>3
  <2>2. CASE pem.state # "whole"
    BY <1>3, <2>2, EndMoves DEF LoadKey, Ended
  <2>3. QED
    BY <2>1, <2>2
<1>4. ASSUME NEW p \in Process, Chmod(p) \/ CheckManifest(p) \/ OpenManifest(p) \/ WriteManifest(p)
      PROVE  \E x: Moves(p, x)
  <2>1. \E pc \in Holding: GoTo(p, pc) /\ pem' = pem /\ proc[p].pc \in Keyed
    BY <1>4 DEF Chmod, CheckManifest, OpenManifest, WriteManifest, Writing, At, Keyed, Holding, Open
  <2>2. QED
    BY <2>1, GoToMoves DEF Creating, Keyed, Holding, Open
<1>5. ASSUME NEW p \in Process, LoadManifest(p) PROVE \E x: Moves(p, x)
  <2>1. CASE mfile.state = "whole"
    <3> DEFINE x == [proc[p] EXCEPT !.pc = "running", !.manifest = mfile.content]
    <3>1. x.key = proc[p].key /\ x.pc \notin Creating /\ proc[p].pc \in Keyed
      BY <1>5 DEF TypeOK, Proc, LoadManifest, At, Holding, Keyed, Creating
    <3>2. proc' = [proc EXCEPT ![p] = x] /\ pem' = pem
      BY <1>5, <2>1 DEF LoadManifest
    <3> HIDE DEF x
    <3>3. Moves(p, x)
      BY <3>1, <3>2 DEF Moves
    <3>4. QED
      BY <3>3
  <2>2. CASE mfile.state # "whole"
    BY <1>5, <2>2, EndMoves DEF LoadManifest, Ended
  <2>3. QED
    BY <2>1, <2>2
<1>6. ASSUME NEW p \in Process, NEW caps \in CapSet, Publish(p, caps)
      PROVE  \E x: Moves(p, x)
  <2> DEFINE m == [kid |-> proc[p].kid, key |-> proc[p].key, caps |-> caps]
             x == [proc[p] EXCEPT !.pc = "open_manifest", !.manifest = m]
  <2>1. proc' = [proc EXCEPT ![p] = x] /\ pem' = pem
    BY <1>6 DEF Publish
  <2> HIDE DEF m
  <2>2. x.key = proc[p].key /\ x.pc \notin Creating /\ proc[p].pc \in Keyed
    BY <1>6 DEF TypeOK, Proc, Publish, Does, At, Holding, Open, Keyed, Creating
  <2> HIDE DEF x
  <2>3. Moves(p, x)
    BY <2>1, <2>2 DEF Moves
  <2>4. QED
    BY <2>3
<1>7. ASSUME NEW p \in Process, WriteFails(p) \/ ReturnManifest(p) PROVE \E x: Moves(p, x)
  BY <1>7, DoneMoves DEF WriteFails, ReturnManifest, At, Open
<1>8. ASSUME NEW p \in Process, NEW scope \in ScopeSet,
             Delegate(p, scope) \/ RefuseDelegation(p, scope)
      PROVE  \E x: Moves(p, x)
  BY <1>8, DoneMoves, EndMoves DEF Delegate, RefuseDelegation, Does, At, Open, Ended
<1>9. ASSUME NEW p \in Process, Show(p) \/ Die(p) PROVE \E x: Moves(p, x)
  BY <1>9, EndMoves DEF Show, Die, Ended
<1>10. CASE UNCHANGED vars
  BY <1>10 DEF vars
<1>11. QED
  BY <1>1, <1>2, <1>3, <1>4, <1>5, <1>6, <1>7, <1>8, <1>9, <1>10 DEF Next, Create, Register

(* A stored key stays once nobody is about to write one, after a race too, and the
   processes that hold another become no more. *)
THEOREM Settles == Spec => SettledForGood
<1>1. IInv /\ Settled /\ [Next]_vars => Settled' /\ pem' = pem /\ Strays' \subseteq Strays
  <2> SUFFICES ASSUME IInv, Settled, [Next]_vars
               PROVE  Settled' /\ pem' = pem /\ Strays' \subseteq Strays
    OBVIOUS
  <2>1. TypeOK /\ \A p \in Process: ~OpenKey(p) /\ ~WriteKey(p)
    BY DEF IInv, Settled, OpenKey, WriteKey, At, Creating
  <2>2. CASE UNCHANGED <<pem, proc>>
    BY <2>2 DEF Settled, Strays
  <2>3. ASSUME NEW p \in Process, NEW x, Moves(p, x)
        PROVE  Settled' /\ pem' = pem /\ Strays' \subseteq Strays
    <3>1. /\ proc'[p] = x /\ \A q \in Process \ {p}: proc'[q] = proc[q]
          /\ pem' = pem /\ x.pc \notin Creating
      BY <2>1, <2>3 DEF Moves, TypeOK, Settled
    <3>2. Settled'
      BY <3>1 DEF Settled
    <3>3. Strays' \subseteq Strays
      BY <2>3, <3>1 DEF Strays, Moves, Keyed
    <3>4. QED
      BY <3>1, <3>2, <3>3
  <2>4. QED
    BY <2>1, <2>2, <2>3, NextMoves
<1>2. QED
  BY <1>1, Invariant, PTL DEF Spec, SettledForGood
--------------------------------------------------------------------------------
(* What OneKey sees of the directory. *)
Chosen == {pem.content} \ {NoKey}
Held(q) == IF proc[q].pc \in Holding THEN {proc[q].key} ELSE {}

(* A step of one process that leaves the file alone is one of OneKey's: the process
   keeps the key it holds, or takes the one of the file. *)
LEMMA KeyStep ==
  ASSUME IInv, ~raced, NEW p \in Process, NEW x, Moves(p, x)
  PROVE  OK!Next \/ UNCHANGED OK!vars
<1> DEFINE held == [q \in Process |-> Held(q)]
<1>0. proc' = [proc EXCEPT ![p] = x] /\ TypeOK /\ Fits(proc[p])
  BY DEF Moves, IInv, Fitting
<1>1. proc'[p] = x /\ \A q \in Process \ {p}: proc'[q] = proc[q]
  BY <1>0 DEF TypeOK
<1>2. /\ \A q \in Process \ {p}: Held(q)' = Held(q)
      /\ Held(p)' = IF x.pc \in Holding THEN {x.key} ELSE {}
  BY <1>1 DEF Held
<1>3. held' = [held EXCEPT ![p] = IF x.pc \in Holding THEN {x.key} ELSE {}]
  BY <1>2
<1>4. Chosen' = Chosen
  BY DEF Chosen, Moves
<1>5. CASE x.pc \in Holding /\ proc[p].pc \notin Holding
  <2>1. pem.state = "whole" /\ x.key = pem.content
    BY <1>0, <1>5 DEF Moves, Keyed, Fits
  <2>2. Chosen = {x.key} /\ Held(p) = {}
    BY <1>0, <1>5, <2>1, FileFields, KeyAssumption DEF Chosen, Held, TypeOK
  <2>3. OK!Adopt(p)
    BY <1>3, <1>4, <1>5, <2>2 DEF OK!Adopt, Chosen, Held
  <2>4. QED
    BY <2>3 DEF OK!Next
<1>6. CASE x.pc \notin Holding /\ proc[p].pc \in Holding
  <2>1. OK!Drop(p)
    BY <1>3, <1>4, <1>6 DEF OK!Drop, Chosen, Held
  <2>2. QED
    BY <2>1 DEF OK!Next
<1>7. CASE x.pc \in Holding <=> proc[p].pc \in Holding
  <2>1. x.pc \in Holding => x.key = proc[p].key
    BY <1>0, <1>7 DEF Moves, Fits, Keyed
  <2>2. held' = held
    BY <1>2, <1>7, <2>1 DEF Held
  <2>3. QED
    BY <1>4, <2>2 DEF OK!vars, Chosen, Held
<1>8. QED
  BY <1>5, <1>6, <1>7

(* Without a race the file is written once. *)
LEMMA PemKey ==
  ASSUME IInv, ~raced, NEW p \in Process, OpenKey(p) \/ WriteKey(p)
  PROVE  OK!Next \/ UNCHANGED OK!vars
<1> DEFINE held == [q \in Process |-> Held(q)]
<1>1. Fits(proc[p]) /\ proc[p].pc \in Creating
  BY DEF IInv, Fitting, OpenKey, WriteKey, At, Creating
<1>2. proc[p].key \in Key /\ pem.state # "whole" /\ pem.content = NoKey
  BY <1>1, FileFields DEF Fits, Creating, IInv, TypeOK
<1>3. held' = held
  BY <1>1 DEF OpenKey, WriteKey, GoTo, At, Held, Creating, Holding, Open, IInv, TypeOK, Proc
<1>4. CASE OpenKey(p)
  <2>1. Chosen' = Chosen
    BY <1>2, <1>4 DEF OpenKey, Chosen, Torn
  <2>2. QED
    BY <1>3, <2>1 DEF OK!vars, Chosen, Held
<1>5. CASE WriteKey(p)
  <2>1. Chosen = {} /\ Chosen' = {proc[p].key}
    BY <1>2, <1>5, KeyAssumption DEF WriteKey, Chosen, File
  <2>2. OK!Choose(proc[p].key)
    BY <1>3, <2>1 DEF OK!Choose, Chosen, Held
  <2>3. QED
    BY <1>2, <2>2 DEF OK!Next
<1>6. QED
  BY <1>4, <1>5

(* Every step until a race. *)
LEMMA NextKey == IInv /\ [Next]_vars /\ ~raced' => OK!Next \/ UNCHANGED OK!vars
<1> SUFFICES ASSUME IInv, [Next]_vars, ~raced' PROVE OK!Next \/ UNCHANGED OK!vars
  OBVIOUS
<1>1. ~raced
  BY DEF Next, Start, Create, CheckKey, LoadKey, OpenKey, WriteKey, Chmod, CheckManifest,
    LoadManifest, Publish, OpenManifest, WriteManifest, WriteFails, ReturnManifest, Delegate,
    RefuseDelegation, Show, Register, Die, vars, keys
<1>2. CASE UNCHANGED <<pem, proc>>
  BY <1>2 DEF OK!vars
<1>3. ASSUME NEW p \in Process, OpenKey(p) \/ WriteKey(p) \/ \E x: Moves(p, x)
      PROVE  OK!Next \/ UNCHANGED OK!vars
  BY <1>1, <1>3, PemKey, KeyStep
<1>4. QED
  BY <1>2, <1>3, NextMoves DEF IInv

(* Until two processes create the agent at once its directory implements OneKey:
   one key is ever chosen, and no process ever holds another. *)
THEOREM OneKeyKept == Spec => OneKeyUnlessRaced
<1>1. Init => OK!Init
  BY DEF Init, OK!Init, Absent, Off, Holding, Open
<1>2. IInv /\ [Next]_vars => (~raced' => [OK!Next]_(OK!vars))
  BY NextKey
<1>3. QED
  BY <1>1, <1>2, Invariant, PTL DEF Spec, OneKeyUnlessRaced
================================================================================
