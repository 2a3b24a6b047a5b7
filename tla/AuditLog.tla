------------------------------- MODULE AuditLog -------------------------------
(***************************************************************************)
(* L7: one agent's audit.sqlite (audit.py) with its concurrent writers.    *)
(* A writer is a thread or process holding an AuditLog on the same file:   *)
(* the server's event loop, the thread that uses the SDK as a client, an   *)
(* `atf delegate` started by hand.  _insert runs its SELECT and its INSERT *)
(* on connections of their own; finalize_pending runs its SELECT and its   *)
(* UPDATE on one connection, which opens no transaction before the UPDATE. *)
(* So other writers' statements fall between the two in both.              *)
(*                                                                         *)
(* A hash is taken as collision free: prev_hash is represented by the id   *)
(* of the row whose chain_hash it copies, and chain_hash by the content    *)
(* and the set of signatures it was computed over (`hashed').              *)
(***************************************************************************)
EXTENDS Naturals, FiniteSets

CONSTANTS
  Writer,    \* threads and processes that opened the file
  EventId,   \* event ids; the order is that of the random uuid strings
  MaxTime    \* bound on int(time.time())

ASSUME WriterAssumption == IsFiniteSet(Writer)
ASSUME EventIdAssumption == EventId \subseteq Nat \ {0}
ASSUME MaxTimeAssumption == MaxTime \in Nat

VARIABLES
  clock,      \* int(time.time()) of the host
  rows,       \* the events table: primary key -> row
  lastRowid,  \* SQLite's implicit rowid of the last insert
  job         \* what each writer is in the middle of

vars == <<clock, rows, lastRowid, job>>

Genesis == 0
Signer == {"self", "peer"}

Row == [ts: 0..MaxTime, prev: EventId \cup {Genesis}, hashed: SUBSET Signer,
        sigs: SUBSET Signer, pending: BOOLEAN, rowid: Nat]

Job == [pc: {"idle", "read_head", "insert", "update"},
        id: EventId \cup {Genesis}, ts: 0..MaxTime, sigs: SUBSET Signer,
        pending: BOOLEAN, prev: EventId \cup {Genesis}]

Idle == [pc |-> "idle", id |-> Genesis, ts |-> 0, sigs |-> {},
         pending |-> FALSE, prev |-> Genesis]

TypeOK ==
  /\ clock \in 0..MaxTime
  /\ DOMAIN rows \subseteq EventId
  /\ rows \in [DOMAIN rows -> Row]
  /\ lastRowid \in Nat
  /\ job \in [Writer -> Job]

Init ==
  /\ clock = 0
  /\ rows = [e \in {} |-> Idle]
  /\ lastRowid = 0
  /\ job = [w \in Writer |-> Idle]

Tick ==
  /\ clock < MaxTime
  /\ clock' = clock + 1
  /\ UNCHANGED <<rows, lastRowid, job>>

--------------------------------------------------------------------------------
(* The order of latest_hash's query: ORDER BY ts DESC, event_id DESC. *)
Later(p, q) ==
  \/ rows[p].ts > rows[q].ts
  \/ rows[p].ts = rows[q].ts /\ p > q

(* Variant with a bug: WHERE pending_peer = 0. *)
LatestSettled(h) ==
  LET settled == {e \in DOMAIN rows: ~rows[e].pending} IN
  \/ h = Genesis /\ settled = {}
  \/ h \in settled /\ \A q \in settled \ {h}: Later(h, q)

Latest(h) ==
  \/ h = Genesis /\ DOMAIN rows = {}
  \/ h \in DOMAIN rows /\ \A q \in DOMAIN rows \ {h}: Later(h, q)

(* uuid4: an id nobody has used. *)
Fresh(id) == id \notin DOMAIN rows /\ \A w \in Writer: job[w].id # id

Begin(w, id, ts, sigs, pending) ==
  /\ job[w].pc = "idle"
  /\ job' = [job EXCEPT ![w] = [pc |-> "read_head", id |-> id, ts |-> ts,
                                sigs |-> sigs, pending |-> pending,
                                prev |-> Genesis]]
  /\ UNCHANGED <<clock, rows, lastRowid>>

(* Variant with a bug: a timestamp rounded up instead of truncated. *)
AppendSelfRoundedUp(w, id) == Fresh(id) /\ Begin(w, id, clock + 1, {"self"}, FALSE)

AppendSelf(w, id) == Fresh(id) /\ Begin(w, id, clock, {"self"}, FALSE)

AppendPending(w, id) == Fresh(id) /\ Begin(w, id, clock, {"self"}, TRUE)

(* The event was built by the peer, so its id and timestamp are the peer's.
   An agent that delegates to itself finds its own pending row there. *)
AppendFinalized(w, id, ts) ==
  /\ Fresh(id) \/ (id \in DOMAIN rows /\ rows[id].pending)
  /\ Begin(w, id, ts, Signer, FALSE)

(* Variant with a bug: the hash of a row another writer is about to insert. *)
ReadHeadUncommitted(w) ==
  /\ job[w].pc = "read_head"
  /\ \E v \in Writer \ {w}:
       job' = [job EXCEPT ![w].pc = "insert", ![w].prev = job[v].id]
  /\ UNCHANGED <<clock, rows, lastRowid>>

(* _insert, first connection: latest_hash. *)
ReadHead(w) ==
  /\ job[w].pc = "read_head"
  /\ \E h \in DOMAIN rows \cup {Genesis}:
       /\ Latest(h)
       /\ job' = [job EXCEPT ![w].pc = "insert", ![w].prev = h]
  /\ UNCHANGED <<clock, rows, lastRowid>>

(* _insert, second connection: the row, if its primary key is free. *)
Insert(w) ==
  /\ job[w].pc = "insert"
  /\ job[w].id \notin DOMAIN rows
  /\ rows' = [e \in DOMAIN rows \cup {job[w].id} |->
                IF e = job[w].id
                THEN [ts |-> job[w].ts, prev |-> job[w].prev,
                      hashed |-> job[w].sigs, sigs |-> job[w].sigs,
                      pending |-> job[w].pending, rowid |-> lastRowid + 1]
                ELSE rows[e]]
  /\ lastRowid' = lastRowid + 1
  /\ job' = [job EXCEPT ![w] = Idle]
  /\ UNCHANGED clock

(* finalize_pending: the SELECT and its three checks. *)
FinalizePending(w, id) ==
  /\ job[w].pc = "idle"
  /\ id \in DOMAIN rows
  /\ rows[id].pending
  /\ job' = [job EXCEPT ![w] = [pc |-> "update", id |-> id, ts |-> rows[id].ts,
                                sigs |-> rows[id].sigs \cup {"peer"},
                                pending |-> FALSE, prev |-> rows[id].prev]]
  /\ UNCHANGED <<clock, rows, lastRowid>>

(* Variant with a bug: the UPDATE leaves pending_peer as it was. *)
UpdateStillPending(w) ==
  /\ job[w].pc = "update"
  /\ rows' = [rows EXCEPT ![job[w].id].sigs = job[w].sigs]
  /\ job' = [job EXCEPT ![w] = Idle]
  /\ UNCHANGED <<clock, lastRowid>>

(* finalize_pending: the UPDATE, whatever became of the row since the SELECT. *)
Update(w) ==
  /\ job[w].pc = "update"
  /\ rows' = [rows EXCEPT ![job[w].id].sigs = job[w].sigs,
                          ![job[w].id].pending = FALSE]
  /\ job' = [job EXCEPT ![w] = Idle]
  /\ UNCHANGED <<clock, lastRowid>>

(* A statement raises (database locked, duplicate key) or the writer dies:
   the connection closes without a commit. *)
Abort(w) ==
  /\ job[w].pc # "idle"
  /\ job' = [job EXCEPT ![w] = Idle]
  /\ UNCHANGED <<clock, rows, lastRowid>>

Next ==
  \/ Tick
  \/ \E w \in Writer:
       \/ \E id \in EventId: \/ AppendSelf(w, id)
                             \/ AppendPending(w, id)
                             \/ FinalizePending(w, id)
                             \/ \E ts \in 0..MaxTime: AppendFinalized(w, id, ts)
       \/ ReadHead(w) \/ Insert(w) \/ Update(w) \/ Abort(w)

Spec == Init /\ [][Next]_vars
--------------------------------------------------------------------------------
(* However the writers interleave, prev_hash of a row is the hash of a row that
   was committed before it: walking back always ends at GENESIS_HASH and never
   meets a hash that was computed for an insert that failed. *)
ChainRooted ==
  \A e \in DOMAIN rows:
    \/ rows[e].prev = Genesis
    \/ /\ rows[e].prev \in DOMAIN rows
       /\ rows[rows[e].prev].rowid < rows[e].rowid

(* Rows came in by increasing timestamp and, within a second, increasing id. *)
InsertedInOrder ==
  \A p, q \in DOMAIN rows:
    rows[p].rowid < rows[q].rowid =>
      rows[p].ts < rows[q].ts \/ (rows[p].ts = rows[q].ts /\ p < q)

(* As long as the rows came in by the order latest_hash sorts by, no row has more
   successors than there are writers: only writers that read the head before its
   first successor was committed continue it.  With one writer that is a chain, and
   neither failed inserts nor countersignatures in between can break it. *)
Successors(p) == {e \in DOMAIN rows: rows[e].prev = p}

ForksBounded ==
  InsertedInOrder =>
    \A p \in DOMAIN rows \cup {Genesis}: Cardinality(Successors(p)) <= Cardinality(Writer)

(* The table, forgetting the chain, is the append-only journal of the class
   comment: rows are never lost, overwritten or reopened by another writer. *)
J == INSTANCE Journal
       WITH Id <- EventId, Content <- 0..MaxTime,
            entries <- {[id |-> e, content |-> rows[e].ts,
                         signers |-> rows[e].sigs, open |-> rows[e].pending] :
                          e \in DOMAIN rows}

JournalSpec == J!Spec

(* "hash-chained" (design 2.3, L7): the rows of one log form one chain, so no
   two of them continue the same row.  Refuted with a single writer: see the
   run audit_chain_forks. *)
ChainLinear ==
  \A p, q \in DOMAIN rows: p # q => rows[p].prev # rows[q].prev
================================================================================
