---------------------------- MODULE AuditLogProofs ----------------------------
(***************************************************************************)
(* For any number of writers, event ids and seconds: the log is typed, its *)
(* chain is rooted and forks no wider than there are writers, and it       *)
(* implements the append-only Journal.                                     *)
(***************************************************************************)
EXTENDS AuditLog, FiniteSetTheorems, TLAPS

(* Rowids grow, so a committed row is below every row still to come. *)
RowidBound == \A e \in DOMAIN rows: rows[e].rowid <= lastRowid

(* A row waits for the peer exactly as long as it lacks its signature. *)
OpenUnsigned == \A e \in DOMAIN rows: rows[e].pending => rows[e].sigs = {"self"}

(* A writer about to insert holds the hash of a committed row, and one that
   inserts an open row has signed it alone. *)
InsertReady ==
  \A w \in Writer:
    /\ job[w].pc = "insert" => job[w].prev \in DOMAIN rows \cup {Genesis}
    /\ job[w].pc \in {"read_head", "insert"} =>
         job[w].id \in EventId /\ (job[w].pending => job[w].sigs = {"self"})

(* A writer about to update found its row open; if another writer came first,
   the row already is what this one is going to write. *)
UpdateReady ==
  \A w \in Writer: job[w].pc = "update" =>
    /\ job[w].id \in DOMAIN rows
    /\ job[w].sigs = Signer
    /\ rows[job[w].id].pending \/ rows[job[w].id].sigs = Signer

IInv == /\ TypeOK
        /\ ChainRooted
        /\ RowidBound
        /\ OpenUnsigned
        /\ InsertReady
        /\ UpdateReady
--------------------------------------------------------------------------------
(* An empty log satisfies the invariant. *)
LEMMA InitIInv == Init => IInv
<1> SUFFICES ASSUME Init PROVE IInv
  OBVIOUS
<1>1. DOMAIN rows = {}
  BY DEF Init
<1>2. TypeOK
  BY <1>1, MaxTimeAssumption DEF Init, TypeOK, Job, Idle, Row, Signer, Genesis
<1>3. QED
  BY <1>1, <1>2 DEF Init, IInv, ChainRooted, RowidBound, OpenUnsigned, InsertReady,
    UpdateReady, Idle, Genesis, Signer

(* Starting an append touches no row. *)
LEMMA BeginStep ==
  ASSUME IInv, NEW w \in Writer, NEW id \in EventId, NEW ts \in 0..MaxTime,
         NEW sigs \in SUBSET Signer, NEW pending \in BOOLEAN,
         pending => sigs = {"self"}, Begin(w, id, ts, sigs, pending)
  PROVE  IInv'
<1>1. TypeOK'
  BY DEF IInv, TypeOK, Begin, Job, Genesis
<1>2. InsertReady' /\ UpdateReady'
  BY DEF IInv, TypeOK, InsertReady, UpdateReady, Begin, Job
<1>3. QED
  BY <1>1, <1>2 DEF IInv, Begin, ChainRooted, RowidBound, OpenUnsigned

(* Reading the head hands the writer a committed row, or the genesis hash. *)
LEMMA ReadHeadStep ==
  ASSUME IInv, NEW w \in Writer, ReadHead(w)
  PROVE  IInv'
<1>1. PICK h \in DOMAIN rows \cup {Genesis}:
        job' = [job EXCEPT ![w].pc = "insert", ![w].prev = h]
  BY DEF ReadHead
<1>2. TypeOK'
  <2>1. h \in EventId \cup {Genesis}
    BY DEF IInv, TypeOK
  <2>2. job[w] \in Job
    BY DEF IInv, TypeOK
  <2>3. [job[w] EXCEPT !.pc = "insert", !.prev = h] \in Job
    BY <2>1, <2>2 DEF Job
  <2>4. QED
    BY <1>1, <2>3 DEF IInv, TypeOK, ReadHead
<1>3. InsertReady' /\ UpdateReady'
  BY <1>1 DEF IInv, TypeOK, InsertReady, UpdateReady, ReadHead, Job
<1>4. QED
  BY <1>2, <1>3 DEF IInv, ReadHead, ChainRooted, RowidBound, OpenUnsigned

(* An insert adds one row, above every other, behind a committed one. *)
LEMMA InsertStep ==
  ASSUME IInv, NEW w \in Writer, Insert(w)
  PROVE  IInv'
<1> DEFINE id == job[w].id
           new == [ts |-> job[w].ts, prev |-> job[w].prev, hashed |-> job[w].sigs,
                   sigs |-> job[w].sigs, pending |-> job[w].pending,
                   rowid |-> lastRowid + 1]
<1>1. /\ id \in EventId /\ id \notin DOMAIN rows
      /\ job[w].prev \in DOMAIN rows \cup {Genesis}
      /\ job[w].pending => job[w].sigs = {"self"}
  BY DEF IInv, InsertReady, Insert
<1>2. new \in Row
  BY DEF IInv, TypeOK, Job, Row
<1>3. rows' = [e \in DOMAIN rows \cup {id} |-> IF e = id THEN new ELSE rows[e]]
  BY DEF Insert
<1> HIDE DEF new
<1>4. /\ DOMAIN rows' = DOMAIN rows \cup {id}
      /\ rows'[id] = new
      /\ \A e \in DOMAIN rows: e # id /\ rows'[e] = rows[e]
  BY <1>1, <1>3
<1>5. TypeOK'
  <2>1. rows' \in [DOMAIN rows' -> Row]
    BY <1>1, <1>2, <1>3, <1>4 DEF IInv, TypeOK
  <2>2. job' \in [Writer -> Job]
    BY MaxTimeAssumption DEF IInv, TypeOK, Insert, Idle, Job, Signer, Genesis
  <2>3. QED
    BY <1>1, <1>4, <2>1, <2>2 DEF IInv, TypeOK, Insert
<1>6. ChainRooted'
  <2>1. ASSUME NEW e \in DOMAIN rows', rows'[e].prev # Genesis
        PROVE  /\ rows'[e].prev \in DOMAIN rows'
               /\ rows'[rows'[e].prev].rowid < rows'[e].rowid
    <3>1. CASE e = id
      <4>1. /\ rows'[e].prev = job[w].prev /\ rows'[e].rowid = lastRowid + 1
            /\ job[w].prev \in DOMAIN rows
        BY <1>1, <1>4, <2>1, <3>1 DEF new
      <4>2. rows[job[w].prev].rowid \in Nat /\ rows[job[w].prev].rowid <= lastRowid
        BY <4>1 DEF IInv, RowidBound, TypeOK, Row
      <4>3. QED
        BY <1>4, <4>1, <4>2 DEF IInv, TypeOK
    <3>2. CASE e \in DOMAIN rows
      BY <1>4, <2>1, <3>2 DEF IInv, ChainRooted
    <3>3. QED
      BY <1>4, <3>1, <3>2
  <2>2. QED
    BY <2>1 DEF ChainRooted
<1>7. RowidBound'
  <2>1. lastRowid' = lastRowid + 1
    BY DEF Insert
  <2>2. new.rowid = lastRowid + 1
    BY DEF new
  <2>3. \A e \in DOMAIN rows: rows[e].rowid \in Nat /\ rows[e].rowid <= lastRowid
    BY DEF IInv, RowidBound, TypeOK, Row
  <2>4. QED
    BY <1>4, <2>1, <2>2, <2>3 DEF RowidBound, IInv, TypeOK
<1>8. OpenUnsigned'
  BY <1>1, <1>4 DEF IInv, OpenUnsigned, new
<1>9. InsertReady' /\ UpdateReady'
  <2>1. /\ job'[w] = Idle
        /\ \A v \in Writer \ {w}: job'[v] = job[v]
    BY DEF Insert, IInv, TypeOK
  <2>2. Idle.pc = "idle"
    BY DEF Idle
  <2>3. QED
    BY <1>4, <2>1, <2>2 DEF IInv, InsertReady, UpdateReady
<1>10. QED
  BY <1>5, <1>6, <1>7, <1>8, <1>9 DEF IInv

(* Finding an open row obliges the writer to close it with both signatures. *)
LEMMA FinalizePendingStep ==
  ASSUME IInv, NEW w \in Writer, NEW id \in EventId, FinalizePending(w, id)
  PROVE  IInv'
<1>1. rows[id].sigs \cup {"peer"} = Signer
  BY DEF IInv, OpenUnsigned, FinalizePending, Signer
<1>2. job'[w].pc = "update" /\ job'[w].id = id /\ job'[w].sigs = Signer
  BY <1>1 DEF IInv, TypeOK, FinalizePending
<1>3. \A v \in Writer \ {w}: job'[v] = job[v]
  BY DEF IInv, TypeOK, FinalizePending
<1>4. TypeOK'
  <2>1. rows[id] \in Row
    BY DEF IInv, TypeOK, FinalizePending
  <2>2. [pc |-> "update", id |-> id, ts |-> rows[id].ts, sigs |-> Signer,
         pending |-> FALSE, prev |-> rows[id].prev] \in Job
    BY <2>1 DEF Row, Job
  <2>3. QED
    BY <1>1, <2>2 DEF IInv, TypeOK, FinalizePending
<1>5. InsertReady'
  BY <1>2, <1>3 DEF IInv, InsertReady, FinalizePending
<1>6. UpdateReady'
  BY <1>2, <1>3 DEF IInv, UpdateReady, FinalizePending
<1>7. QED
  BY <1>4, <1>5, <1>6 DEF IInv, FinalizePending, ChainRooted, RowidBound, OpenUnsigned

(* The update closes its row and leaves the chain alone. *)
LEMMA UpdateStep ==
  ASSUME IInv, NEW w \in Writer, Update(w)
  PROVE  IInv'
<1> DEFINE id == job[w].id
<1>1. id \in DOMAIN rows /\ job[w].sigs = Signer
  BY DEF IInv, UpdateReady, Update
<1>2. /\ DOMAIN rows' = DOMAIN rows
      /\ rows'[id] = [rows[id] EXCEPT !.sigs = Signer, !.pending = FALSE]
      /\ \A e \in DOMAIN rows \ {id}: rows'[e] = rows[e]
  BY <1>1 DEF IInv, TypeOK, Update
<1>3. rows[id] \in Row
  BY <1>1 DEF IInv, TypeOK
<1>4. /\ rows'[id].prev = rows[id].prev /\ rows'[id].rowid = rows[id].rowid
      /\ rows'[id].sigs = Signer /\ ~rows'[id].pending /\ rows'[id] \in Row
  BY <1>2, <1>3 DEF Row, Signer
<1>5. \A e \in DOMAIN rows: rows'[e].prev = rows[e].prev /\ rows'[e].rowid = rows[e].rowid
  BY <1>2, <1>4
<1>6. TypeOK'
  <2>1. rows' \in [DOMAIN rows' -> Row]
    <3>1. \A e \in DOMAIN rows': rows'[e] \in Row
      BY <1>2, <1>4 DEF IInv, TypeOK
    <3>2. rows' = [e \in DOMAIN rows' |-> rows'[e]]
      BY DEF IInv, TypeOK, Update
    <3>3. QED
      BY <3>1, <3>2
  <2>2. job' \in [Writer -> Job]
    BY MaxTimeAssumption DEF IInv, TypeOK, Update, Idle, Job, Signer, Genesis
  <2>3. QED
    BY <1>2, <2>1, <2>2 DEF IInv, TypeOK, Update
<1>7. ChainRooted' /\ RowidBound'
  BY <1>2, <1>5 DEF IInv, ChainRooted, RowidBound, Update
<1>8. OpenUnsigned'
  BY <1>2, <1>4 DEF IInv, OpenUnsigned
<1>9. InsertReady' /\ UpdateReady'
  <2>1. /\ job'[w] = Idle
        /\ \A v \in Writer \ {w}: job'[v] = job[v]
    BY DEF Update, IInv, TypeOK
  <2>2. Idle.pc = "idle"
    BY DEF Idle
  <2>3. InsertReady'
    BY <1>2, <2>1, <2>2 DEF IInv, InsertReady
  <2>4. ASSUME NEW v \in Writer, job'[v].pc = "update"
        PROVE  /\ job'[v].id \in DOMAIN rows'
               /\ job'[v].sigs = Signer
               /\ rows'[job'[v].id].pending \/ rows'[job'[v].id].sigs = Signer
    <3>1. v # w /\ job'[v] = job[v]
      BY <2>1, <2>2, <2>4
    <3>2. /\ job[v].id \in DOMAIN rows /\ job[v].sigs = Signer
          /\ rows[job[v].id].pending \/ rows[job[v].id].sigs = Signer
      BY <2>4, <3>1 DEF IInv, UpdateReady
    <3>3. CASE job[v].id = id
      BY <1>2, <1>4, <3>1, <3>2, <3>3
    <3>4. CASE job[v].id # id
      BY <1>2, <3>1, <3>2, <3>4
    <3>5. QED
      BY <3>3, <3>4
  <2>5. QED
    BY <2>3, <2>4 DEF UpdateReady
<1>10. QED
  BY <1>6, <1>7, <1>8, <1>9 DEF IInv

(* A writer that gives up leaves no trace. *)
LEMMA AbortStep ==
  ASSUME IInv, NEW w \in Writer, Abort(w)
  PROVE  IInv'
<1>1. /\ job'[w] = Idle /\ Idle.pc = "idle"
      /\ \A v \in Writer \ {w}: job'[v] = job[v]
  BY DEF Abort, IInv, TypeOK, Idle
<1>2. TypeOK'
  BY MaxTimeAssumption DEF IInv, TypeOK, Abort, Idle, Job, Signer, Genesis
<1>3. QED
  BY <1>1, <1>2 DEF IInv, Abort, ChainRooted, RowidBound, OpenUnsigned, InsertReady,
    UpdateReady

(* Every step of every writer keeps the invariant. *)
LEMMA NextIInv == IInv /\ [Next]_vars => IInv'
<1> SUFFICES ASSUME IInv, [Next]_vars PROVE IInv'
  OBVIOUS
<1>1. CASE Tick
  BY <1>1, MaxTimeAssumption DEF IInv, Tick, TypeOK, ChainRooted, RowidBound,
    OpenUnsigned, InsertReady, UpdateReady
<1>2. ASSUME NEW w \in Writer, NEW id \in EventId,
             AppendSelf(w, id) \/ AppendPending(w, id)
      PROVE  IInv'
  <2>1. clock \in 0..MaxTime /\ {"self"} \in SUBSET Signer
    BY DEF IInv, TypeOK, Signer
  <2>2. QED
    BY <1>2, <2>1, BeginStep DEF AppendSelf, AppendPending
<1>3. ASSUME NEW w \in Writer, NEW id \in EventId, NEW ts \in 0..MaxTime,
             AppendFinalized(w, id, ts)
      PROVE  IInv'
  BY <1>3, BeginStep DEF AppendFinalized
<1>4. CASE UNCHANGED vars
  BY <1>4 DEF vars, IInv, TypeOK, ChainRooted, RowidBound, OpenUnsigned, InsertReady,
    UpdateReady
<1>5. QED
  BY <1>1, <1>2, <1>3, <1>4, ReadHeadStep, InsertStep, FinalizePendingStep, UpdateStep,
    AbortStep DEF Next

(* The invariant holds in every reachable state. *)
THEOREM Invariant == Spec => []IInv
BY InitIInv, NextIInv, PTL DEF Spec

(* Every state of the log, its clock and its writers is of the declared type. *)
THEOREM TypeCorrect == Spec => []TypeOK
<1>1. IInv => TypeOK
  BY DEF IInv
<1>2. QED
  BY <1>1, Invariant, PTL

(* However many threads and processes write to the file, prev_hash of a committed
   row belongs to a row committed earlier, or is the genesis hash. *)
THEOREM Rooted == Spec => []ChainRooted
<1>1. IInv => ChainRooted
  BY DEF IInv
<1>2. QED
  BY <1>1, Invariant, PTL
--------------------------------------------------------------------------------
(* The writers that are going to continue row p. *)
Readers(p) == {w \in Writer: job[w].pc = "insert" /\ job[w].prev = p}

(* A writer spends its reading of the head on one successor: while p is the head it
   has none, and afterwards it gets no new readers. *)
Budget ==
  InsertedInOrder =>
    \A p \in DOMAIN rows \cup {Genesis}:
      Cardinality(Successors(p)) + Cardinality(Readers(p)) <= Cardinality(Writer)

FInv == /\ IInv
        /\ IsFiniteSet(DOMAIN rows)
        /\ Budget

(* The sets that are counted are finite. *)
LEMMA CountedFinite ==
  ASSUME IsFiniteSet(DOMAIN rows), NEW p
  PROVE  /\ IsFiniteSet(Successors(p)) /\ Cardinality(Successors(p)) \in Nat
         /\ IsFiniteSet(Readers(p)) /\ Cardinality(Readers(p)) \in Nat
         /\ Cardinality(Readers(p)) <= Cardinality(Writer)
         /\ Cardinality(Writer) \in Nat
<1>1. Successors(p) \subseteq DOMAIN rows /\ Readers(p) \subseteq Writer
  BY DEF Successors, Readers
<1>2. IsFiniteSet(Successors(p))
  BY <1>1, FS_Subset
<1>3. IsFiniteSet(Readers(p)) /\ Cardinality(Readers(p)) <= Cardinality(Writer)
  BY <1>1, FS_Subset, WriterAssumption
<1>4. QED
  BY <1>2, <1>3, FS_CardinalityType, WriterAssumption

(* Nothing continues the head: a row that did would have come after it. *)
LEMMA HeadUncontinued ==
  ASSUME IInv, InsertedInOrder, NEW h \in DOMAIN rows \cup {Genesis}, Latest(h)
  PROVE  Successors(h) = {}
<1> SUFFICES ASSUME NEW e \in DOMAIN rows, rows[e].prev = h PROVE FALSE
  BY DEF Successors
<1>1. h # Genesis /\ h \in DOMAIN rows
  BY EventIdAssumption DEF Latest, IInv, TypeOK, Genesis
<1>2. rows[h].rowid < rows[e].rowid
  BY <1>1 DEF IInv, ChainRooted
<1>3. /\ rows[h].rowid \in Nat /\ rows[e].rowid \in Nat
      /\ rows[h].ts \in Nat /\ rows[e].ts \in Nat /\ h \in Nat /\ e \in Nat
  BY <1>1, EventIdAssumption, MaxTimeAssumption DEF IInv, TypeOK, Row
<1>4. e # h
  BY <1>2, <1>3
<1>5. rows[h].ts < rows[e].ts \/ (rows[h].ts = rows[e].ts /\ h < e)
  BY <1>1, <1>2 DEF InsertedInOrder
<1>6. Later(h, e)
  BY <1>1, <1>4 DEF Latest
<1>7. QED
  BY <1>3, <1>5, <1>6 DEF Later

(* A step that changes neither the chain nor adds a reader keeps the budget. *)
LEMMA BudgetKept ==
  ASSUME FInv, DOMAIN rows' = DOMAIN rows,
         \A e \in DOMAIN rows: /\ rows'[e].prev = rows[e].prev
                               /\ rows'[e].ts = rows[e].ts
                               /\ rows'[e].rowid = rows[e].rowid,
         \A p \in DOMAIN rows \cup {Genesis}: Readers(p)' \subseteq Readers(p)
  PROVE  IsFiniteSet(DOMAIN rows)' /\ Budget'
<1>1. InsertedInOrder' => InsertedInOrder
  BY DEF InsertedInOrder
<1>2. ASSUME NEW p \in DOMAIN rows \cup {Genesis}, InsertedInOrder
      PROVE  Cardinality(Successors(p)') + Cardinality(Readers(p)') <= Cardinality(Writer)
  <2>1. Successors(p)' = Successors(p)
    BY DEF Successors
  <2>2. Cardinality(Readers(p)') \in Nat /\ Cardinality(Readers(p)') <= Cardinality(Readers(p))
    BY CountedFinite, FS_Subset, FS_CardinalityType DEF FInv
  <2>3. Cardinality(Successors(p)) + Cardinality(Readers(p)) <= Cardinality(Writer)
    BY <1>2 DEF FInv, Budget
  <2>4. QED
    BY <2>1, <2>2, <2>3, CountedFinite DEF FInv
<1>3. QED
  BY <1>1, <1>2 DEF FInv, Budget

(* Who reads the head joins the readers of a row that nothing continues yet. *)
LEMMA BudgetReadHead ==
  ASSUME FInv, NEW w \in Writer, ReadHead(w)
  PROVE  IsFiniteSet(DOMAIN rows)' /\ Budget'
<1>1. PICK h \in DOMAIN rows \cup {Genesis}:
        Latest(h) /\ job' = [job EXCEPT ![w].pc = "insert", ![w].prev = h]
  BY DEF ReadHead
<1>2. rows' = rows /\ job'[w].prev = h /\ \A v \in Writer \ {w}: job'[v] = job[v]
  BY <1>1 DEF ReadHead, FInv, IInv, TypeOK, Job
<1>3. ASSUME NEW p \in DOMAIN rows \cup {Genesis}, InsertedInOrder
      PROVE  Cardinality(Successors(p)) + Cardinality(Readers(p)') <= Cardinality(Writer)
  <2>1. CASE p = h
    <3>1. Cardinality(Successors(p)) = 0
      BY <1>1, <1>3, <2>1, HeadUncontinued, FS_EmptySet DEF FInv
    <3>2. Readers(p)' \subseteq Writer
      BY DEF Readers
    <3>3. Cardinality(Readers(p)') \in Nat /\ Cardinality(Readers(p)') <= Cardinality(Writer)
      BY <3>2, FS_Subset, FS_CardinalityType, WriterAssumption
    <3>4. QED
      BY <3>1, <3>3, CountedFinite DEF FInv
  <2>2. CASE p # h
    <3>1. Readers(p)' = Readers(p)
      BY <1>2, <2>2 DEF Readers, ReadHead
    <3>2. QED
      BY <1>3, <3>1 DEF FInv, Budget
  <2>3. QED
    BY <2>1, <2>2
<1>4. InsertedInOrder' = InsertedInOrder /\ \A p: Successors(p)' = Successors(p)
  BY <1>2 DEF InsertedInOrder, Successors
<1>5. QED
  BY <1>2, <1>3, <1>4 DEF FInv, Budget

(* Who inserts turns from a reader of a row into its successor. *)
LEMMA BudgetInsert ==
  ASSUME FInv, NEW w \in Writer, Insert(w)
  PROVE  IsFiniteSet(DOMAIN rows)' /\ Budget'
<1>0. PICK id, h: id = job[w].id /\ h = job[w].prev
  OBVIOUS
<1>1. /\ id \in EventId /\ id \notin DOMAIN rows /\ id # Genesis
      /\ h \in DOMAIN rows \cup {Genesis} /\ h # id
  BY <1>0, EventIdAssumption DEF FInv, IInv, InsertReady, Insert, Genesis
<1>2. /\ DOMAIN rows' = DOMAIN rows \cup {id}
      /\ rows'[id].prev = h
      /\ \A e \in DOMAIN rows: rows'[e] = rows[e]
  BY <1>0, <1>1 DEF Insert
<1>3. /\ job[w].pc = "insert" /\ job'[w].pc = "idle"
      /\ \A v \in Writer \ {w}: job'[v] = job[v]
  BY DEF FInv, IInv, TypeOK, Insert, Idle
<1>4. IsFiniteSet(DOMAIN rows)'
  BY <1>2, FS_AddElement DEF FInv
<1>5. InsertedInOrder' => InsertedInOrder
  BY <1>2 DEF InsertedInOrder
<1>6. ASSUME NEW p \in DOMAIN rows \cup {id, Genesis}, InsertedInOrder
      PROVE  Cardinality(Successors(p)') + Cardinality(Readers(p)') <= Cardinality(Writer)
  <2>1. CASE p = h
    <3>1. Successors(p)' = Successors(p) \cup {id} /\ id \notin Successors(p)
      BY <1>1, <1>2, <2>1 DEF Successors
    <3>2. Readers(p)' = Readers(p) \ {w} /\ w \in Readers(p)
      BY <1>0, <1>3, <2>1 DEF Readers
    <3>3. /\ Cardinality(Successors(p)') = Cardinality(Successors(p)) + 1
          /\ Cardinality(Readers(p)') = Cardinality(Readers(p)) - 1
      BY <3>1, <3>2, CountedFinite, FS_AddElement, FS_RemoveElement DEF FInv
    <3>4. Cardinality(Successors(p)) + Cardinality(Readers(p)) <= Cardinality(Writer)
      BY <1>1, <1>6, <2>1 DEF FInv, Budget
    <3>5. QED
      BY <3>3, <3>4, CountedFinite DEF FInv
  <2>2. CASE p = id
    <3>1. Successors(p)' = {}
      BY <1>1, <1>2, <2>2 DEF FInv, IInv, ChainRooted, Successors
    <3>2. Readers(p)' = {}
      BY <1>1, <1>3, <2>2 DEF FInv, IInv, InsertReady, Readers
    <3>3. QED
      BY <3>1, <3>2, FS_EmptySet, CountedFinite DEF FInv
  <2>3. CASE p # h /\ p # id
    <3>1. Successors(p)' = Successors(p)
      BY <1>2, <2>3 DEF Successors
    <3>2. Readers(p)' = Readers(p)
      BY <1>0, <1>3, <2>3 DEF Readers
    <3>3. QED
      BY <1>6, <2>3, <3>1, <3>2 DEF FInv, Budget
  <2>4. QED
    BY <2>1, <2>2, <2>3
<1>7. QED
  BY <1>2, <1>4, <1>5, <1>6 DEF Budget

(* Every step keeps the budget. *)
LEMMA NextFInv == FInv /\ [Next]_vars => FInv'
<1> SUFFICES ASSUME FInv, [Next]_vars PROVE FInv'
  OBVIOUS
<1>1. IInv'
  BY NextIInv DEF FInv
<1>2. ASSUME rows' = rows,
             \A w \in Writer: job'[w] = job[w] \/ job'[w].pc # "insert"
      PROVE  IsFiniteSet(DOMAIN rows)' /\ Budget'
  BY <1>2, BudgetKept DEF Readers
<1>3. CASE Tick \/ UNCHANGED vars
  BY <1>1, <1>2, <1>3 DEF Tick, vars, FInv
<1>4. ASSUME NEW w \in Writer, NEW id, NEW ts, NEW sigs, NEW pending,
             Begin(w, id, ts, sigs, pending)
      PROVE  IsFiniteSet(DOMAIN rows)' /\ Budget'
  BY <1>2, <1>4 DEF Begin, FInv, IInv, TypeOK
<1>5. ASSUME NEW w \in Writer, NEW id \in EventId, FinalizePending(w, id)
      PROVE  IsFiniteSet(DOMAIN rows)' /\ Budget'
  BY <1>2, <1>5 DEF FinalizePending, FInv, IInv, TypeOK
<1>6. ASSUME NEW w \in Writer, Abort(w)
      PROVE  IsFiniteSet(DOMAIN rows)' /\ Budget'
  BY <1>2, <1>6 DEF Abort, Idle, FInv, IInv, TypeOK
<1>7. ASSUME NEW w \in Writer, Update(w)
      PROVE  IsFiniteSet(DOMAIN rows)' /\ Budget'
  <2>1. job[w].id \in DOMAIN rows
    BY <1>7 DEF FInv, IInv, UpdateReady, Update
  <2>2. rows' = [rows EXCEPT ![job[w].id] =
                   [rows[job[w].id] EXCEPT !.sigs = job[w].sigs, !.pending = FALSE]]
    BY <1>7, <2>1 DEF Update
  <2>3. \A e \in DOMAIN rows: rows[e] \in Row
    BY DEF FInv, IInv, TypeOK
  <2>4. /\ DOMAIN rows' = DOMAIN rows
        /\ \A e \in DOMAIN rows: /\ rows'[e].prev = rows[e].prev
                                 /\ rows'[e].ts = rows[e].ts
                                 /\ rows'[e].rowid = rows[e].rowid
    BY <2>1, <2>2, <2>3 DEF Row
  <2>5. \A v \in Writer: job'[v] = job[v] \/ job'[v].pc # "insert"
    BY <1>7 DEF Update, Idle, FInv, IInv, TypeOK
  <2>6. QED
    BY <2>4, <2>5, BudgetKept DEF Readers
<1>8. QED
  BY <1>1, <1>3, <1>4, <1>5, <1>6, <1>7, BudgetReadHead, BudgetInsert
  DEF Next, AppendSelf, AppendPending, AppendFinalized, FInv

(* With W writers, rows that came in by the order latest_hash sorts by have at most W
   successors each: a file that one process at a time writes to holds one chain. *)
THEOREM Forks == Spec => []ForksBounded
<1>1. Init => FInv
  <2> SUFFICES ASSUME Init PROVE FInv
    OBVIOUS
  <2>1. DOMAIN rows = {}
    BY DEF Init
  <2>2. ASSUME NEW p PROVE Successors(p) = {} /\ Readers(p) = {}
    BY <2>1 DEF Successors, Readers, Init, Idle
  <2>3. IsFiniteSet(DOMAIN rows)
    BY <2>1, FS_EmptySet
  <2>4. QED
    BY <2>2, <2>3, InitIInv, FS_EmptySet, CountedFinite DEF FInv, Budget
<1>2. FInv => ForksBounded
  <2> SUFFICES ASSUME FInv, InsertedInOrder, NEW p \in DOMAIN rows \cup {Genesis}
               PROVE  Cardinality(Successors(p)) <= Cardinality(Writer)
    BY DEF ForksBounded
  <2>1. Cardinality(Successors(p)) + Cardinality(Readers(p)) <= Cardinality(Writer)
    BY DEF FInv, Budget
  <2>2. QED
    BY <2>1, CountedFinite DEF FInv
<1>3. QED
  BY <1>1, <1>2, NextFInv, PTL DEF Spec
--------------------------------------------------------------------------------
(* The journal entry a row stands for. *)
EntryOf(e) == [id |-> e, content |-> rows[e].ts, signers |-> rows[e].sigs,
               open |-> rows[e].pending]

Entries == {EntryOf(e) : e \in DOMAIN rows}

(* An insert is the append of a new entry. *)
LEMMA InsertAppends ==
  ASSUME IInv, NEW w \in Writer, Insert(w)
  PROVE  J!Next
<1>0. PICK id: id = job[w].id
  OBVIOUS
<1> DEFINE new == [id |-> id, content |-> job[w].ts, signers |-> job[w].sigs,
                   open |-> job[w].pending]
<1>1. id \in EventId /\ id \notin DOMAIN rows
  BY <1>0 DEF IInv, InsertReady, Insert
<1>2. new \in J!Entry
  BY <1>1 DEF IInv, TypeOK, Job, J!Entry
<1>3. \A f \in Entries: f.id # new.id
  BY <1>1 DEF Entries, EntryOf
<1>4. /\ DOMAIN rows' = DOMAIN rows \cup {id}
      /\ rows'[id].ts = job[w].ts /\ rows'[id].sigs = job[w].sigs
      /\ rows'[id].pending = job[w].pending
      /\ \A e \in DOMAIN rows: rows'[e] = rows[e]
  BY <1>0, <1>1 DEF Insert
<1>5. Entries' = Entries \cup {new}
  <2>1. EntryOf(id)' = new
    BY <1>4 DEF EntryOf
  <2>2. \A e \in DOMAIN rows: EntryOf(e)' = EntryOf(e)
    BY <1>4 DEF EntryOf
  <2>3. QED
    BY <1>4, <2>1, <2>2 DEF Entries
<1>6. J!Append(new)
  BY <1>3, <1>5 DEF J!Append, Entries, EntryOf
<1>7. QED
  <2>1. \E e \in J!Entry: J!Append(e)
    <3> HIDE DEF new
    <3> QED
      BY <1>2, <1>6 DEF J!Append
  <2>2. QED
    BY <2>1 DEF J!Next

(* An update is the countersignature of an open entry; it changes nothing when
   another writer has already brought the same countersignature. *)
LEMMA UpdateCountersigns ==
  ASSUME IInv, NEW w \in Writer, Update(w)
  PROVE  J!Next \/ Entries' = Entries
<1>0. PICK id: id = job[w].id
  OBVIOUS
<1>1. /\ id \in DOMAIN rows /\ job[w].sigs = Signer
      /\ rows[id].pending \/ rows[id].sigs = Signer
  BY <1>0 DEF IInv, UpdateReady, Update
<1>2. rows[id] \in Row
  BY <1>1 DEF IInv, TypeOK
<1>3. /\ DOMAIN rows' = DOMAIN rows
      /\ rows'[id].ts = rows[id].ts /\ rows'[id].sigs = Signer
      /\ rows'[id].pending = FALSE
      /\ \A e \in DOMAIN rows \ {id}: rows'[e] = rows[e]
  BY <1>0, <1>1, <1>2 DEF IInv, TypeOK, Update, Row
<1>4. \A e \in DOMAIN rows \ {id}: EntryOf(e)' = EntryOf(e)
  BY <1>3 DEF EntryOf
<1>5. CASE rows[id].pending
  <2>1. rows[id].sigs = {"self"}
    BY <1>1, <1>5 DEF IInv, OpenUnsigned
  <2>2. EntryOf(id)' = J!Closed(EntryOf(id), "peer")
    BY <1>3, <2>1 DEF EntryOf, Signer, J!Closed
  <2>3. \A e \in DOMAIN rows: EntryOf(e) = EntryOf(id) => e = id
    BY DEF EntryOf
  <2>4. Entries' = (Entries \ {EntryOf(id)}) \cup {J!Closed(EntryOf(id), "peer")}
    <3>1. Entries' = {EntryOf(e) : e \in DOMAIN rows \ {id}} \cup {EntryOf(id)'}
      BY <1>1, <1>3, <1>4 DEF Entries
    <3>2. Entries \ {EntryOf(id)} = {EntryOf(e) : e \in DOMAIN rows \ {id}}
      BY <2>3 DEF Entries
    <3>3. QED
      BY <2>2, <3>1, <3>2
  <2>5. EntryOf(id).open /\ "peer" \notin EntryOf(id).signers
    BY <1>5, <2>1 DEF EntryOf
  <2>6. J!Countersign(EntryOf(id), "peer")
    BY <2>4, <2>5 DEF J!Countersign, Entries, EntryOf
  <2>7. EntryOf(id) \in Entries /\ "peer" \in Signer
    BY <1>1 DEF Entries, Signer
  <2>8. QED
    BY <2>6, <2>7 DEF J!Next, Entries, EntryOf
<1>6. CASE ~rows[id].pending
  <2>1. EntryOf(id)' = EntryOf(id)
    BY <1>1, <1>2, <1>3, <1>6 DEF EntryOf, Row
  <2>2. QED
    BY <1>1, <1>3, <1>4, <2>1 DEF Entries
<1>7. QED
  BY <1>5, <1>6

(* The log with its concurrent writers implements the append-only journal. *)
THEOREM Implements == Spec => JournalSpec
<1>1. Init => J!Init
  BY DEF Init, J!Init
<1>2. IInv /\ [Next]_vars => [J!Next]_Entries
  <2> SUFFICES ASSUME IInv, [Next]_vars PROVE J!Next \/ Entries' = Entries
    OBVIOUS
  <2>1. CASE UNCHANGED rows
    BY <2>1 DEF Entries, EntryOf
  <2>2. CASE \E w \in Writer: Insert(w)
    BY <2>2, InsertAppends
  <2>3. CASE \E w \in Writer: Update(w)
    BY <2>3, UpdateCountersigns
  <2>4. QED
    BY <2>1, <2>2, <2>3 DEF Next, vars, Tick, AppendSelf, AppendPending, AppendFinalized,
      Begin, ReadHead, FinalizePending, Abort
<1>3. QED
  BY <1>1, <1>2, Invariant, PTL DEF Spec, JournalSpec, J!Spec, Entries, EntryOf
================================================================================
