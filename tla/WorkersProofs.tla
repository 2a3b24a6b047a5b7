----------------------------- MODULE WorkersProofs -----------------------------
(***************************************************************************)
(* For any number of workers, requests and tokens: a token runs at most    *)
(* once per worker, and never once an execution of it is on record.        *)
(***************************************************************************)
EXTENDS Workers, FiniteSetTheorems, TLAPS

OnRecord(j) == Rows(j, {"delegation.started"}) # {}

(* Past the replay check. *)
Passed == {"start"} \cup Started

(* A request that is served is served by one worker. *)
Placed ==
  \A r \in Request:
    req[r].pc \in Section \cup Started => \E w \in Worker: req[r].worker = {w}

(* Nothing interrupts a worker between a request and its handler's await. *)
OneSection ==
  \A r, q \in Request:
    r # q /\ req[r].pc \in Section /\ req[q].pc \in Section => req[r].worker # req[q].worker

RanOnRecord == \A r \in Request: req[r].pc \in Started => OnRecord(JtiOf[r])

(* Of the requests with one token each worker lets at most one pass. *)
OnePassedPerWorker ==
  \A r, q \in Request:
    /\ r # q /\ JtiOf[r] = JtiOf[q]
    /\ req[r].pc \in Passed /\ req[q].pc \in Passed
    => req[r].worker # req[q].worker

LateStopped ==
  \A r \in Request:
    req[r].late => OnRecord(JtiOf[r]) /\ req[r].pc \notin Passed \cup {"sent"}

IInv == /\ TypeOK
        /\ Placed
        /\ OneSection
        /\ RanOnRecord
        /\ OnePassedPerWorker
        /\ LateStopped
--------------------------------------------------------------------------------
(* No request has reached a worker. *)
LEMMA InitIInv == Init => IInv
<1> SUFFICES ASSUME Init PROVE IInv
  OBVIOUS
<1>1. TypeOK
  BY DEF Init, TypeOK, J!Init, State
<1>2. \A r \in Request: req[r].pc = "sent" /\ ~req[r].late
  BY DEF Init
<1>3. QED
  BY <1>1, <1>2 DEF IInv, Placed, OneSection, RanOnRecord, OnePassedPerWorker, LateStopped,
    Passed, Section, Started

(* Appending keeps the file typed and every execution on record. *)
LEMMA RecordGrows ==
  ASSUME TypeOK, NEW type \in EventType, NEW subject \in Request \cup Jti, NEW j \in Jti,
         NEW open \in BOOLEAN, Record(type, subject, j, open)
  PROVE  /\ entries' \subseteq J!Entry
         /\ \A k \in Jti: OnRecord(k) => OnRecord(k)'
         /\ type = "delegation.started" => OnRecord(j)'
<1> DEFINE e == [id |-> <<type, subject>>, content |-> [type |-> type, jti |-> j],
                 signers |-> {"self"}, open |-> open]
<1>1. entries' = entries \cup {e}
  BY DEF Record, J!Append
<1>2. e \in J!Entry
  BY DEF J!Entry, EventId, Content
<1>3. e.content.jti = j /\ e.content.type = type
  OBVIOUS
<1>4. QED
  BY <1>1, <1>2, <1>3 DEF TypeOK, OnRecord, Rows

(* A countersignature does so, too: the entry keeps its content. *)
LEMMA CosignGrows ==
  ASSUME TypeOK, NEW e \in entries, Cosign(e)
  PROVE  /\ entries' \subseteq J!Entry
         /\ \A k \in Jti: OnRecord(k) => OnRecord(k)'
<1> DEFINE f == J!Closed(e, "peer")
<1>1. entries' = (entries \ {e}) \cup {f}
  BY DEF Cosign, J!Countersign
<1>2. f \in J!Entry /\ f.content = e.content
  BY DEF TypeOK, J!Entry, J!Closed
<1>3. QED
  BY <1>1, <1>2 DEF TypeOK, OnRecord, Rows

(* One request moves on within the endpoint.  It may enter the part past the replay
   check only if no execution is on record. *)
LEMMA MoveStep ==
  ASSUME IInv, NEW r \in Request, NEW pc \in State \ {"sent"},
         entries' \subseteq J!Entry,
         \A k \in Jti: OnRecord(k) => OnRecord(k)',
         req[r].pc \in Section \cup Started,
         GoTo(r, pc),
         pc \in Section => req[r].pc \in Section,
         pc \in Started => OnRecord(JtiOf[r])',
         pc \in Passed => req[r].pc \in Passed \/ ~OnRecord(JtiOf[r])
  PROVE  IInv'
<1>1. /\ req'[r] = [req[r] EXCEPT !.pc = pc]
      /\ \A q \in Request \ {r}: req'[q] = req[q]
  BY DEF IInv, TypeOK, GoTo
<1>2. /\ req'[r].pc = pc /\ req'[r].worker = req[r].worker /\ req'[r].late = req[r].late
      /\ JtiOf[r] \in Jti
  BY <1>1, JtiOfAssumption DEF IInv, TypeOK
<1>3. \A q \in Request: req'[q].worker = req[q].worker /\ req'[q].late = req[q].late
  BY <1>1, <1>2
<1>4. TypeOK'
  BY DEF IInv, TypeOK, GoTo
<1>5. Placed'
  BY <1>1, <1>2 DEF IInv, Placed
<1>6. OneSection'
  BY <1>1, <1>2, <1>3 DEF IInv, OneSection
<1>7. RanOnRecord'
  BY <1>1, <1>2, JtiOfAssumption DEF IInv, RanOnRecord
<1>8. OnePassedPerWorker'
  <2>1. ASSUME NEW q \in Request \ {r}, JtiOf[r] = JtiOf[q],
               pc \in Passed, req[q].pc \in Passed
        PROVE  req[r].worker # req[q].worker
    <3>1. CASE req[r].pc \in Passed
      BY <2>1, <3>1 DEF IInv, OnePassedPerWorker
    <3>2. CASE req[r].pc \notin Passed
      <4>1. ~OnRecord(JtiOf[q])
        BY <2>1, <3>2
      <4>2. req[q].pc = "start"
        BY <2>1, <4>1 DEF IInv, RanOnRecord, Passed
      <4>3. req[r].pc \in Section
        BY <3>2 DEF Passed
      <4>4. QED
        BY <4>2, <4>3 DEF IInv, OneSection, Section
    <3>3. QED
      BY <3>1, <3>2
  <2>2. SUFFICES ASSUME NEW p \in Request, NEW q \in Request,
                        p # q, JtiOf[p] = JtiOf[q],
                        req'[p].pc \in Passed, req'[q].pc \in Passed
                 PROVE  req'[p].worker # req'[q].worker
    BY DEF OnePassedPerWorker
  <2>3. CASE p = r
    BY <1>1, <1>2, <1>3, <2>1, <2>2, <2>3
  <2>4. CASE q = r
    BY <1>1, <1>2, <1>3, <2>1, <2>2, <2>4
  <2>5. CASE p # r /\ q # r
    BY <1>1, <2>2, <2>5 DEF IInv, OnePassedPerWorker
  <2>6. QED
    BY <2>3, <2>4, <2>5
<1>9. LateStopped'
  <2>1. req[r].late => pc \notin Passed
    BY DEF IInv, LateStopped
  <2>2. QED
    BY <1>1, <1>2, <1>3, <2>1, JtiOfAssumption DEF IInv, LateStopped
<1>10. QED
  BY <1>4, <1>5, <1>6, <1>7, <1>8, <1>9 DEF IInv

(* A request that arrives finds its worker free. *)
LEMMA TakeStep ==
  ASSUME IInv, NEW w \in Worker, NEW r \in Request, Take(w, r)
  PROVE  IInv'
<1>1. /\ req'[r] = [pc |-> "has_jti", worker |-> {w}, late |-> OnRecord(JtiOf[r])]
      /\ \A q \in Request \ {r}: req'[q] = req[q]
  BY DEF IInv, TypeOK, Take, OnRecord
<1>2. req'[r].pc = "has_jti" /\ req'[r].worker = {w} /\ req'[r].late = OnRecord(JtiOf[r])
  BY <1>1
<1>3. "has_jti" \in Section /\ "has_jti" \notin Passed /\ "has_jti" \notin Started
  BY DEF Section, Passed, Started
<1>4. TypeOK'
  BY DEF IInv, TypeOK, Take, State, Section
<1>5. \A q \in Request \ {r}: req[q].pc \in Section => req[q].worker # {w}
  BY DEF Take, Free
<1>6. \A k \in Jti: OnRecord(k)' = OnRecord(k)
  BY DEF Take, OnRecord, Rows
<1>7. Placed'
  BY <1>1, <1>2 DEF IInv, Placed
<1>8. OneSection'
  BY <1>1, <1>2, <1>5 DEF IInv, OneSection
<1>9. RanOnRecord'
  BY <1>1, <1>2, <1>3, <1>6, JtiOfAssumption DEF IInv, RanOnRecord
<1>10. OnePassedPerWorker'
  BY <1>1, <1>2, <1>3 DEF IInv, OnePassedPerWorker
<1>11. LateStopped'
  BY <1>1, <1>2, <1>3, <1>6, JtiOfAssumption DEF IInv, LateStopped
<1>12. QED
  BY <1>4, <1>7, <1>8, <1>9, <1>10, <1>11 DEF IInv

(* The requests of a worker that dies are stopped or have run; none comes to pass. *)
LEMMA CrashStep ==
  ASSUME IInv, NEW w \in Worker, Crash(w)
  PROVE  IInv'
<1>1. ASSUME NEW r \in Request
      PROVE  /\ req'[r].worker = req[r].worker /\ req'[r].late = req[r].late
             /\ req'[r] \in [pc: State, worker: SUBSET Worker, late: BOOLEAN]
             /\ req'[r].pc \in Section => req[r].pc \in Section
             /\ req'[r].pc \in Started <=> req[r].pc \in Started
             /\ req'[r].pc \in Passed => req[r].pc \in Passed
             /\ req'[r].pc = "sent" => req[r].pc = "sent"
  <2>1. req[r] \in [pc: State, worker: SUBSET Worker, late: BOOLEAN]
    BY DEF IInv, TypeOK
  <2>2. CASE req[r].worker = {w} /\ req[r].pc \in Section
    <3>1. req'[r] = [req[r] EXCEPT !.pc = "dead"]
      BY <2>2 DEF Crash, Section
    <3>2. QED
      BY <2>1, <2>2, <3>1 DEF Section, Started, Passed, State
  <2>3. CASE req[r].worker = {w} /\ req[r].pc = "executing"
    <3>1. req'[r] = [req[r] EXCEPT !.pc = "crashed"]
      BY <2>3 DEF Crash, Section
    <3>2. QED
      BY <2>1, <2>3, <3>1 DEF Section, Started, Passed, State
  <2>4. CASE req[r].worker # {w} \/ req[r].pc \notin Section \cup {"executing"}
    <3>1. req'[r] = req[r]
      BY <2>4 DEF Crash
    <3>2. QED
      BY <2>1, <3>1
  <2>5. QED
    BY <2>2, <2>3, <2>4
<1>2. req' = [r \in Request |-> req'[r]]
  BY DEF Crash
<1>3. TypeOK'
  BY <1>1, <1>2 DEF IInv, TypeOK, Crash
<1>4. \A k \in Jti: OnRecord(k)' = OnRecord(k)
  BY DEF Crash, OnRecord, Rows
<1>5. Placed' /\ OneSection' /\ OnePassedPerWorker'
  BY <1>1 DEF IInv, Placed, OneSection, OnePassedPerWorker
<1>6. RanOnRecord' /\ LateStopped'
  BY <1>1, <1>4, JtiOfAssumption DEF IInv, RanOnRecord, LateStopped
<1>7. QED
  BY <1>3, <1>5, <1>6 DEF IInv

(* A step that leaves the requests alone. *)
LEMMA LogStep ==
  ASSUME IInv, entries' \subseteq J!Entry, \A k \in Jti: OnRecord(k) => OnRecord(k)',
         UNCHANGED req
  PROVE  IInv'
BY JtiOfAssumption DEF IInv, TypeOK, Placed, OneSection, RanOnRecord, OnePassedPerWorker,
  LateStopped

(* An execution on record is found by the first query and by the second. *)
LEMMA FoundOnRecord ==
  ASSUME NEW j \in Jti, OnRecord(j)
  PROVE  Rows(j, EventType) # {} /\ Rows(j, Used) # {}
BY DEF OnRecord, Rows, EventType, Used
--------------------------------------------------------------------------------
(* Every step preserves the invariant. *)
LEMMA NextIInv == IInv /\ [Next]_vars => IInv'
<1> SUFFICES ASSUME IInv, [Next]_vars PROVE IInv'
  OBVIOUS
<1> USE JtiOfAssumption DEF At
<1>0. entries' = entries => /\ entries' \subseteq J!Entry
                            /\ \A k \in Jti: OnRecord(k) => OnRecord(k)'
  BY DEF IInv, TypeOK, OnRecord, Rows
<1>1. ASSUME NEW j \in Jti, Issue(j) PROVE IInv'
  <2>1. "delegation.issued" \in EventType
    BY DEF EventType
  <2>2. QED
    BY <1>1, <2>1, RecordGrows, LogStep DEF Issue, IInv
<1>2. ASSUME NEW w \in Worker, Crash(w) PROVE IInv'
  BY <1>2, CrashStep
<1>3. ASSUME NEW w \in Worker, NEW r \in Request, Take(w, r) PROVE IInv'
  BY <1>3, TakeStep
<1>4. ASSUME NEW r \in Request, HasJti(r) PROVE IInv'
  <2>1. CASE Rows(JtiOf[r], EventType) # {}
    <3>1. GoTo(r, "all_events")
      BY <1>4, <2>1 DEF HasJti
    <3>2. QED
      BY <1>0, <1>4, <3>1, MoveStep DEF HasJti, Section, Started, Passed, State
  <2>2. CASE Rows(JtiOf[r], EventType) = {}
    <3>1. GoTo(r, "start") /\ ~OnRecord(JtiOf[r])
      BY <1>4, <2>2, FoundOnRecord DEF HasJti
    <3>2. QED
      BY <1>0, <1>4, <3>1, MoveStep DEF HasJti, Section, Started, Passed, State
  <2>3. QED
    BY <2>1, <2>2
<1>5. ASSUME NEW r \in Request, AllEvents(r) PROVE IInv'
  <2>1. CASE AlreadyUsed(r)
    <3>1. GoTo(r, "replayed")
      BY <1>5, <2>1 DEF AllEvents
    <3>2. QED
      BY <1>0, <1>5, <3>1, MoveStep DEF AllEvents, Section, Started, Passed, State
  <2>2. CASE ~AlreadyUsed(r)
    <3>1. GoTo(r, "start") /\ ~OnRecord(JtiOf[r])
      BY <1>5, <2>2, FoundOnRecord DEF AllEvents, AlreadyUsed
    <3>2. QED
      BY <1>0, <1>5, <3>1, MoveStep DEF AllEvents, Section, Started, Passed, State
  <2>3. QED
    BY <2>1, <2>2
<1>6. ASSUME NEW r \in Request, RecordReplay(r) PROVE IInv'
  <2>1. /\ entries' \subseteq J!Entry
        /\ \A k \in Jti: OnRecord(k) => OnRecord(k)'
    BY <1>6, RecordGrows DEF RecordReplay, IInv, EventType
  <2>2. QED
    BY <1>6, <2>1, MoveStep DEF RecordReplay, Section, Started, Passed, State
<1>7. ASSUME NEW r \in Request, Refuse(r) PROVE IInv'
  BY <1>0, <1>7, MoveStep DEF Refuse, Section, Started, Passed, State
<1>8. ASSUME NEW r \in Request, Start(r) PROVE IInv'
  <2>1. /\ entries' \subseteq J!Entry
        /\ \A k \in Jti: OnRecord(k) => OnRecord(k)'
        /\ OnRecord(JtiOf[r])'
    BY <1>8, RecordGrows DEF Start, IInv, EventType, Used
  <2>2. QED
    BY <1>8, <2>1, MoveStep DEF Start, Section, Started, Passed, State
<1>9. ASSUME NEW r \in Request, JournalFails(r) PROVE IInv'
  BY <1>0, <1>9, MoveStep DEF JournalFails, Section, Started, Passed, State
<1>10. ASSUME NEW r \in Request, NEW type \in {"delegation.completed", "delegation.failed"},
              Finish(r, type)
       PROVE  IInv'
  <2>1. /\ entries' \subseteq J!Entry
        /\ \A k \in Jti: OnRecord(k) => OnRecord(k)'
    BY <1>10, RecordGrows DEF Finish, IInv, EventType, Used
  <2>2. OnRecord(JtiOf[r])'
    BY <1>10, <2>1 DEF Finish, IInv, RanOnRecord, Started
  <2>3. QED
    BY <1>10, <2>1, <2>2, MoveStep DEF Finish, Section, Started, Passed, State
<1>11. ASSUME NEW r \in Request, FinishUnlogged(r) PROVE IInv'
  <2>1. OnRecord(JtiOf[r])'
    BY <1>0, <1>11 DEF FinishUnlogged, IInv, RanOnRecord, Started
  <2>2. QED
    BY <1>0, <1>11, <2>1, MoveStep DEF FinishUnlogged, Section, Started, Passed, State
<1>12. ASSUME NEW e \in entries, Cosign(e) PROVE IInv'
  BY <1>12, CosignGrows, LogStep DEF Cosign, IInv
<1>13. CASE UNCHANGED vars
  BY <1>0, <1>13, LogStep DEF vars
<1>14. QED
  BY <1>1, <1>2, <1>3, <1>4, <1>5, <1>6, <1>7, <1>8, <1>9, <1>10, <1>11, <1>12, <1>13
  DEF Next

(* The invariant holds in every state. *)
LEMMA Invariant == Spec => []IInv
BY InitIInv, NextIInv, PTL DEF Spec

(* Type correctness of the invoke endpoint in several worker processes. *)
THEOREM TypeCorrect == Spec => []TypeOK
<1>1. IInv => TypeOK
  BY DEF IInv
<1>2. QED
  BY <1>1, Invariant, PTL

(* Whatever the workers do at the same time and whichever of them die, a request
   that comes in after an execution of its token was put on record is not executed. *)
THEOREM Final == Spec => []RecordedIsFinal
<1>1. IInv => RecordedIsFinal
  BY DEF IInv, LateStopped, RecordedIsFinal, Ran, Passed
<1>2. QED
  BY <1>1, Invariant, PTL

(* A token is executed at most as often as there are workers: with one worker, once. *)
THEOREM OncePerWorker == Spec => []AtMostOncePerWorker
<1>1. ASSUME IInv, NEW j \in Jti
      PROVE  Cardinality({r \in Request: JtiOf[r] = j /\ Ran(r)}) <= Cardinality(Worker)
  <2> DEFINE R == {r \in Request: JtiOf[r] = j /\ Ran(r)}
             at == [r \in R |-> CHOOSE w \in Worker: req[r].worker = {w}]
  <2>1. \A r \in R: at[r] \in Worker /\ req[r].worker = {at[r]}
    BY <1>1 DEF IInv, Placed, Ran
  <2>2. \A r, q \in R: at[r] = at[q] => r = q
    BY <1>1, <2>1 DEF IInv, OnePassedPerWorker, Ran, Passed
  <2>3. at \in Injection(R, Worker)
    BY <2>1, <2>2 DEF Injection, IsInjective
  <2>4. QED
    BY <2>3, WorkerAssumption, FS_Injection DEF ExistsInjection
<1>2. IInv => AtMostOncePerWorker
  BY <1>1 DEF AtMostOncePerWorker
<1>3. QED
  BY <1>2, Invariant, PTL
================================================================================
