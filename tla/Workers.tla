-------------------------------- MODULE Workers --------------------------------
(***************************************************************************)
(* The invoke endpoint of one agent served by several worker processes     *)
(* that share its audit.sqlite.  DelegationFlow has one event loop, where  *)
(* the replay check of verify_delegation and the delegation.started entry  *)
(* are one step; here each query and each insert is a step of its own, and *)
(* the steps of other workers fall between.                                *)
(*                                                                         *)
(* The file is a Journal, which AuditLog implements.  Within one worker    *)
(* the code from the request to the handler's await is not interrupted.    *)
(***************************************************************************)
EXTENDS Naturals, FiniteSets

CONSTANTS
  Worker,    \* processes that run build_app's application
  Request,   \* invoke requests
  Jti,       \* token ids
  JtiOf,     \* JtiOf[r]: the token that request r carries
  Faults     \* whether inserts fail and workers die

ASSUME WorkerAssumption == IsFiniteSet(Worker)
ASSUME JtiOfAssumption == JtiOf \in [Request -> Jti]
ASSUME FaultsAssumption == Faults \in BOOLEAN

VARIABLES
  entries,   \* the rows of audit.sqlite
  req        \* req[r]: where request r is

vars == <<entries, req>>

--------------------------------------------------------------------------------
Used == {"delegation.started", "delegation.completed"}
EventType == Used \cup {"delegation.issued", "delegation.failed",
                        "delegation.replay_attempt"}

(* The uuid of an event stands for the request or the token it is about. *)
EventId == EventType \X (Request \cup Jti)
Content == [type: EventType, jti: Jti]

J == INSTANCE Journal WITH Id <- EventId, Signer <- {"self", "peer"}

(* The code of the invoke endpoint that runs without an await. *)
Section == {"has_jti", "all_events", "replayed", "start"}
Started == {"executing", "executed", "crashed"}
State == Section \cup Started \cup {"sent", "refused", "dead"}

TypeOK ==
  /\ entries \subseteq J!Entry
  /\ req \in [Request -> [pc: State, worker: SUBSET Worker, late: BOOLEAN]]

Init ==
  /\ J!Init
  /\ req = [r \in Request |-> [pc |-> "sent", worker |-> {}, late |-> FALSE]]

--------------------------------------------------------------------------------
At(r, pc) == req[r].pc = pc
GoTo(r, pc) == req' = [req EXCEPT ![r].pc = pc]

Free(w) == \A r \in Request: req[r].worker = {w} => req[r].pc \notin Section

(* Variant with a bug: token_jti left at its default, None. *)
RecordWithoutJti(type, subject, jti, open) ==
  J!Append([id |-> <<type, subject>>, content |-> [type |-> type, jti |-> "None"],
            signers |-> {"self"}, open |-> open])

Record(type, subject, jti, open) ==
  J!Append([id |-> <<type, subject>>, content |-> [type |-> type, jti |-> jti],
            signers |-> {"self"}, open |-> open])

Rows(j, types) == {e \in entries: e.content.jti = j /\ e.content.type \in types}

(* Variant with a bug: the lookup that would fit an entry made at the end. *)
AlreadyCompleted(r) == Rows(JtiOf[r], {"delegation.completed"}) # {}

(* Variant with a bug: each worker remembers the tokens it has served itself. *)
AlreadyServedHere(r) ==
  \E q \in Request: /\ JtiOf[q] = JtiOf[r] /\ req[q].worker = req[r].worker
                    /\ req[q].pc \in Started

(* The list comprehension over all_events. *)
AlreadyUsed(r) == Rows(JtiOf[r], Used) # {}

(* issue_delegation by this agent, of a token for itself: a row with the token's
   jti that is no replay. *)
Issue(j) ==
  /\ \A r \in Request: JtiOf[r] = j => At(r, "sent")
  /\ Record("delegation.issued", j, j, FALSE)
  /\ UNCHANGED req

(* `late' remembers whether the token's execution was on record when the request
   reached a worker. *)
Take(w, r) ==
  /\ At(r, "sent") /\ Free(w)
  /\ req' = [req EXCEPT ![r] = [pc |-> "has_jti", worker |-> {w},
                                late |-> Rows(JtiOf[r], {"delegation.started"}) # {}]]
  /\ UNCHANGED entries

HasJti(r) ==
  /\ At(r, "has_jti")
  /\ GoTo(r, IF Rows(JtiOf[r], EventType) # {} THEN "all_events" ELSE "start")
  /\ UNCHANGED entries

AllEvents(r) ==
  /\ At(r, "all_events")
  /\ GoTo(r, IF AlreadyUsed(r) THEN "replayed" ELSE "start")
  /\ UNCHANGED entries

RecordReplay(r) ==
  /\ At(r, "replayed")
  /\ Record("delegation.replay_attempt", r, JtiOf[r], FALSE)
  /\ GoTo(r, "refused")

(* verify_token raises. *)
Refuse(r) ==
  /\ At(r, "start")
  /\ GoTo(r, "refused")
  /\ UNCHANGED entries

(* The pre-execution journal, then the handler is awaited. *)
Start(r) ==
  /\ At(r, "start")
  /\ Record("delegation.started", r, JtiOf[r], FALSE)
  /\ GoTo(r, "executing")

(* The insert of RecordReplay or Start raises. *)
JournalFails(r) ==
  /\ Faults
  /\ req[r].pc \in {"replayed", "start"}
  /\ GoTo(r, "refused")
  /\ UNCHANGED entries

(* The handler's coroutine resumes when its worker runs nothing else. *)
Finish(r, type) ==
  /\ At(r, "executing")
  /\ \A w \in req[r].worker: Free(w)
  /\ Record(type, r, JtiOf[r], TRUE)
  /\ GoTo(r, "executed")

FinishUnlogged(r) ==
  /\ Faults
  /\ At(r, "executing")
  /\ \A w \in req[r].worker: Free(w)
  /\ GoTo(r, "executed")
  /\ UNCHANGED entries

(* The cosign endpoint, at whichever worker. *)
Cosign(e) ==
  /\ J!Countersign(e, "peer")
  /\ UNCHANGED req

(* A worker dies with all its requests and is replaced. *)
Crash(w) ==
  /\ Faults
  /\ req' = [r \in Request |->
               IF req[r].worker # {w} THEN req[r]
               ELSE CASE req[r].pc \in Section -> [req[r] EXCEPT !.pc = "dead"]
                      [] req[r].pc = "executing" -> [req[r] EXCEPT !.pc = "crashed"]
                      [] OTHER -> req[r]]
  /\ UNCHANGED entries

Next ==
  \/ \E j \in Jti: Issue(j)
  \/ \E w \in Worker: Crash(w) \/ \E r \in Request: Take(w, r)
  \/ \E r \in Request:
       \/ HasJti(r) \/ AllEvents(r) \/ RecordReplay(r) \/ Refuse(r)
       \/ Start(r) \/ JournalFails(r) \/ FinishUnlogged(r)
       \/ \E type \in {"delegation.completed", "delegation.failed"}: Finish(r, type)
  \/ \E e \in entries: Cosign(e)

Spec == Init /\ [][Next]_vars
--------------------------------------------------------------------------------
Ran(r) == req[r].pc \in Started

(* A token runs at most once per worker, so once where there is one: when the
   first started entry is committed every other worker has at most one request
   that has passed the replay check. *)
AtMostOncePerWorker ==
  \A j \in Jti: Cardinality({r \in Request: JtiOf[r] = j /\ Ran(r)}) <= Cardinality(Worker)

(* Across all workers, and whatever of them has died since: a request that comes
   in after an execution of its token was put on record is not executed. *)
RecordedIsFinal == \A r \in Request: req[r].late => ~Ran(r)
================================================================================
