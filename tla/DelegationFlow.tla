---------------------------- MODULE DelegationFlow ----------------------------
(***************************************************************************)
(* The delegation flow between agents: agent.py, delegation.py, outcome.py *)
(* and wire.py over the audit logs of all agents.                          *)
(*                                                                         *)
(* A delegator issues a token, posts /atf/v1/invoke with it, the delegatee *)
(* verifies, journals, executes, signs and answers, the delegator checks   *)
(* the outcome, records it and pushes its signature back.  Handlers run    *)
(* concurrently (the server awaits them), messages overtake each other,    *)
(* the network and the disk may fail, and agents restart.                  *)
(*                                                                         *)
(* A server handler runs on one event loop: everything between two awaits  *)
(* is one action, above all the token check together with the journal      *)
(* entry that precedes the execution.                                      *)
(***************************************************************************)
EXTENDS Integers, Capability

CONSTANTS
  Agent,        \* agent ids
  Jti,          \* token ids
  Call,         \* HTTP invocations
  Delegation,   \* the pairs <<delegator, delegatee>> in use
  Segment,      \* the dot-free parts of capability names
  Handler,      \* action name -> [capability, schema], as given to build_app
  Request,      \* what callers ask for: [action, expect, cosign]
  CapSet,       \* the capability sets agents publish
  ScopeSet,     \* the scopes delegators ask for
  MaxTTL,       \* MAX_TTL_SECONDS
  MaxTime,      \* bound on every agent's clock
  MaxRestarts,  \* bound on restarts, all agents together
  Faults        \* whether messages get lost, writes fail and agents restart

ASSUME DelegationAssumption == Delegation \subseteq Agent \X Agent
ASSUME NamesAssumption ==
  /\ CapSet \subseteq SUBSET Seq(Segment)
  /\ ScopeSet \subseteq SUBSET Seq(Segment)
  /\ \A action \in DOMAIN Handler: Handler[action].capability \in Seq(Segment)
ASSUME RequestAssumption == \A req \in Request: req.cosign \in BOOLEAN
ASSUME BoundsAssumption == MaxTTL \in Nat /\ MaxTime \in Nat /\ MaxRestarts \in Nat
ASSUME FaultsAssumption == Faults \in BOOLEAN

VARIABLES
  clock,     \* clock[a]: int(time.time()) on a's host
  key,       \* key[a]: version of a's key pair, in private.pem
  manifest,  \* manifest[a]: published capabilities and the key that signed them
  peers,     \* peers[a][b]: what a registered of b; in memory only
  token,     \* the tokens issued so far
  log,       \* log[a]: the rows of a's audit.sqlite
  call,      \* the invocations made so far
  client,    \* client[c]: where ATFClient.invoke is
  server,    \* server[c]: where the invoke endpoint is
  msgs,      \* requests and responses in flight
  restarts   \* restarts so far

agentVars == <<clock, key, manifest, peers, restarts>>
callVars == <<call, client, server, msgs>>
vars == <<agentVars, token, log, callVars>>

--------------------------------------------------------------------------------
Key == 1..MaxRestarts + 1
NoKey == 0
Sig == [by: Agent, key: Key]
Record == [caps: CapSet \cup {{}}, key: Key \cup {NoKey}]
NoRecord == [caps |-> {}, key |-> NoKey]

Token == [iss: Agent, sub: Agent, scope: ScopeSet, nbf: 0..MaxTime,
          exp: 1..MaxTime + MaxTTL, key: Key]

CallRecord == [jti: Jti, to: Agent, req: Request]

Completion == {"delegation.completed", "delegation.failed"}
EventType == Completion \cup {"delegation.issued", "delegation.started",
                              "delegation.disputed", "delegation.replay_attempt"}

(* src, the token or the call that gave rise to the event, stands for the uuid. *)
Event == [type: EventType, src: Jti \cup Call, jti: Jti, delegator: Agent,
          delegatee: Agent, scope: ScopeSet \cup {{}}]

Row == [event: Event, sigs: SUBSET Sig, pending: BOOLEAN]

Message == [type: {"invoke", "error", "ack"}, call: Call]
             \cup [type: {"outcome", "cosign"}, call: Call, event: Event, sig: Sig]

ClientState == {"idle", "waiting", "pushing", "failed", "mismatch", "disputed", "agreed"}
ServerState == {"idle", "refused", "bad_signature", "executing", "executed", "crashed"}

TypeOK ==
  /\ clock \in [Agent -> 0..MaxTime]
  /\ key \in [Agent -> Key]
  /\ manifest \in [Agent -> Record]
  /\ peers \in [Agent -> [Agent -> Record]]
  /\ restarts \in 0..MaxRestarts
  /\ DOMAIN token \subseteq Jti /\ token \in [DOMAIN token -> Token]
  /\ log \in [Agent -> SUBSET Row]
  /\ DOMAIN call \subseteq Call /\ call \in [DOMAIN call -> CallRecord]
  /\ client \in [Call -> ClientState]
  /\ server \in [Call -> ServerState]
  /\ msgs \subseteq Message

Init ==
  /\ clock = [a \in Agent |-> 0]
  /\ key = [a \in Agent |-> 1]
  /\ manifest = [a \in Agent |-> NoRecord]
  /\ peers = [a \in Agent |-> [b \in Agent |-> NoRecord]]
  /\ token = [j \in {} |-> 0]
  /\ log = [a \in Agent |-> {}]
  /\ call = [c \in {} |-> 0]
  /\ client = [c \in Call |-> "idle"]
  /\ server = [c \in Call |-> "idle"]
  /\ msgs = {}
  /\ restarts = 0
--------------------------------------------------------------------------------
Put(f, x, v) == [y \in DOMAIN f \cup {x} |-> IF y = x THEN v ELSE f[y]]

Mine(a) == [by |-> a, key |-> key[a]]

(* append_self: an entry signed by its author alone. *)
SelfRow(a, event) == [event |-> event, sigs |-> {Mine(a)}, pending |-> FALSE]

Journal(a, row) == log' = [log EXCEPT ![a] = @ \cup {row}]

(* The primary key of the events table is free. *)
Free(a, event) ==
  \A r \in log[a]: <<r.event.type, r.event.src>> # <<event.type, event.src>>

Tick(a) ==
  /\ clock[a] < MaxTime
  /\ clock' = [clock EXCEPT ![a] = @ + 1]
  /\ UNCHANGED <<key, manifest, peers, restarts, token, log, callVars>>

(* publish_manifest: signed with the current key, kept in manifest.json. *)
Publish(a, caps) ==
  /\ manifest' = [manifest EXCEPT ![a] = [caps |-> caps, key |-> key[a]]]
  /\ manifest' # manifest
  /\ UNCHANGED <<clock, key, peers, restarts, token, log, callVars>>

(* register_peer with b's jwks.json and manifest.json: the manifest has to
   verify with the key b serves now. *)
RegisterPeer(a, b) ==
  /\ manifest[b].key = key[b]
  /\ peers[a][b] # manifest[b]
  /\ peers' = [peers EXCEPT ![a][b] = manifest[b]]
  /\ UNCHANGED <<clock, key, manifest, restarts, token, log, callVars>>

Known(a, b) == peers[a][b].key # NoKey

(* Variant with a bug: a second too many. *)
ExpiryInclusive(a, ttl) == clock[a] + ttl + 1

(* issue_token *)
Expiry(a, ttl) == clock[a] + ttl

(* issue_delegation.  An agent without a manifest may delegate anything. *)
Issue(a, b, j, scope, ttl) ==
  /\ <<a, b>> \in Delegation
  /\ j \notin DOMAIN token
  /\ manifest[a] # NoRecord => ScopeDeclared(manifest[a].caps, scope)
  /\ token' = Put(token, j, [iss |-> a, sub |-> b, scope |-> scope, nbf |-> clock[a],
                             exp |-> Expiry(a, ttl), key |-> key[a]])
  /\ Journal(a, SelfRow(a, [type |-> "delegation.issued", src |-> j, jti |-> j,
                            delegator |-> a, delegatee |-> b, scope |-> scope]))
  /\ UNCHANGED <<agentVars, callVars>>

--------------------------------------------------------------------------------
TokenOf(c) == token[call[c].jti]
Caller(c) == TokenOf(c).iss

(* ATFClient.invoke up to its first await.  Nothing keeps a caller from using a
   token again, or from sending it to another agent. *)
Post(c, j, to, req) ==
  /\ c \notin DOMAIN call
  /\ j \in DOMAIN token
  /\ call' = Put(call, c, [jti |-> j, to |-> to, req |-> req])
  /\ client' = [client EXCEPT ![c] = "waiting"]
  /\ msgs' = msgs \cup {[type |-> "invoke", call |-> c]}
  /\ UNCHANGED <<agentVars, token, log, server>>

Required(c) == Handler[call[c].req.action].capability
SchemaOf(c) == Handler[call[c].req.action].schema

(* Variant with a bug: only the second of the two event types is looked up. *)
ReplayedOnceCompleted(b, j) ==
  \E r \in log[b]: r.event.jti = j /\ r.event.type = "delegation.completed"

(* verify_delegation finds the token in its own log. *)
Replayed(b, j) ==
  \E r \in log[b]: /\ r.event.jti = j
                   /\ r.event.type \in {"delegation.started", "delegation.completed"}

SignatureValid(b, t) == t.key = peers[b][t.iss].key

(* Variants with a bug: a token still valid at exp, for any agent, for any scope. *)
NotAfterExpiry(b, t) == clock[b] <= t.exp /\ clock[b] >= t.nbf
ForAnyone(b, t) == TRUE
AnyScope(b, t) == TRUE

(* verify_token after the signature: lifetime, subject, scope, manifest. *)
WithinLifetime(b, t) == clock[b] < t.exp /\ clock[b] >= t.nbf

ForMe(b, t) == t.sub = b

ScopeInManifest(b, t) == ScopeDeclared(peers[b][t.iss].caps, t.scope)

ClaimsValid(b, t, required) ==
  /\ WithinLifetime(b, t)
  /\ ForMe(b, t)
  /\ ScopeCovers(t.scope, required)
  /\ ScopeInManifest(b, t)

Received(c) == [type |-> "invoke", call |-> c]
ErrorReply(c) == [type |-> "error", call |-> c]

(* Variant with a bug: the caller never hears. *)
Unanswered(c) == msgs \ {Received(c)}

(* The request is answered with an HTTP error. *)
Refused(c) == (msgs \ {Received(c)}) \cup {ErrorReply(c)}

(* An HTTP error and nothing else: unknown action, unknown peer, or a token that
   verify_token turns down. *)
Refuse(c) ==
  LET b == call[c].to
      t == TokenOf(c) IN
  /\ Received(c) \in msgs
  /\ \/ call[c].req.action \notin DOMAIN Handler /\ server' = [server EXCEPT ![c] = "refused"]
     \/ /\ call[c].req.action \in DOMAIN Handler
        /\ ~Known(b, t.iss)
        /\ server' = [server EXCEPT ![c] = "refused"]
     \/ /\ call[c].req.action \in DOMAIN Handler
        /\ Known(b, t.iss)
        /\ ~Replayed(b, call[c].jti)
        /\ ~SignatureValid(b, t)
        /\ server' = [server EXCEPT ![c] = "bad_signature"]
     \/ /\ call[c].req.action \in DOMAIN Handler
        /\ Known(b, t.iss)
        /\ ~Replayed(b, call[c].jti)
        /\ SignatureValid(b, t)
        /\ ~ClaimsValid(b, t, Required(c))
        /\ server' = [server EXCEPT ![c] = "refused"]
  /\ msgs' = Refused(c)
  /\ UNCHANGED <<agentVars, token, log, call, client>>

(* 409: the replay itself is journaled. *)
RefuseReplay(c) ==
  LET b == call[c].to
      t == TokenOf(c) IN
  /\ Received(c) \in msgs
  /\ call[c].req.action \in DOMAIN Handler
  /\ Known(b, t.iss)
  /\ Replayed(b, call[c].jti)
  /\ Journal(b, SelfRow(b, [type |-> "delegation.replay_attempt", src |-> c,
                            jti |-> call[c].jti, delegator |-> t.iss, delegatee |-> b,
                            scope |-> {}]))
  /\ server' = [server EXCEPT ![c] = "refused"]
  /\ msgs' = Refused(c)
  /\ UNCHANGED <<agentVars, token, call, client>>

Acceptable(c) ==
  LET b == call[c].to
      t == TokenOf(c) IN
  /\ call[c].req.action \in DOMAIN Handler
  /\ Known(b, t.iss)
  /\ ~Replayed(b, call[c].jti)
  /\ SignatureValid(b, t)
  /\ ClaimsValid(b, t, Required(c))

(* The pre-execution journal, then the handler is awaited. *)
Accept(c) ==
  LET b == call[c].to
      t == TokenOf(c) IN
  /\ Received(c) \in msgs
  /\ Acceptable(c)
  /\ Journal(b, SelfRow(b, [type |-> "delegation.started", src |-> c, jti |-> call[c].jti,
                            delegator |-> t.iss, delegatee |-> b, scope |-> t.scope]))
  /\ server' = [server EXCEPT ![c] = "executing"]
  /\ msgs' = msgs \ {Received(c)}
  /\ UNCHANGED <<agentVars, token, call, client>>

(* The insert of RefuseReplay or Accept raises: 500, nothing recorded or run. *)
JournalFails(c) ==
  /\ Faults
  /\ Received(c) \in msgs
  /\ \/ Acceptable(c)
     \/ /\ call[c].req.action \in DOMAIN Handler
        /\ Known(call[c].to, Caller(c))
        /\ Replayed(call[c].to, call[c].jti)
  /\ server' = [server EXCEPT ![c] = "refused"]
  /\ msgs' = Refused(c)
  /\ UNCHANGED <<agentVars, token, log, call, client>>

(* build_completion_event *)
CompletionOf(c, type) ==
  [type |-> type, src |-> c, jti |-> call[c].jti, delegator |-> Caller(c),
   delegatee |-> TokenOf(c).sub, scope |-> TokenOf(c).scope]

(* Variants with a bug: not marked as pending, and not stored. *)
AppendFinal(b, event) ==
  Journal(b, [event |-> event, sigs |-> {Mine(b)}, pending |-> FALSE])
AppendNothing(b, event) == UNCHANGED log

(* append_pending: the delegatee has signed, the delegator has not. *)
AppendPending(b, event) ==
  Journal(b, [event |-> event, sigs |-> {Mine(b)}, pending |-> TRUE])

(* The handler returned or raised: sign the outcome, sign the completion event
   and store it pending, answer.  Both signatures are made with the same key. *)
Finish(c, type) ==
  LET b == call[c].to
      e == CompletionOf(c, type) IN
  /\ server[c] = "executing"
  /\ server' = [server EXCEPT ![c] = "executed"]
  /\ AppendPending(b, e)
  /\ msgs' = msgs \cup {[type |-> "outcome", call |-> c, event |-> e, sig |-> Mine(b)]}
  /\ UNCHANGED <<agentVars, token, call, client>>

(* The result cannot be serialised, or the insert raises: 500 after execution. *)
FinishUnlogged(c) ==
  /\ Faults
  /\ server[c] = "executing"
  /\ server' = [server EXCEPT ![c] = "executed"]
  /\ msgs' = msgs \cup {ErrorReply(c)}
  /\ UNCHANGED <<agentVars, token, log, call, client>>

--------------------------------------------------------------------------------
(* The rest of ATFClient.invoke, on the answer m. *)
Answered(m, type, c) == m.type = type /\ m.call = c /\ client[c] = "waiting"

ReceiveError(m, c) ==
  /\ Answered(m, "error", c)
  /\ client' = [client EXCEPT ![c] = "failed"]
  /\ msgs' = msgs \ {m}
  /\ UNCHANGED <<agentVars, token, log, call, server>>

VerifiedBy(a, b, sig) == Known(a, b) /\ sig = [by |-> b, key |-> peers[a][b].key]

SchemaAccepted(c) == call[c].req.expect \in {"any", SchemaOf(c)}

(* self.agent.peer(delegatee_id) raises before anything is verified. *)
UnknownPeer(m, c) ==
  /\ Answered(m, "outcome", c)
  /\ ~Known(Caller(c), call[c].to)
  /\ client' = [client EXCEPT ![c] = "failed"]
  /\ msgs' = msgs \ {m}
  /\ UNCHANGED <<agentVars, token, log, call, server>>

(* OutcomeInvalidSignature: the one-sided delegation.disputed event. *)
Dispute(m, c) ==
  LET a == Caller(c) IN
  /\ Answered(m, "outcome", c)
  /\ Known(a, call[c].to)
  /\ ~VerifiedBy(a, call[c].to, m.sig)
  /\ Journal(a, SelfRow(a, [type |-> "delegation.disputed", src |-> c, jti |-> call[c].jti,
                            delegator |-> a, delegatee |-> call[c].to, scope |-> {}]))
  /\ client' = [client EXCEPT ![c] = "disputed"]
  /\ msgs' = msgs \ {m}
  /\ UNCHANGED <<agentVars, token, call, server>>

(* OutcomeSchemaMismatch is not caught: the caller gets the exception, the log
   gets nothing. *)
Mismatch(m, c) ==
  /\ Answered(m, "outcome", c)
  /\ VerifiedBy(Caller(c), call[c].to, m.sig)
  /\ ~SchemaAccepted(c)
  /\ client' = [client EXCEPT ![c] = "mismatch"]
  /\ msgs' = msgs \ {m}
  /\ UNCHANGED <<agentVars, token, log, call, server>>

(* Variant with a bug: a delegator that keeps its signature to itself. *)
NothingPushed(m, c, sig) == {}

(* The push of the delegator's signature, if the caller asked for it. *)
Pushed(m, c, sig) ==
  IF call[c].req.cosign
  THEN {[type |-> "cosign", call |-> c, event |-> m.event, sig |-> sig]}
  ELSE {}

(* Variant with a bug: the push is not awaited. *)
PushInBackground(c) == "agreed"

(* The push is awaited before invoke returns. *)
AfterRecord(c) == IF call[c].req.cosign THEN "pushing" ELSE "agreed"

(* append_finalized, then the push. *)
Agree(m, c) ==
  LET a == Caller(c) IN
  /\ Answered(m, "outcome", c)
  /\ VerifiedBy(a, call[c].to, m.sig)
  /\ SchemaAccepted(c)
  /\ Free(a, m.event)
  /\ Journal(a, [event |-> m.event, sigs |-> {Mine(a), m.sig}, pending |-> FALSE])
  /\ client' = [client EXCEPT ![c] = AfterRecord(c)]
  /\ msgs' = (msgs \ {m}) \cup Pushed(m, c, Mine(a))
  /\ UNCHANGED <<agentVars, token, call, server>>

(* An insert of Dispute or Agree raises.  It always does when an agent that
   delegates to itself finds its own pending row under the event's id. *)
RecordFails(m, c) ==
  LET a == Caller(c) IN
  /\ Answered(m, "outcome", c)
  /\ Known(a, call[c].to)
  /\ \/ Faults /\ ~VerifiedBy(a, call[c].to, m.sig)
     \/ /\ VerifiedBy(a, call[c].to, m.sig)
        /\ SchemaAccepted(c)
        /\ Faults \/ ~Free(a, m.event)
  /\ client' = [client EXCEPT ![c] = "failed"]
  /\ msgs' = msgs \ {m}
  /\ UNCHANGED <<agentVars, token, log, call, server>>

(* The push is answered; nobody looks at the status. *)
ReceiveAck(m, c) ==
  /\ m.type = "ack" /\ m.call = c
  /\ client[c] = "pushing"
  /\ client' = [client EXCEPT ![c] = "agreed"]
  /\ msgs' = msgs \ {m}
  /\ UNCHANGED <<agentVars, token, log, call, server>>

(* The 10 s timeout of httpx, or a connection that broke: invoke raises, or, if it
   was pushing, logs a warning and returns. *)
Timeout(c) ==
  /\ Faults
  /\ client[c] \in {"waiting", "pushing"}
  /\ client' = [client EXCEPT ![c] = IF @ = "waiting" THEN "failed" ELSE "agreed"]
  /\ UNCHANGED <<agentVars, token, log, call, server, msgs>>

--------------------------------------------------------------------------------
(* The audit/cosign endpoint: finalize_pending for a registered signer. *)
Closable(m, b, r) ==
  /\ <<r.event.type, r.event.src>> = <<m.event.type, m.event.src>>
  /\ r.pending
  /\ VerifiedBy(b, m.sig.by, m.sig)

(* The signature is added unless its signer has signed before. *)
Countersigned(r, sig) ==
  r.sigs \cup {x \in {sig}: \A s \in r.sigs: s.by # x.by}

Ack(m) == [type |-> "ack", call |-> m.call]

Close(m) ==
  /\ m.type = "cosign"
  /\ LET b == call[m.call].to IN
     \E r \in log[b]:
       /\ Closable(m, b, r)
       /\ log' = [log EXCEPT ![b] = (@ \ {r}) \cup
            {[event |-> r.event, sigs |-> Countersigned(r, m.sig), pending |-> FALSE]}]
  /\ msgs' = (msgs \ {m}) \cup {Ack(m)}
  /\ UNCHANGED <<agentVars, token, call, client, server>>

RejectCosign(m) ==
  /\ m.type = "cosign"
  /\ ~\E r \in log[call[m.call].to]: Closable(m, call[m.call].to, r)
  /\ msgs' = (msgs \ {m}) \cup {Ack(m)}
  /\ UNCHANGED <<agentVars, token, log, call, client, server>>

(* A message is lost, or its connection breaks. *)
Lose(m) ==
  /\ Faults
  /\ msgs' = msgs \ {m}
  /\ UNCHANGED <<agentVars, token, log, call, client, server>>

ToAgent(m, a) ==
  \/ m.type \in {"invoke", "cosign"} /\ call[m.call].to = a
  \/ m.type \in {"error", "outcome", "ack"} /\ Caller(m.call) = a

(* a dies and Agent.create opens its data directory again: the key (a new one if
   private.pem is gone), the manifest and the log come back, the peers, the
   running handlers, the waiting calls and the connections do not. *)
Restart(a, newKey) ==
  /\ Faults
  /\ restarts < MaxRestarts
  /\ restarts' = restarts + 1
  /\ key' = [key EXCEPT ![a] = IF newKey THEN @ + 1 ELSE @]
  /\ peers' = [peers EXCEPT ![a] = [b \in Agent |-> NoRecord]]
  /\ client' = [c \in Call |-> IF client[c] \in {"waiting", "pushing"} /\ Caller(c) = a
                               THEN "failed" ELSE client[c]]
  /\ server' = [c \in Call |-> IF server[c] = "executing" /\ call[c].to = a
                               THEN "crashed" ELSE server[c]]
  /\ msgs' = {m \in msgs: ~ToAgent(m, a)}
  /\ UNCHANGED <<clock, manifest, token, log, call>>

--------------------------------------------------------------------------------
Setup(a) ==
  \/ Tick(a)
  \/ \E caps \in CapSet: Publish(a, caps)
  \/ \E b \in Agent: RegisterPeer(a, b)
  \/ \E newKey \in BOOLEAN: Restart(a, newKey)

Delegate ==
  \/ \E a, b \in Agent, j \in Jti, scope \in ScopeSet, ttl \in 1..MaxTTL:
       Issue(a, b, j, scope, ttl)
  \/ \E c \in Call, j \in Jti, to \in Agent, req \in Request: Post(c, j, to, req)

Serve(c) == Refuse(c) \/ RefuseReplay(c) \/ Accept(c) \/ JournalFails(c)

Complete(c) == FinishUnlogged(c) \/ \E type \in Completion: Finish(c, type)

Receive(c) ==
  \E m \in msgs: \/ ReceiveError(m, c) \/ UnknownPeer(m, c) \/ Dispute(m, c)
                 \/ Mismatch(m, c) \/ Agree(m, c) \/ RecordFails(m, c)
                 \/ ReceiveAck(m, c)

Deliver(c) == \E m \in msgs: m.call = c /\ (Close(m) \/ RejectCosign(m))

Next ==
  \/ \E a \in Agent: Setup(a)
  \/ Delegate
  \/ \E c \in Call: Serve(c) \/ Complete(c) \/ Receive(c) \/ Deliver(c) \/ Timeout(c)
  \/ \E m \in msgs: Lose(m)

Spec == Init /\ [][Next]_vars

(* What the event loops and httpx guarantee: a request that reached a server is
   served, a handler returns, an answer is consumed, a timeout fires. *)
Fairness ==
  \A c \in Call: /\ WF_vars(Serve(c))
                 /\ WF_vars(Complete(c))
                 /\ WF_vars(Receive(c))
                 /\ WF_vars(Deliver(c))
                 /\ WF_vars(Timeout(c))

FairSpec == Spec /\ Fairness

--------------------------------------------------------------------------------
Ran(c) == server[c] \in {"executing", "executed", "crashed"}

Rows(a, j, types) == {r \in log[a]: r.event.jti = j /\ r.event.type \in types}

(* A token is executed at most once, whatever is retried, replayed, crashed or
   lost: the replay check of verify_delegation reads the started entry back. *)
AtMostOnce ==
  \A c, d \in Call: Ran(c) /\ Ran(d) /\ c # d => call[c].jti # call[d].jti

(* An agent executes only what the delegator's own log says was delegated to it:
   the token's issuance is on record there for this agent, with a scope that
   covers the capability of the executed action. *)
ExecutionAuthorised ==
  \A c \in Call: Ran(c) =>
    \E r \in Rows(Caller(c), call[c].jti, {"delegation.issued"}):
      /\ r.event.delegatee = call[c].to
      /\ ScopeCovers(r.event.scope, Required(c))

(* verify_token checks the scope against the manifest and the action against the
   scope; together they keep every accepted action within the manifest the
   delegatee has on record for the delegator. *)
AcceptedWithinManifest ==
  [][\A c \in Call: ~Ran(c) /\ Ran(c)' =>
       HasCapability(peers[call[c].to][Caller(c)].caps, Required(c))]_vars

(* A token outlives its issuance by less than MAX_TTL_SECONDS: whatever ttl was
   asked for and however long the request was delayed, the delegatee starts no
   execution before nbf or MaxTTL seconds after it. *)
LifetimeBounded ==
  [][\A c \in Call: ~Ran(c) /\ Ran(c)' =>
       LET age == clock[call[c].to] - TokenOf(c).nbf IN age >= 0 /\ age < MaxTTL]_vars

(* "both required for delegation.completed" (design 2.3, L7): an entry for a
   finished delegation that does not wait for the peer carries both signatures. *)
CrossSigned ==
  \A a \in Agent: \A r \in log[a]:
    r.event.type \in Completion /\ ~r.pending =>
      {s.by: s \in r.sigs} = {r.event.delegator, r.event.delegatee}

(* "byte-identical content" on both sides (audit.py): a cross-signed entry is in
   the log of the delegatee, and once the delegatee's is closed, cross-signed in
   the log of the delegator, however calls fail and agents restart in between. *)
SameRecord ==
  \A a \in Agent: \A r \in log[a]:
    r.event.type \in Completion /\ ~r.pending =>
      /\ \E s \in log[r.event.delegatee]: s.event = r.event
      /\ \E s \in log[r.event.delegator]: s.event = r.event /\ ~s.pending

(* verify_record_signatures, with the public keys a third party was given. *)
RecordVerifies(r, keys) == \A s \in r.sigs: s.key = keys[s.by]

(* Whichever party a third party gets a closed record from, and whatever keys it
   knows, the verdict is the same: "byte-identical" records carry the very same
   signatures, also when keys have changed between signing and countersigning. *)
SameVerdict ==
  \A a, b \in Agent: \A r \in log[a], s \in log[b]:
    /\ r.event = s.event
    /\ ~r.pending /\ ~s.pending
    => \A keys \in [Agent -> Key]: RecordVerifies(r, keys) = RecordVerifies(s, keys)

(* The two logs together, one token at a time, go through the cross-sign protocol
   in order: no execution without issuance, no agreement before the delegatee has
   signed, no countersignature without agreement, never both agreement and
   dispute. *)
DelegatorOf(j) ==
  LET own(types) == Rows(token[j].iss, j, types) IN
  CASE j \notin DOMAIN token -> "none"
    [] j \in DOMAIN token /\ own({"delegation.disputed"}) # {} -> "disputed"
    [] OTHER -> IF \E r \in own(Completion): ~r.pending THEN "agreed" ELSE "issued"

DelegateeOf(j) ==
  LET own(types) == Rows(token[j].sub, j, types) IN
  CASE j \notin DOMAIN token -> "none"
    [] j \in DOMAIN token /\ own(Completion) # {} ->
         IF \E r \in own(Completion): r.pending THEN "signed" ELSE "closed"
    [] OTHER -> IF own({"delegation.started"}) # {} THEN "started" ELSE "none"

CS == INSTANCE CrossSign WITH delegator <- [j \in Jti |-> DelegatorOf(j)],
                              delegatee <- [j \in Jti |-> DelegateeOf(j)]

CrossSignSpec == CS!Spec

(* ATFClient.invoke returns or raises. *)
InvokeReturns ==
  LET busy(c) == client[c] \in {"waiting", "pushing"} IN
  \A c \in Call: busy(c) ~> ~busy(c)

ClosedAt(a, c) == \E r \in log[a]: /\ r.event.src = c
                                    /\ r.event.type \in Completion
                                    /\ ~r.pending

(* When invoke has returned and nothing failed, both entries are closed already:
   the push is awaited, and its answer comes after finalize_pending. *)
ReturnedClosed ==
  ~Faults =>
    \A c \in Call: client[c] = "agreed" /\ call[c].req.cosign =>
      ClosedAt(Caller(c), c) /\ ClosedAt(call[c].to, c)

(* Without faults an execution for a caller that knows the delegatee, expects its
   schema and pushes its signature ends as a closed entry in both logs. *)
CrossSignedEventually ==
  \A c \in Call:
    /\ server[c] = "executing"
    /\ Known(Caller(c), call[c].to) /\ Caller(c) # call[c].to
    /\ SchemaAccepted(c) /\ call[c].req.cosign
    ~> /\ c \in DOMAIN call
       /\ ClosedAt(Caller(c), c) /\ ClosedAt(call[c].to, c)

--------------------------------------------------------------------------------
(* "B writes delegation.orphan_completed locally" when cross-signing keeps failing
   after the execution (design 4.4).  Refuted: see the run flow_orphan. *)
CompletionRecorded ==
  \A c \in Call: Ran(c) ~>
    \E a \in Agent: \E r \in log[a]:
      /\ r.event.src = c
      /\ r.event.type \in Completion \cup {"delegation.orphan_completed"}
================================================================================
