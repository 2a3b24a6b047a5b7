------------------------- MODULE DelegationFlowProofs -------------------------
(***************************************************************************)
(* For any agents, tokens, calls, capability names and fault bounds: every *)
(* state is typed, a token is executed at most once, and what is executed  *)
(* is within the delegator's manifest; a completion entry that does not    *)
(* wait for the peer carries both signatures and is in the logs of both    *)
(* parties, with the very same signatures, so that a third party's verdict *)
(* does not depend on whom it asks.                                        *)
(*                                                                         *)
(* The order on capability names comes first, for names of any length: what*)
(* the two separate checks of a delegation, scope against manifest and     *)
(* action against scope, give together.                                    *)
(***************************************************************************)
EXTENDS DelegationFlow, TLAPS

(* Covers, one segment at a time. *)
LEMMA CoversBySegment ==
  ASSUME NEW S, NEW d \in Seq(S), NEW n \in Seq(S)
  PROVE  Covers(d, n) <=> /\ Len(d) <= Len(n)
                          /\ \A i \in 1..Len(d): d[i] = n[i]
<1>1. ASSUME Covers(d, n), NEW i \in 1..Len(d)
      PROVE  Len(d) <= Len(n) /\ d[i] = n[i]
  <2>1. CASE n = d
    BY <2>1
  <2>2. CASE IsStrictPrefix(d, n)
    <3>1. Len(d) <= Len(n) /\ SubSeq(d, 1, Len(d)) = SubSeq(n, 1, Len(d))
      BY <2>2 DEF IsStrictPrefix, IsPrefix
    <3>2. SubSeq(d, 1, Len(d))[i] = d[i] /\ SubSeq(n, 1, Len(d))[i] = n[i]
      BY <3>1
    <3>3. QED
      BY <3>1, <3>2
  <2>3. QED
    BY <1>1, <2>1, <2>2 DEF Covers
<1>2. ASSUME Covers(d, n)
      PROVE  Len(d) <= Len(n)
  BY <1>2 DEF Covers, IsStrictPrefix, IsPrefix
<1>3. ASSUME Len(d) <= Len(n), \A i \in 1..Len(d): d[i] = n[i]
      PROVE  Covers(d, n)
  <2>1. SubSeq(d, 1, Len(d)) = SubSeq(n, 1, Len(d))
    BY <1>3
  <2>2. QED
    BY <1>3, <2>1 DEF Covers, IsStrictPrefix, IsPrefix
<1>4. QED
  BY <1>1, <1>2, <1>3

(* A name covers itself (exact match). *)
LEMMA CoversReflexive == \A n: Covers(n, n)
BY DEF Covers

(* What a declared name covers, all that is below it covers too. *)
LEMMA CoversTransitive ==
  ASSUME NEW S, NEW x \in Seq(S), NEW y \in Seq(S), NEW z \in Seq(S),
         Covers(x, y), Covers(y, z)
  PROVE  Covers(x, z)
<1>1. /\ Len(x) <= Len(y) /\ \A i \in 1..Len(x): x[i] = y[i]
      /\ Len(y) <= Len(z) /\ \A i \in 1..Len(y): y[i] = z[i]
  BY CoversBySegment
<1>2. Len(x) <= Len(z) /\ \A i \in 1..Len(x): x[i] = z[i]
  BY <1>1
<1>3. QED
  BY <1>2, CoversBySegment

(* Two different names never cover each other: the hierarchy has no cycles, so a
   more general name is never reached from a more specific one. *)
THEOREM CoversAntisymmetric ==
  ASSUME NEW S, NEW x \in Seq(S), NEW y \in Seq(S), Covers(x, y), Covers(y, x)
  PROVE  x = y
<1>1. /\ Len(x) = Len(y)
      /\ \A i \in 1..Len(x): x[i] = y[i]
  BY CoversBySegment
<1>2. QED
  BY <1>1

(* manifest_has_capability on every item of the scope and _scope_covers on the
   action are enough: an action within the scope of a delegation is within the
   delegator's manifest, without a check of the one against the other. *)
THEOREM NoEscalation ==
  ASSUME NEW S, NEW caps \in SUBSET Seq(S), NEW scope \in SUBSET Seq(S),
         NEW required \in Seq(S),
         ScopeDeclared(caps, scope), ScopeCovers(scope, required)
  PROVE  HasCapability(caps, required)
<1>1. PICK s \in scope: Covers(s, required)
  BY DEF ScopeCovers
<1>2. PICK d \in caps: Covers(d, s)
  BY <1>1 DEF ScopeDeclared, HasCapability
<1>3. Covers(d, required)
  BY <1>1, <1>2, CoversTransitive
<1>4. QED
  BY <1>3 DEF HasCapability

--------------------------------------------------------------------------------
(* Requests in progress belong to calls that were made with issued tokens. *)
Posted ==
  /\ \A c \in DOMAIN call: call[c].jti \in DOMAIN token
  /\ \A m \in msgs: m.call \in DOMAIN call
  /\ \A c \in Call: client[c] = "waiting" => c \in DOMAIN call
  /\ \A c \in Call: Ran(c) => c \in DOMAIN call

(* An execution happens at the token's subject, whose log has it on record. *)
StartedAt(b, j) ==
  \E r \in log[b]: r.event.jti = j /\ r.event.type = "delegation.started"

RanStarted ==
  \A c \in Call: Ran(c) => /\ call[c].to = TokenOf(c).sub
                           /\ StartedAt(call[c].to, call[c].jti)

(* Keys are regenerated by restarts only. *)
KeysCounted == \A a \in Agent: key[a] <= restarts + 1

IInv == TypeOK /\ KeysCounted /\ Posted /\ RanStarted /\ AtMostOnce

--------------------------------------------------------------------------------
(* Adding to a partial function keeps it typed and keeps what it held. *)
LEMMA PutTyped ==
  ASSUME NEW S, NEW T, NEW f, DOMAIN f \subseteq S, f \in [DOMAIN f -> T],
         NEW x \in S, NEW v \in T
  PROVE  /\ DOMAIN Put(f, x, v) \subseteq S
         /\ Put(f, x, v) \in [DOMAIN Put(f, x, v) -> T]
BY DEF Put

(* A new argument leaves the old ones alone. *)
LEMMA PutKeeps ==
  ASSUME NEW f, NEW x, x \notin DOMAIN f, NEW v
  PROVE  /\ DOMAIN f \subseteq DOMAIN Put(f, x, v)
         /\ \A y \in DOMAIN f: Put(f, x, v)[y] = f[y]
         /\ x \in DOMAIN Put(f, x, v) /\ Put(f, x, v)[x] = v
BY DEF Put

(* An agent's signature is typed. *)
LEMMA MineTyped ==
  ASSUME TypeOK, NEW a \in Agent
  PROVE  Mine(a) \in Sig
BY DEF TypeOK, Mine, Sig

(* A typed row keeps the logs typed. *)
LEMMA JournalTyped ==
  ASSUME TypeOK, NEW a \in Agent, NEW row \in Row, Journal(a, row)
  PROVE  log' \in [Agent -> SUBSET Row]
BY DEF TypeOK, Journal

(* An event signed by its author makes a typed row. *)
LEMMA SelfRowTyped ==
  ASSUME TypeOK, NEW a \in Agent, NEW e \in Event
  PROVE  SelfRow(a, e) \in Row
BY MineTyped DEF SelfRow, Row

(* What a posted call and its token are made of. *)
LEMMA CallTyped ==
  ASSUME TypeOK, Posted, NEW c \in DOMAIN call
  PROVE  /\ c \in Call /\ call[c] \in CallRecord /\ TokenOf(c) \in Token
         /\ call[c].to \in Agent /\ call[c].jti \in Jti /\ Caller(c) \in Agent
         /\ TokenOf(c).sub \in Agent /\ TokenOf(c).scope \in ScopeSet
BY DEF TypeOK, Posted, CallRecord, TokenOf, Caller, Token

(* The initial state satisfies the invariant. *)
LEMMA InitIInv == Init => IInv
<1> SUFFICES ASSUME Init PROVE IInv
  OBVIOUS
<1>1. TypeOK
  BY BoundsAssumption DEF Init, TypeOK, Key, NoKey, Record, NoRecord, ClientState, ServerState
<1>2. KeysCounted /\ Posted /\ RanStarted /\ AtMostOnce
  BY DEF Init, KeysCounted, Posted, RanStarted, AtMostOnce, Ran
<1>3. QED
  BY <1>1, <1>2 DEF IInv
--------------------------------------------------------------------------------
(* Type correctness, one lemma for each group of actions.  First, the set-up of an
   agent, its clock and its restarts. *)
LEMMA SetupTyped ==
  ASSUME TypeOK, KeysCounted, NEW a \in Agent, Setup(a)
  PROVE  TypeOK' /\ KeysCounted'
<1>1. CASE Tick(a)
  BY <1>1, BoundsAssumption DEF TypeOK, KeysCounted, Tick, callVars
<1>2. ASSUME NEW caps \in CapSet, Publish(a, caps)
      PROVE  TypeOK' /\ KeysCounted'
  <2>1. [caps |-> caps, key |-> key[a]] \in Record
    BY DEF TypeOK, Record
  <2>2. QED
    BY <1>2, <2>1 DEF TypeOK, KeysCounted, Publish, callVars
<1>3. ASSUME NEW b \in Agent, RegisterPeer(a, b)
      PROVE  TypeOK' /\ KeysCounted'
  BY <1>3 DEF TypeOK, KeysCounted, RegisterPeer, callVars
<1>4. ASSUME NEW newKey \in BOOLEAN, Restart(a, newKey)
      PROVE  TypeOK' /\ KeysCounted'
  <2>1. NoRecord \in Record
    BY DEF NoRecord, Record
  <2>2. peers' \in [Agent -> [Agent -> Record]]
    BY <1>4, <2>1 DEF TypeOK, Restart
  <2>3. /\ key' \in [Agent -> Key] /\ restarts' \in 0..MaxRestarts
        /\ KeysCounted'
    <3>1. \A b \in Agent: key[b] \in Nat /\ key[b] >= 1 /\ key[b] <= restarts + 1
      BY DEF TypeOK, KeysCounted, Key
    <3>2. \A b \in Agent: key'[b] = key[b] \/ key'[b] = key[b] + 1
      BY <1>4 DEF TypeOK, Restart
    <3>3. restarts' = restarts + 1 /\ restarts' \in 0..MaxRestarts /\ restarts \in Nat
      BY <1>4, BoundsAssumption DEF TypeOK, Restart
    <3>4. \A b \in Agent: key'[b] \in Key /\ key'[b] <= restarts' + 1
      BY <3>1, <3>2, <3>3, BoundsAssumption DEF Key
    <3>5. key' = [b \in Agent |-> key'[b]]
      BY <1>4 DEF TypeOK, Restart
    <3>6. QED
      BY <3>3, <3>4, <3>5 DEF KeysCounted
  <2>4. client' \in [Call -> ClientState] /\ server' \in [Call -> ServerState]
    BY <1>4 DEF TypeOK, Restart, ClientState, ServerState
  <2>5. msgs' \subseteq Message
    BY <1>4 DEF TypeOK, Restart
  <2>6. QED
    BY <1>4, <2>2, <2>3, <2>4, <2>5 DEF TypeOK, Restart
<1>5. QED
  BY <1>1, <1>2, <1>3, <1>4 DEF Setup

(* Issuing and posting. *)
LEMMA DelegateTyped ==
  ASSUME TypeOK, Posted, Delegate
  PROVE  TypeOK'
<1>1. ASSUME NEW a \in Agent, NEW b \in Agent, NEW j \in Jti, NEW scope \in ScopeSet,
             NEW ttl \in 1..MaxTTL, Issue(a, b, j, scope, ttl)
      PROVE  TypeOK'
  <2> DEFINE t == [iss |-> a, sub |-> b, scope |-> scope, nbf |-> clock[a],
                   exp |-> Expiry(a, ttl), key |-> key[a]]
             e == [type |-> "delegation.issued", src |-> j, jti |-> j,
                   delegator |-> a, delegatee |-> b, scope |-> scope]
  <2>1. t \in Token
    BY BoundsAssumption DEF TypeOK, Token, Expiry
  <2>2. e \in Event
    BY DEF Event, EventType, Completion
  <2>3. log' \in [Agent -> SUBSET Row]
    <3> HIDE DEF e
    <3>1. Journal(a, SelfRow(a, e))
      BY <1>1 DEF Issue, e
    <3>2. QED
      BY <2>2, <3>1, SelfRowTyped, JournalTyped
  <2>4. DOMAIN token' \subseteq Jti /\ token' \in [DOMAIN token' -> Token]
    <3> HIDE DEF t
    <3>1. token' = Put(token, j, t)
      BY <1>1 DEF Issue, t
    <3>2. QED
      BY <2>1, <3>1, PutTyped DEF TypeOK
  <2>5. QED
    BY <1>1, <2>3, <2>4 DEF TypeOK, Issue, agentVars, callVars
<1>2. ASSUME NEW c \in Call, NEW j \in Jti, NEW to \in Agent, NEW req \in Request,
             Post(c, j, to, req)
      PROVE  TypeOK'
  <2> DEFINE r == [jti |-> j, to |-> to, req |-> req]
  <2>1. r \in CallRecord
    BY DEF CallRecord
  <2>2. DOMAIN call' \subseteq Call /\ call' \in [DOMAIN call' -> CallRecord]
    <3> HIDE DEF r
    <3>1. call' = Put(call, c, r)
      BY <1>2 DEF Post, r
    <3>2. QED
      BY <2>1, <3>1, PutTyped DEF TypeOK
  <2>3. [type |-> "invoke", call |-> c] \in Message
    BY DEF Message
  <2>4. client' \in [Call -> ClientState]
    BY <1>2 DEF TypeOK, Post, ClientState
  <2>5. QED
    BY <1>2, <2>2, <2>3, <2>4 DEF TypeOK, Post, agentVars
<1>3. QED
  BY <1>1, <1>2 DEF Delegate

(* The invoke endpoint up to the execution. *)
LEMMA ServeTyped ==
  ASSUME TypeOK, Posted, NEW c \in Call, Serve(c)
  PROVE  TypeOK'
<1>1. c \in DOMAIN call /\ Received(c) \in msgs
  BY DEF Serve, Refuse, RefuseReplay, Accept, JournalFails, Received, Posted
<1>2. ErrorReply(c) \in Message
  BY DEF ErrorReply, Message
<1>3. CASE Refuse(c)
  <2>1. server' \in [Call -> ServerState]
    BY <1>3 DEF Refuse, TypeOK, ServerState
  <2>2. QED
    BY <1>2, <1>3, <2>1 DEF TypeOK, Refuse, Refused, agentVars
<1>4. CASE RefuseReplay(c)
  <2> DEFINE b == call[c].to
             e == [type |-> "delegation.replay_attempt", src |-> c, jti |-> call[c].jti,
                   delegator |-> TokenOf(c).iss, delegatee |-> b, scope |-> {}]
  <2>1. e \in Event /\ b \in Agent
    BY <1>1, CallTyped DEF Event, EventType, Completion, Caller
  <2>2. Journal(b, SelfRow(b, e))
    BY <1>4 DEF RefuseReplay
  <2> HIDE DEF b, e
  <2>3. log' \in [Agent -> SUBSET Row]
    BY <2>1, <2>2, SelfRowTyped, JournalTyped
  <2>4. server' \in [Call -> ServerState]
    BY <1>4 DEF RefuseReplay, TypeOK, ServerState
  <2>5. QED
    BY <1>2, <1>4, <2>3, <2>4 DEF TypeOK, RefuseReplay, Refused, agentVars
<1>5. CASE Accept(c)
  <2> DEFINE b == call[c].to
             e == [type |-> "delegation.started", src |-> c, jti |-> call[c].jti,
                   delegator |-> TokenOf(c).iss, delegatee |-> b,
                   scope |-> TokenOf(c).scope]
  <2>1. e \in Event /\ b \in Agent
    BY <1>1, CallTyped DEF Event, EventType, Completion, Caller
  <2>2. Journal(b, SelfRow(b, e))
    BY <1>5 DEF Accept
  <2> HIDE DEF b, e
  <2>3. log' \in [Agent -> SUBSET Row]
    BY <2>1, <2>2, SelfRowTyped, JournalTyped
  <2>4. server' \in [Call -> ServerState]
    BY <1>5 DEF Accept, TypeOK, ServerState
  <2>5. QED
    BY <1>5, <2>3, <2>4 DEF TypeOK, Accept, agentVars
<1>6. CASE JournalFails(c)
  <2>1. server' \in [Call -> ServerState]
    BY <1>6 DEF JournalFails, TypeOK, ServerState
  <2>2. QED
    BY <1>2, <1>6, <2>1 DEF TypeOK, JournalFails, Refused, agentVars
<1>7. QED
  BY <1>3, <1>4, <1>5, <1>6 DEF Serve

(* The invoke endpoint after the execution. *)
LEMMA CompleteTyped ==
  ASSUME TypeOK, Posted, NEW c \in Call, Complete(c)
  PROVE  TypeOK'
<1>1. c \in DOMAIN call
  BY DEF Complete, Finish, FinishUnlogged, Posted, Ran
<1>2. CASE FinishUnlogged(c)
  <2>1. ErrorReply(c) \in Message
    BY DEF ErrorReply, Message
  <2>2. server' \in [Call -> ServerState]
    BY <1>2 DEF FinishUnlogged, TypeOK, ServerState
  <2>3. QED
    BY <1>2, <2>1, <2>2 DEF TypeOK, FinishUnlogged, agentVars
<1>3. ASSUME NEW type \in Completion, Finish(c, type)
      PROVE  TypeOK'
  <2> DEFINE b == call[c].to
             e == CompletionOf(c, type)
             row == [event |-> e, sigs |-> {Mine(b)}, pending |-> TRUE]
             m == [type |-> "outcome", call |-> c, event |-> e, sig |-> Mine(b)]
  <2>1. b \in Agent /\ e \in Event
    BY <1>1, CallTyped DEF CompletionOf, Event, EventType
  <2>2. Mine(b) \in Sig
    BY <2>1, MineTyped
  <2>3. row \in Row /\ m \in Message
    BY <2>1, <2>2 DEF Row, Message
  <2>4. Journal(b, row) /\ msgs' = msgs \cup {m}
    BY <1>3 DEF Finish, AppendPending
  <2>5. server' \in [Call -> ServerState]
    BY <1>3 DEF Finish, TypeOK, ServerState
  <2> HIDE DEF b, row, m
  <2>6. log' \in [Agent -> SUBSET Row]
    BY <2>1, <2>3, <2>4, JournalTyped
  <2>7. QED
    BY <1>3, <2>3, <2>4, <2>5, <2>6 DEF TypeOK, Finish, agentVars
<1>4. QED
  BY <1>2, <1>3 DEF Complete

(* The client on its answer. *)
LEMMA ReceiveTyped ==
  ASSUME TypeOK, Posted, NEW c \in Call, Receive(c)
  PROVE  TypeOK'
<1>1. PICK m \in msgs: \/ ReceiveError(m, c) \/ UnknownPeer(m, c) \/ Dispute(m, c)
                       \/ Mismatch(m, c) \/ Agree(m, c) \/ RecordFails(m, c)
                       \/ ReceiveAck(m, c)
  BY DEF Receive
<1>2. c \in DOMAIN call /\ m \in Message
  BY <1>1 DEF Posted, TypeOK, ReceiveError, UnknownPeer, Dispute, Mismatch, Agree,
    RecordFails, ReceiveAck, Answered
<1>3. Caller(c) \in Agent /\ call[c].to \in Agent /\ call[c].jti \in Jti
  BY <1>2, CallTyped
<1>4. client' \in [Call -> ClientState]
  BY <1>1 DEF TypeOK, ReceiveError, UnknownPeer, Dispute, Mismatch, Agree,
    RecordFails, ReceiveAck, AfterRecord, ClientState
<1>5. CASE \/ ReceiveError(m, c) \/ UnknownPeer(m, c) \/ Mismatch(m, c)
           \/ RecordFails(m, c) \/ ReceiveAck(m, c)
  BY <1>4, <1>5 DEF TypeOK, ReceiveError, UnknownPeer, Mismatch, RecordFails, ReceiveAck,
    agentVars
<1>6. CASE Dispute(m, c)
  <2> DEFINE a == Caller(c)
             e == [type |-> "delegation.disputed", src |-> c, jti |-> call[c].jti,
                   delegator |-> a, delegatee |-> call[c].to, scope |-> {}]
  <2>1. e \in Event
    BY <1>3 DEF Event, EventType, Completion
  <2>2. Journal(a, SelfRow(a, e))
    BY <1>6 DEF Dispute
  <2> HIDE DEF e
  <2>3. log' \in [Agent -> SUBSET Row]
    BY <1>3, <2>1, <2>2, SelfRowTyped, JournalTyped
  <2>4. QED
    BY <1>4, <1>6, <2>3 DEF TypeOK, Dispute, agentVars
<1>7. CASE Agree(m, c)
  <2> DEFINE a == Caller(c)
             row == [event |-> m.event, sigs |-> {Mine(a), m.sig}, pending |-> FALSE]
  <2>1. m.event \in Event /\ m.sig \in Sig
    BY <1>2, <1>7 DEF Agree, Answered, Message
  <2>2. Mine(a) \in Sig
    BY <1>3, MineTyped
  <2>3. row \in Row
    BY <2>1, <2>2 DEF Row
  <2>4. Journal(a, row)
    BY <1>7 DEF Agree
  <2> HIDE DEF row
  <2>5. log' \in [Agent -> SUBSET Row]
    BY <1>3, <2>3, <2>4, JournalTyped
  <2>6. Pushed(m, c, Mine(a)) \subseteq Message
    BY <2>1, <2>2 DEF Pushed, Message
  <2>7. msgs' \subseteq Message
    BY <1>7, <2>6 DEF Agree, TypeOK
  <2>8. QED
    BY <1>4, <1>7, <2>5, <2>7 DEF TypeOK, Agree, agentVars
<1>8. QED
  BY <1>1, <1>5, <1>6, <1>7

(* The cosign endpoint. *)
LEMMA DeliverTyped ==
  ASSUME TypeOK, Posted, NEW c \in Call, Deliver(c)
  PROVE  TypeOK'
<1>1. PICK m \in msgs: m.call = c /\ (Close(m) \/ RejectCosign(m))
  BY DEF Deliver
<1>0. Ack(m) \in Message
  BY <1>1 DEF Ack, Message
<1>2. CASE RejectCosign(m)
  BY <1>0, <1>2 DEF TypeOK, RejectCosign, agentVars
<1>3. CASE Close(m)
  <2> DEFINE b == call[m.call].to
  <2>1. PICK r \in log[b]:
          log' = [log EXCEPT ![b] = (@ \ {r}) \cup
            {[event |-> r.event, sigs |-> Countersigned(r, m.sig), pending |-> FALSE]}]
    BY <1>3 DEF Close
  <2>2. b \in Agent
    BY <1>1, CallTyped DEF Posted
  <2>3. m.sig \in Sig
    BY <1>3 DEF Close, TypeOK, Message
  <2>4. r \in Row
    BY <2>2 DEF TypeOK
  <2>5. [event |-> r.event, sigs |-> Countersigned(r, m.sig), pending |-> FALSE] \in Row
    BY <2>3, <2>4 DEF Row, Countersigned
  <2>6. log' \in [Agent -> SUBSET Row]
    BY <2>1, <2>2, <2>5 DEF TypeOK
  <2>7. QED
    BY <1>0, <1>3, <2>6 DEF TypeOK, Close, agentVars
<1>4. QED
  BY <1>1, <1>2, <1>3

(* Every step keeps the state typed and the keys counted. *)
LEMMA NextTyped ==
  ASSUME TypeOK, KeysCounted, Posted, [Next]_vars
  PROVE  TypeOK' /\ KeysCounted'
<1>1. ASSUME NEW c \in Call, Timeout(c)
      PROVE  TypeOK'
  BY <1>1 DEF TypeOK, Timeout, ClientState, agentVars
<1>2. ASSUME NEW m \in msgs, Lose(m)
      PROVE  TypeOK'
  BY <1>2 DEF TypeOK, Lose, agentVars
<1>3. CASE UNCHANGED vars
  BY <1>3 DEF vars, agentVars, callVars, TypeOK, KeysCounted
<1>4. CASE \E a \in Agent: Setup(a)
  BY <1>4, SetupTyped
<1>5. CASE Delegate
  <2>1. UNCHANGED <<key, restarts>>
    BY <1>5 DEF Delegate, Issue, Post, agentVars
  <2>2. QED
    BY <1>5, <2>1, DelegateTyped DEF KeysCounted
<1>6. ASSUME NEW c \in Call,
             Serve(c) \/ Complete(c) \/ Receive(c) \/ Deliver(c) \/ Timeout(c)
      PROVE  TypeOK' /\ KeysCounted'
  <2>1. UNCHANGED <<key, restarts>>
    BY <1>6 DEF Serve, Refuse, RefuseReplay, Accept, JournalFails, Complete, Finish,
      FinishUnlogged, Receive, ReceiveError, UnknownPeer, Dispute, Mismatch, Agree,
      RecordFails, ReceiveAck, Deliver, Close, RejectCosign, Timeout, agentVars
  <2>2. QED
    BY <1>1, <1>6, <2>1, ServeTyped, CompleteTyped, ReceiveTyped, DeliverTyped
    DEF KeysCounted
<1>7. CASE \E m \in msgs: Lose(m)
  BY <1>2, <1>7 DEF Lose, agentVars, KeysCounted
<1>8. QED
  BY <1>3, <1>4, <1>5, <1>6, <1>7 DEF Next
--------------------------------------------------------------------------------
(* Issued tokens, posted calls and recorded events are there for good. *)
Grows ==
  /\ DOMAIN token \subseteq DOMAIN token'
  /\ \A j \in DOMAIN token: token'[j] = token[j]
  /\ DOMAIN call \subseteq DOMAIN call'
  /\ \A c \in DOMAIN call: call'[c] = call[c]
  /\ \A a \in Agent: \A r \in log[a]: \E s \in log'[a]: s.event = r.event

(* Journaling removes no row. *)
LEMMA JournalKeeps ==
  ASSUME TypeOK, NEW b \in Agent, NEW row, Journal(b, row)
  PROVE  \A a \in Agent: log[a] \subseteq log'[a]
BY DEF TypeOK, Journal

(* Nor does a countersignature remove an event. *)
LEMMA CloseKeeps ==
  ASSUME TypeOK, Posted, NEW m \in msgs, Close(m)
  PROVE  \A a \in Agent: \A r \in log[a]: \E s \in log'[a]: s.event = r.event
<1> DEFINE b == call[m.call].to
           closed(r) == [event |-> r.event, sigs |-> Countersigned(r, m.sig), pending |-> FALSE]
<1>1. b \in Agent
  BY CallTyped DEF Posted
<1>2. PICK q \in log[b]: log' = [log EXCEPT ![b] = (@ \ {q}) \cup {closed(q)}]
  BY DEF Close
<1>3. closed(q).event = q.event
  OBVIOUS
<1> HIDE DEF closed
<1>4. log'[b] = (log[b] \ {q}) \cup {closed(q)} /\ \A a \in Agent \ {b}: log'[a] = log[a]
  BY <1>1, <1>2 DEF TypeOK
<1>5. QED
  BY <1>3, <1>4

(* Every step only adds. *)
LEMMA NextGrows ==
  ASSUME TypeOK, Posted, [Next]_vars
  PROVE  Grows
<1>1. CASE Delegate
  <2>1. ASSUME NEW a \in Agent, NEW b \in Agent, NEW j \in Jti, NEW scope \in ScopeSet,
               NEW ttl \in 1..MaxTTL, Issue(a, b, j, scope, ttl)
        PROVE  Grows
    <3>1. \A x \in Agent: log[x] \subseteq log'[x]
      BY <2>1, JournalKeeps DEF Issue
    <3>2. j \notin DOMAIN token /\ \E t: token' = Put(token, j, t)
      BY <2>1 DEF Issue
    <3>3. QED
      BY <2>1, <3>1, <3>2, PutKeeps DEF Issue, callVars, Grows
  <2>2. ASSUME NEW c \in Call, NEW j \in Jti, NEW to \in Agent, NEW req \in Request,
               Post(c, j, to, req)
        PROVE  Grows
    <3>1. c \notin DOMAIN call /\ \E r: call' = Put(call, c, r)
      BY <2>2 DEF Post
    <3>2. QED
      BY <2>2, <3>1, PutKeeps DEF Post, Grows
  <2>3. QED
    BY <1>1, <2>1, <2>2 DEF Delegate
<1>2. ASSUME UNCHANGED <<token, call>>,
             \A a \in Agent: \A r \in log[a]: \E s \in log'[a]: s.event = r.event
      PROVE  Grows
  BY <1>2 DEF Grows
<1>3. CASE \E a \in Agent: Setup(a)
  BY <1>2, <1>3 DEF Setup, Tick, Publish, RegisterPeer, Restart, callVars
<1>4. ASSUME NEW c \in Call, Serve(c)
      PROVE  Grows
  <2>1. c \in DOMAIN call
    BY <1>4 DEF Serve, Refuse, RefuseReplay, Accept, JournalFails, Received, Posted
  <2>2. call[c].to \in Agent
    BY <2>1, CallTyped
  <2>3. UNCHANGED <<token, call>>
    BY <1>4 DEF Serve, Refuse, RefuseReplay, Accept, JournalFails
  <2>4. UNCHANGED log \/ \E row: Journal(call[c].to, row)
    BY <1>4 DEF Serve, Refuse, RefuseReplay, Accept, JournalFails
  <2>5. QED
    BY <1>2, <2>2, <2>3, <2>4, JournalKeeps
<1>5. ASSUME NEW c \in Call, Complete(c)
      PROVE  Grows
  <2>1. c \in DOMAIN call
    BY <1>5 DEF Complete, Finish, FinishUnlogged, Posted, Ran
  <2>2. call[c].to \in Agent
    BY <2>1, CallTyped
  <2>3. UNCHANGED <<token, call>>
    BY <1>5 DEF Complete, Finish, FinishUnlogged
  <2>4. UNCHANGED log \/ \E row: Journal(call[c].to, row)
    BY <1>5 DEF Complete, Finish, AppendPending, FinishUnlogged
  <2>5. QED
    BY <1>2, <2>2, <2>3, <2>4, JournalKeeps
<1>6. ASSUME NEW c \in Call, Receive(c)
      PROVE  Grows
  <2>1. c \in DOMAIN call
    BY <1>6 DEF Receive, ReceiveError, UnknownPeer, Dispute, Mismatch, Agree,
      RecordFails, ReceiveAck, Answered, Posted
  <2>2. Caller(c) \in Agent
    BY <2>1, CallTyped
  <2>3. UNCHANGED <<token, call>>
    BY <1>6 DEF Receive, ReceiveError, UnknownPeer, Dispute, Mismatch, Agree, RecordFails,
      ReceiveAck
  <2>4. UNCHANGED log \/ \E row: Journal(Caller(c), row)
    BY <1>6 DEF Receive, ReceiveError, UnknownPeer, Dispute, Mismatch, Agree, RecordFails,
      ReceiveAck
  <2>5. QED
    BY <1>2, <2>2, <2>3, <2>4, JournalKeeps
<1>7. ASSUME NEW c \in Call, Deliver(c)
      PROVE  Grows
  BY <1>2, <1>7, CloseKeeps DEF Deliver, Close, RejectCosign
<1>8. CASE \/ \E c \in Call: Timeout(c)
           \/ \E m \in msgs: Lose(m)
           \/ UNCHANGED vars
  BY <1>2, <1>8 DEF Timeout, Lose, vars, callVars
<1>9. QED
  BY <1>1, <1>3, <1>4, <1>5, <1>6, <1>7, <1>8 DEF Next

(* An execution begins with Accept only. *)
LEMMA RanByAccept ==
  ASSUME TypeOK, [Next]_vars, NEW c \in Call, Ran(c)', ~Ran(c)
  PROVE  Accept(c)
<1>1. CASE \E a \in Agent: Setup(a)
  BY <1>1 DEF Setup, Tick, Publish, RegisterPeer, Restart, callVars, Ran, TypeOK
<1>2. CASE Delegate \/ UNCHANGED vars \/ \E m \in msgs: Lose(m)
  BY <1>2 DEF Delegate, Issue, Post, Lose, vars, callVars, Ran
<1>3. ASSUME NEW d \in Call, Serve(d)
      PROVE  Accept(c)
  <2>1. CASE Accept(d)
    BY <2>1 DEF Accept, Ran, TypeOK
  <2>2. CASE Refuse(d) \/ RefuseReplay(d) \/ JournalFails(d)
    BY <2>2 DEF Refuse, RefuseReplay, JournalFails, Ran, TypeOK
  <2>3. QED
    BY <1>3, <2>1, <2>2 DEF Serve
<1>4. ASSUME NEW d \in Call, Complete(d)
      PROVE  Accept(c)
  BY <1>4 DEF Complete, Finish, FinishUnlogged, Ran, TypeOK
<1>5. ASSUME NEW d \in Call, Receive(d) \/ Deliver(d) \/ Timeout(d)
      PROVE  Accept(c)
  BY <1>5 DEF Receive, ReceiveError, UnknownPeer, Dispute, Mismatch, Agree, RecordFails,
    ReceiveAck, Deliver, Close, RejectCosign, Timeout, Ran
<1>6. QED
  BY <1>1, <1>2, <1>3, <1>4, <1>5 DEF Next

(* A request is in progress only for a call that was posted. *)
LEMMA NextPosted ==
  ASSUME TypeOK, Posted, [Next]_vars
  PROVE  Posted'
<1>1. Grows
  BY NextGrows
<1>2. \A c \in Call: Ran(c)' => c \in DOMAIN call'
  <2>1. \A c \in Call: Accept(c) => c \in DOMAIN call
    BY DEF Accept, Received, Posted
  <2>2. QED
    BY <1>1, <2>1, RanByAccept DEF Posted, Grows
<1>3. ASSUME \A c \in DOMAIN call': c \in DOMAIN call \/ call'[c].jti \in DOMAIN token,
             \A m \in msgs': m \in msgs \/ m.call \in DOMAIN call',
             \A c \in Call: client'[c] = "waiting" => client[c] = "waiting" \/ c \in DOMAIN call'
      PROVE  Posted'
  BY <1>1, <1>2, <1>3 DEF Posted, Grows
<1>4. CASE \E a \in Agent: Setup(a)
  BY <1>3, <1>4 DEF Setup, Tick, Publish, RegisterPeer, Restart, callVars
<1>5. CASE Delegate
  <2>1. ASSUME NEW a \in Agent, NEW b \in Agent, NEW j \in Jti, NEW scope \in ScopeSet,
               NEW ttl \in 1..MaxTTL, Issue(a, b, j, scope, ttl)
        PROVE  Posted'
    BY <1>3, <2>1 DEF Issue, callVars
  <2>2. ASSUME NEW c \in Call, NEW j \in Jti, NEW to \in Agent, NEW req \in Request,
               Post(c, j, to, req)
        PROVE  Posted'
    <3> DEFINE r == [jti |-> j, to |-> to, req |-> req]
    <3>1. r.jti = j
      OBVIOUS
    <3> HIDE DEF r
    <3>2. c \notin DOMAIN call /\ call' = Put(call, c, r) /\ j \in DOMAIN token
      BY <2>2 DEF Post, r
    <3>3. DOMAIN call' = DOMAIN call \cup {c} /\ call'[c].jti = j
      BY <3>1, <3>2 DEF Put
    <3>4. \A m \in msgs': m \in msgs \/ m.call = c
      BY <2>2 DEF Post
    <3>5. \A d \in Call: d # c => client'[d] = client[d]
      BY <2>2 DEF Post, TypeOK
    <3>6. QED
      BY <1>3, <3>2, <3>3, <3>4, <3>5
  <2>3. QED
    BY <1>5, <2>1, <2>2 DEF Delegate
<1>6. ASSUME NEW c \in Call, c \in DOMAIN call, UNCHANGED call,
             \A m \in msgs': m \in msgs \/ m.call = c,
             \A d \in Call: client'[d] = "waiting" => client[d] = "waiting"
      PROVE  Posted'
  BY <1>3, <1>6
<1>7. ASSUME NEW c \in Call, Serve(c)
      PROVE  Posted'
  <2>1. c \in DOMAIN call
    BY <1>7 DEF Serve, Refuse, RefuseReplay, Accept, JournalFails, Received, Posted
  <2>2. QED
    BY <1>6, <1>7, <2>1 DEF Serve, Refuse, RefuseReplay, Accept, JournalFails, Refused,
      ErrorReply
<1>8. ASSUME NEW c \in Call, Complete(c)
      PROVE  Posted'
  <2>1. c \in DOMAIN call
    BY <1>8 DEF Complete, Finish, FinishUnlogged, Posted, Ran
  <2>2. UNCHANGED <<call, client>> /\ \A m \in msgs': m \in msgs \/ m.call = c
    <3>1. CASE FinishUnlogged(c)
      BY <3>1 DEF FinishUnlogged, ErrorReply
    <3>2. ASSUME NEW type \in Completion, Finish(c, type)
          PROVE  UNCHANGED <<call, client>> /\ \A m \in msgs': m \in msgs \/ m.call = c
      <4> DEFINE n == [type |-> "outcome", call |-> c, event |-> CompletionOf(c, type),
                       sig |-> Mine(call[c].to)]
      <4>1. n.call = c /\ msgs' = msgs \cup {n} /\ UNCHANGED <<call, client>>
        BY <3>2 DEF Finish
      <4> HIDE DEF n
      <4>2. QED
        BY <4>1
    <3>3. QED
      BY <1>8, <3>1, <3>2 DEF Complete
  <2>3. QED
    BY <1>6, <2>1, <2>2
<1>9. ASSUME NEW c \in Call, Receive(c)
      PROVE  Posted'
  <2>1. c \in DOMAIN call
    BY <1>9 DEF Receive, ReceiveError, UnknownPeer, Dispute, Mismatch, Agree,
      RecordFails, ReceiveAck, Answered, Posted
  <2>2. /\ UNCHANGED call
        /\ \A m \in msgs': m \in msgs \/ m.call = c
    BY <1>9 DEF Receive, ReceiveError, UnknownPeer, Dispute, Mismatch, Agree, RecordFails,
      ReceiveAck, Pushed
  <2>3. \A d \in Call: client'[d] = "waiting" => client[d] = "waiting"
    BY <1>9 DEF Receive, ReceiveError, UnknownPeer, Dispute, Mismatch, Agree, RecordFails,
      ReceiveAck, AfterRecord, TypeOK
  <2>4. QED
    BY <1>6, <2>1, <2>2, <2>3
<1>10. CASE \/ \E c \in Call: Deliver(c) \/ Timeout(c)
            \/ \E m \in msgs: Lose(m)
            \/ UNCHANGED vars
  BY <1>3, <1>10 DEF Deliver, Close, RejectCosign, Ack, Timeout, Lose, vars, callVars,
    TypeOK, Posted
<1>11. QED
  BY <1>4, <1>5, <1>7, <1>8, <1>9, <1>10 DEF Next

(* The journal entry of an execution is never lost, so neither is the evidence
   the replay check looks for. *)
LEMMA NextRanStarted ==
  ASSUME IInv, [Next]_vars
  PROVE  RanStarted'
<1>1. Grows
  BY NextGrows DEF IInv
<1>2. SUFFICES ASSUME NEW c \in Call, Ran(c)'
               PROVE  /\ call'[c].to = token'[call'[c].jti].sub
                      /\ StartedAt(call[c].to, call[c].jti)'
  BY DEF RanStarted, TokenOf
<1>3. c \in DOMAIN call
  <2>1. Accept(c) => c \in DOMAIN call
    BY DEF Accept, Received, Posted, IInv
  <2>2. QED
    BY <1>2, <2>1, RanByAccept DEF IInv, Posted
<1>4. /\ call'[c] = call[c] /\ token'[call[c].jti] = TokenOf(c)
      /\ call[c].to \in Agent
  BY <1>1, <1>3, CallTyped DEF Grows, IInv, Posted, TokenOf
<1>5. CASE Ran(c)
  <2>1. call[c].to = TokenOf(c).sub
    BY <1>5 DEF IInv, RanStarted
  <2>2. PICK r \in log[call[c].to]: /\ r.event.jti = call[c].jti
                                    /\ r.event.type = "delegation.started"
    BY <1>5 DEF IInv, RanStarted, StartedAt
  <2>3. PICK s \in log'[call[c].to]: s.event = r.event
    BY <1>1, <1>4 DEF Grows
  <2>4. QED
    BY <1>4, <2>1, <2>2, <2>3 DEF StartedAt
<1>6. CASE ~Ran(c)
  <2>1. Accept(c)
    BY <1>2, <1>6, RanByAccept DEF IInv
  <2>2. TokenOf(c).sub = call[c].to
    BY <2>1 DEF Accept, Acceptable, ClaimsValid, ForMe
  <2> DEFINE e == [type |-> "delegation.started", src |-> c, jti |-> call[c].jti,
                   delegator |-> TokenOf(c).iss, delegatee |-> call[c].to,
                   scope |-> TokenOf(c).scope]
             row == SelfRow(call[c].to, e)
  <2>3. row.event.jti = call[c].jti /\ row.event.type = "delegation.started"
    BY DEF SelfRow
  <2>4. Journal(call[c].to, row)
    BY <2>1 DEF Accept
  <2> HIDE DEF row
  <2>5. row \in log'[call[c].to]
    BY <1>4, <2>4 DEF Journal, IInv, TypeOK
  <2>6. QED
    BY <1>4, <2>2, <2>3, <2>5 DEF StartedAt
<1>7. QED
  BY <1>5, <1>6

(* A second execution would have found the first one's journal entry. *)
LEMMA NextAtMostOnce ==
  ASSUME IInv, [Next]_vars
  PROVE  AtMostOnce'
<1>1. Grows
  BY NextGrows DEF IInv
<1>2. \A c \in Call: Accept(c) => c \in DOMAIN call
  BY DEF Accept, Received, Posted, IInv
<1>3. \A c \in Call: Ran(c)' => c \in DOMAIN call /\ call'[c] = call[c]
  BY <1>1, <1>2, RanByAccept DEF IInv, Posted, Grows
<1>4. ASSUME NEW c \in Call, NEW d \in Call, Ran(c), Accept(d)
      PROVE  call[c].jti # call[d].jti
  <2>1. call[c].to = TokenOf(c).sub /\ StartedAt(call[c].to, call[c].jti)
    BY <1>4 DEF IInv, RanStarted
  <2>2. call[d].to = TokenOf(d).sub /\ ~Replayed(call[d].to, call[d].jti)
    BY <1>4 DEF Accept, Acceptable, ClaimsValid, ForMe
  <2>3. QED
    BY <2>1, <2>2 DEF TokenOf, StartedAt, Replayed
<1>5. ASSUME NEW c \in Call, NEW d \in Call, Accept(c), Accept(d)
      PROVE  c = d
  BY <1>5 DEF Accept, IInv, TypeOK, Received
<1>6. SUFFICES ASSUME NEW c \in Call, NEW d \in Call, Ran(c)', Ran(d)', c # d
               PROVE  call[c].jti # call[d].jti
  BY <1>3 DEF AtMostOnce
<1>7. CASE Ran(c) /\ Ran(d)
  BY <1>6, <1>7 DEF IInv, AtMostOnce
<1>8. CASE ~Ran(c) \/ ~Ran(d)
  BY <1>4, <1>5, <1>6, <1>8, RanByAccept DEF IInv
<1>9. QED
  BY <1>7, <1>8

(* Every step keeps the invariant. *)
LEMMA NextIInv == IInv /\ [Next]_vars => IInv'
BY NextTyped, NextPosted, NextRanStarted, NextAtMostOnce DEF IInv

(* The invariant holds in every reachable state. *)
THEOREM Invariant == Spec => []IInv
BY InitIInv, NextIInv, PTL DEF Spec

(* Every state of the flow is of the declared type. *)
THEOREM TypeCorrect == Spec => []TypeOK
<1>1. IInv => TypeOK
  BY DEF IInv
<1>2. QED
  BY <1>1, Invariant, PTL

(* For any number of agents, tokens, repeated and concurrent invocations, lost
   messages, failed writes and restarts, a token is executed at most once. *)
THEOREM ExecutedOnce == Spec => []AtMostOnce
<1>1. IInv => AtMostOnce
  BY DEF IInv
<1>2. QED
  BY <1>1, Invariant, PTL

(* For any hierarchy of capabilities, an accepted action is within the manifest
   the delegatee has on record for the delegator. *)
THEOREM WithinManifest == Spec => AcceptedWithinManifest
<1>1. IInv /\ [Next]_vars =>
        [\A c \in Call: ~Ran(c) /\ Ran(c)' =>
           HasCapability(peers[call[c].to][Caller(c)].caps, Required(c))]_vars
  <2> SUFFICES ASSUME IInv, [Next]_vars, NEW c \in Call, ~Ran(c), Ran(c)'
               PROVE  HasCapability(peers[call[c].to][Caller(c)].caps, Required(c))
    OBVIOUS
  <2>1. Accept(c)
    BY RanByAccept DEF IInv
  <2>2. c \in DOMAIN call
    BY <2>1 DEF Accept, Received, Posted, IInv
  <2> DEFINE caps == peers[call[c].to][Caller(c)].caps
             scope == TokenOf(c).scope
  <2>3. ScopeDeclared(caps, scope) /\ ScopeCovers(scope, Required(c))
    BY <2>1 DEF Accept, Acceptable, ClaimsValid, ScopeInManifest, Caller
  <2>4. caps \in SUBSET Seq(Segment) /\ scope \in SUBSET Seq(Segment)
    <3>1. /\ call[c].to \in Agent /\ Caller(c) \in Agent /\ scope \in ScopeSet
      BY <2>2, CallTyped DEF IInv
    <3>2. peers[call[c].to][Caller(c)] \in Record
      BY <3>1 DEF IInv, TypeOK
    <3>3. caps \in CapSet \cup {{}}
      BY <3>2 DEF Record
    <3>4. QED
      BY <3>1, <3>3, NamesAssumption
  <2>5. Required(c) \in Seq(Segment)
    BY <2>1, NamesAssumption DEF Accept, Acceptable, Required
  <2>6. QED
    BY <2>3, <2>4, <2>5, NoEscalation
<1>2. QED
  BY <1>1, Invariant, PTL DEF Spec, AcceptedWithinManifest
--------------------------------------------------------------------------------
(* Every token is on record with its issuer, as it was issued, and short-lived. *)
Issued(j) ==
  \E r \in log[token[j].iss]:
    /\ r.event.type = "delegation.issued" /\ r.event.jti = j
    /\ r.event.delegatee = token[j].sub /\ r.event.scope = token[j].scope

IssuedTerms ==
  \A j \in DOMAIN token: Issued(j) /\ token[j].exp <= token[j].nbf + MaxTTL

(* What runs has been asked for within the token's scope. *)
RanWithinScope == \A c \in Call: Ran(c) => ScopeCovers(TokenOf(c).scope, Required(c))

(* A new token comes with its entry; an old one's entry stays. *)
LEMMA NextIssuedTerms ==
  ASSUME IInv, IssuedTerms, [Next]_vars
  PROVE  IssuedTerms'
<1>1. Grows
  BY NextGrows DEF IInv
<1>2. ASSUME NEW j \in DOMAIN token
      PROVE  Issued(j)' /\ token'[j].exp <= token'[j].nbf + MaxTTL
  <2>1. token'[j] = token[j] /\ token[j].iss \in Agent
    BY <1>1 DEF Grows, IInv, TypeOK, Token
  <2>2. PICK r \in log[token[j].iss]:
          /\ r.event.type = "delegation.issued" /\ r.event.jti = j
          /\ r.event.delegatee = token[j].sub /\ r.event.scope = token[j].scope
    BY DEF IssuedTerms, Issued
  <2>3. PICK s \in log'[token[j].iss]: s.event = r.event
    BY <1>1, <2>1 DEF Grows
  <2>4. QED
    BY <2>1, <2>2, <2>3 DEF IssuedTerms, Issued
<1>3. ASSUME NEW a \in Agent, NEW b \in Agent, NEW j \in Jti, NEW scope \in ScopeSet,
             NEW ttl \in 1..MaxTTL, Issue(a, b, j, scope, ttl)
      PROVE  /\ Issued(j)' /\ token'[j].exp <= token'[j].nbf + MaxTTL
             /\ DOMAIN token' = DOMAIN token \cup {j}
  <2> DEFINE t == [iss |-> a, sub |-> b, scope |-> scope, nbf |-> clock[a],
                   exp |-> Expiry(a, ttl), key |-> key[a]]
             e == [type |-> "delegation.issued", src |-> j, jti |-> j,
                   delegator |-> a, delegatee |-> b, scope |-> scope]
             row == SelfRow(a, e)
  <2>1. token' = Put(token, j, t) /\ Journal(a, row)
    BY <1>3 DEF Issue
  <2>2. /\ t.iss = a /\ t.sub = b /\ t.scope = scope
        /\ t.nbf = clock[a] /\ t.exp = clock[a] + ttl /\ clock[a] \in Nat
    BY BoundsAssumption DEF Expiry, IInv, TypeOK
  <2>3. /\ row.event.type = "delegation.issued" /\ row.event.jti = j
        /\ row.event.delegatee = b /\ row.event.scope = scope
    BY DEF SelfRow
  <2> HIDE DEF t, row
  <2>4. token'[j] = t /\ DOMAIN token' = DOMAIN token \cup {j}
    BY <2>1 DEF Put
  <2>5. row \in log'[a]
    BY <2>1 DEF Journal, IInv, TypeOK
  <2>6. Issued(j)'
    BY <2>2, <2>3, <2>4, <2>5 DEF Issued
  <2>7. t.exp <= t.nbf + MaxTTL
    BY <2>2, BoundsAssumption
  <2>8. QED
    BY <2>4, <2>6, <2>7
<1>4. CASE token' = token
  BY <1>2, <1>4 DEF IssuedTerms
<1>5. CASE \E a, b \in Agent, j \in Jti, scope \in ScopeSet, ttl \in 1..MaxTTL:
             Issue(a, b, j, scope, ttl)
  BY <1>2, <1>3, <1>5 DEF IssuedTerms
<1>6. token' = token \/ \E a, b \in Agent, j \in Jti, scope \in ScopeSet, ttl \in 1..MaxTTL:
                          Issue(a, b, j, scope, ttl)
  <2>1. CASE \/ Delegate
             \/ UNCHANGED vars
             \/ \E m \in msgs: Lose(m)
             \/ \E a \in Agent: Setup(a)
    BY <2>1 DEF Delegate, Post, vars, Lose, Setup, Tick, Publish, RegisterPeer, Restart
  <2>2. ASSUME NEW c \in Call, Serve(c) \/ Complete(c) PROVE token' = token
    BY <2>2 DEF Serve, Refuse, RefuseReplay, Accept, JournalFails, Complete, Finish,
      FinishUnlogged
  <2>3. ASSUME NEW c \in Call, Receive(c) \/ Deliver(c) \/ Timeout(c) PROVE token' = token
    BY <2>3 DEF Receive, ReceiveError, UnknownPeer, Dispute, Mismatch, Agree, RecordFails,
      ReceiveAck, Deliver, Close, RejectCosign, Timeout
  <2>4. QED
    BY <2>1, <2>2, <2>3 DEF Next
<1>7. QED
  BY <1>4, <1>5, <1>6

(* The scope is checked when the execution begins; call and token stay. *)
LEMMA NextRanWithinScope ==
  ASSUME IInv, RanWithinScope, [Next]_vars
  PROVE  RanWithinScope'
<1>1. SUFFICES ASSUME NEW c \in Call, Ran(c)'
               PROVE  ScopeCovers(TokenOf(c).scope, Required(c))'
  BY DEF RanWithinScope
<1>2. Ran(c) \/ Accept(c)
  BY <1>1, RanByAccept DEF IInv
<1>3. c \in DOMAIN call /\ ScopeCovers(TokenOf(c).scope, Required(c))
  BY <1>2 DEF RanWithinScope, Accept, Acceptable, ClaimsValid, Received, IInv, Posted
<1>4. TokenOf(c)' = TokenOf(c) /\ Required(c)' = Required(c)
  BY <1>3, NextGrows DEF Grows, IInv, Posted, TokenOf, Required
<1>5. QED
  BY <1>3, <1>4 DEF ScopeCovers

(* Both hold with the invariant in every reachable state. *)
LEMMA Terms == Spec => [](IInv /\ IssuedTerms /\ RanWithinScope)
<1>1. Init => IssuedTerms /\ RanWithinScope
  BY DEF Init, IssuedTerms, RanWithinScope, Ran
<1>2. IInv /\ IssuedTerms /\ RanWithinScope /\ [Next]_vars =>
        (IInv /\ IssuedTerms /\ RanWithinScope)'
  BY NextIInv, NextIssuedTerms, NextRanWithinScope
<1>3. QED
  BY <1>1, <1>2, InitIInv, PTL DEF Spec

(* Whatever an agent executes, the delegator's own log has it on record as delegated
   to this agent, with a scope that covers it. *)
THEOREM Authorised == Spec => []ExecutionAuthorised
<1>1. IInv /\ IssuedTerms /\ RanWithinScope => ExecutionAuthorised
  <2> SUFFICES ASSUME IInv, IssuedTerms, RanWithinScope, NEW c \in Call, Ran(c)
               PROVE  \E r \in Rows(Caller(c), call[c].jti, {"delegation.issued"}):
                        /\ r.event.delegatee = call[c].to
                        /\ ScopeCovers(r.event.scope, Required(c))
    BY DEF ExecutionAuthorised
  <2>1. call[c].jti \in DOMAIN token /\ call[c].to = TokenOf(c).sub
    BY DEF IInv, Posted, RanStarted
  <2>2. PICK r \in log[Caller(c)]:
          /\ r.event.type = "delegation.issued" /\ r.event.jti = call[c].jti
          /\ r.event.delegatee = TokenOf(c).sub /\ r.event.scope = TokenOf(c).scope
    BY <2>1 DEF IssuedTerms, Issued, Caller, TokenOf
  <2>3. QED
    BY <2>1, <2>2 DEF Rows, RanWithinScope
<1>2. QED
  BY <1>1, Terms, PTL

(* However the clocks drift and the request is delayed, an execution starts at nbf or
   later, and less than MaxTTL seconds after it. *)
THEOREM Lifetime == Spec => LifetimeBounded
<1>1. IInv /\ IssuedTerms /\ [Next]_vars =>
        [\A c \in Call: ~Ran(c) /\ Ran(c)' =>
           LET age == clock[call[c].to] - TokenOf(c).nbf IN age >= 0 /\ age < MaxTTL]_vars
  <2> SUFFICES ASSUME IInv, IssuedTerms, [Next]_vars, NEW c \in Call, ~Ran(c), Ran(c)'
               PROVE  /\ clock[call[c].to] - TokenOf(c).nbf >= 0
                      /\ clock[call[c].to] - TokenOf(c).nbf < MaxTTL
    OBVIOUS
  <2>1. Accept(c)
    BY RanByAccept DEF IInv
  <2>2. c \in DOMAIN call /\ call[c].jti \in DOMAIN token
    BY <2>1 DEF Accept, Received, Posted, IInv
  <2>3. clock[call[c].to] < TokenOf(c).exp /\ clock[call[c].to] >= TokenOf(c).nbf
    BY <2>1 DEF Accept, Acceptable, ClaimsValid, WithinLifetime
  <2>4. TokenOf(c).exp <= TokenOf(c).nbf + MaxTTL
    BY <2>2 DEF IssuedTerms, TokenOf
  <2>5. clock[call[c].to] \in Int /\ TokenOf(c).exp \in Int /\ TokenOf(c).nbf \in Int
    <3>1. call[c].to \in Agent /\ TokenOf(c) \in Token
      BY <2>2, CallTyped DEF IInv
    <3>2. QED
      BY <3>1, BoundsAssumption DEF IInv, TypeOK, Token
  <2>6. QED
    BY <2>3, <2>4, <2>5, BoundsAssumption
<1>2. QED
  BY <1>1, Terms, PTL DEF Spec, LifetimeBounded

--------------------------------------------------------------------------------
(* The event is in the delegatee's log, and agreed on in the delegator's. *)
Both(e) ==
  /\ \E s \in log[e.delegatee]: s.event = e
  /\ \E s \in log[e.delegator]: s.event = e /\ ~s.pending

(* The event of a completion is determined by its call.  A pending one is the
   delegatee's, signed by it; another one is both parties'. *)
EntryFits(a, r) ==
  r.event.type \in Completion =>
    /\ r.event.src \in DOMAIN call
    /\ r.event = CompletionOf(r.event.src, r.event.type)
    /\ IF r.pending
       THEN a = r.event.delegatee /\ {s.by: s \in r.sigs} = {a}
       ELSE Both(r.event) /\ {s.by: s \in r.sigs} = {r.event.delegator, r.event.delegatee}

(* What a message holds is on record with its sender. *)
MessageFits(m) ==
  m.type \in {"outcome", "cosign"} =>
    /\ m.event.type \in Completion
    /\ m.event = CompletionOf(m.call, m.event.type)
    /\ call[m.call].to = m.event.delegatee
    /\ \E s \in log[m.event.delegatee]: s.event = m.event
    /\ m.type = "cosign" =>
         /\ m.sig.by = m.event.delegator
         /\ \E s \in log[m.event.delegator]: s.event = m.event /\ ~s.pending

Entries == \A a \in Agent: \A r \in log[a]: EntryFits(a, r)
Messages == \A m \in msgs: MessageFits(m)

XInv == IInv /\ Entries /\ Messages
--------------------------------------------------------------------------------
(* What is closed stays closed. *)
ClosedKept ==
  \A a \in Agent: \A r \in log[a]:
    ~r.pending => \E s \in log'[a]: s.event = r.event /\ ~s.pending

(* What a completion is made of. *)
LEMMA CompletionFields ==
  ASSUME NEW c, NEW type
  PROVE  /\ CompletionOf(c, type).type = type
         /\ CompletionOf(c, type).src = c
         /\ CompletionOf(c, type).delegator = Caller(c)
         /\ CompletionOf(c, type).delegatee = TokenOf(c).sub
BY DEF CompletionOf

(* The event of a call that was made stays what it is. *)
LEMMA CompletionKept ==
  ASSUME IInv, Grows, NEW c \in DOMAIN call, NEW type
  PROVE  /\ c \in DOMAIN call' /\ call'[c] = call[c]
         /\ CompletionOf(c, type)' = CompletionOf(c, type)
         /\ Caller(c) \in Agent /\ TokenOf(c).sub \in Agent
<1>1. call'[c] = call[c] /\ TokenOf(c)' = TokenOf(c) /\ c \in DOMAIN call'
  BY DEF Grows, IInv, Posted, TokenOf
<1>2. Caller(c) \in Agent /\ TokenOf(c).sub \in Agent
  BY CallTyped DEF IInv
<1>3. QED
  BY <1>1, <1>2 DEF CompletionOf, Caller

(* An entry that fits still fits when the logs have grown. *)
LEMMA EntryKept ==
  ASSUME IInv, Grows, ClosedKept, NEW a \in Agent, NEW r \in log[a], EntryFits(a, r)
  PROVE  EntryFits(a, r)'
<1>1. SUFFICES ASSUME r.event.type \in Completion PROVE EntryFits(a, r)'
  BY DEF EntryFits
<1> DEFINE e == r.event
<1>2. /\ e.src \in DOMAIN call' /\ e = CompletionOf(e.src, e.type)'
      /\ e.delegator \in Agent /\ e.delegatee \in Agent
  BY <1>1, CompletionKept, CompletionFields DEF EntryFits
<1>3. Both(e) => Both(e)'
  BY <1>2 DEF Both, Grows, ClosedKept
<1>4. QED
  BY <1>1, <1>2, <1>3 DEF EntryFits

(* So does a message. *)
LEMMA MessageKept ==
  ASSUME IInv, Grows, ClosedKept, NEW m \in msgs, MessageFits(m)
  PROVE  MessageFits(m)'
<1>1. SUFFICES ASSUME m.type \in {"outcome", "cosign"} PROVE MessageFits(m)'
  BY DEF MessageFits
<1>2. m.call \in DOMAIN call
  BY DEF IInv, Posted
<1> DEFINE e == m.event
<1>3. /\ e = CompletionOf(m.call, e.type)' /\ call'[m.call] = call[m.call]
      /\ e.delegator \in Agent /\ e.delegatee \in Agent
  BY <1>1, <1>2, CompletionKept, CompletionFields DEF MessageFits
<1>4. QED
  BY <1>1, <1>3 DEF MessageFits, Grows, ClosedKept

(* Writing one row closes nothing that was open and opens nothing that was closed. *)
LEMMA JournalClosedKept ==
  ASSUME IInv, UNCHANGED log \/ \E b \in Agent: \E row: Journal(b, row)
  PROVE  ClosedKept
BY JournalKeeps DEF IInv, ClosedKept

(* A step that writes one entry that fits, and sends only messages that fit. *)
LEMMA WriteStep ==
  ASSUME IInv, Entries, Messages, Grows, NEW b \in Agent, NEW row, Journal(b, row),
         EntryFits(b, row)',
         \A m \in msgs': m \in msgs \/ MessageFits(m)'
  PROVE  Entries' /\ Messages'
<1>1. ClosedKept
  BY JournalClosedKept
<1>2. \A a \in Agent: \A r \in log'[a]: r \in log[a] \/ (a = b /\ r = row)
  BY DEF Journal, IInv, TypeOK
<1>3. Entries'
  BY <1>1, <1>2, EntryKept DEF Entries
<1>4. Messages'
  BY <1>1, MessageKept DEF Messages
<1>5. QED
  BY <1>3, <1>4

(* A step that writes nothing and sends nothing but errors, requests and answers
   to a push. *)
LEMMA QuietStep ==
  ASSUME IInv, Entries, Messages, Grows, UNCHANGED log,
         \A m \in msgs': m \in msgs \/ m.type \in {"invoke", "error", "ack"}
  PROVE  Entries' /\ Messages'
<1>1. ClosedKept
  BY JournalClosedKept
<1>2. Entries'
  BY <1>1, EntryKept DEF Entries
<1>3. \A m \in msgs': m \in msgs \/ MessageFits(m)'
  BY DEF MessageFits
<1>4. Messages'
  BY <1>1, <1>3, MessageKept DEF Messages
<1>5. QED
  BY <1>2, <1>4

(* A step that writes an entry of another kind. *)
LEMMA OtherEntryStep ==
  ASSUME IInv, Entries, Messages, Grows, NEW b \in Agent, NEW e, e.type \notin Completion,
         Journal(b, SelfRow(b, e)),
         \A m \in msgs': m \in msgs \/ m.type \in {"invoke", "error", "ack"}
  PROVE  Entries' /\ Messages'
<1>1. SelfRow(b, e).event = e
  BY DEF SelfRow
<1>2. PICK row: row.event.type \notin Completion /\ Journal(b, row)
  BY <1>1
<1>3. EntryFits(b, row)'
  BY <1>2 DEF EntryFits
<1>4. \A m \in msgs': m \in msgs \/ MessageFits(m)'
  BY DEF MessageFits
<1>5. QED
  BY <1>2, <1>3, <1>4, WriteStep
--------------------------------------------------------------------------------
(* The delegatee's pending entry, and the answer that holds its event. *)
LEMMA FinishStep ==
  ASSUME IInv, Entries, Messages, Grows, NEW c \in Call, NEW type \in Completion,
         Finish(c, type)
  PROVE  Entries' /\ Messages'
<1>1. /\ c \in DOMAIN call /\ call[c].to = TokenOf(c).sub /\ call[c].to \in Agent
      /\ call'[c] = call[c] /\ CompletionOf(c, type)' = CompletionOf(c, type)
      /\ c \in DOMAIN call'
  <2>1. Ran(c) /\ c \in DOMAIN call
    BY DEF Finish, Ran, IInv, Posted
  <2>2. QED
    BY <2>1, CompletionKept DEF IInv, RanStarted
<1>2. PICK b, e, sig: b = call[c].to /\ e = CompletionOf(c, type) /\ sig = Mine(b)
  OBVIOUS
<1>3. sig.by = b /\ b \in Agent /\ e.type = type /\ e.src = c /\ e.delegatee = b
  BY <1>1, <1>2, CompletionFields DEF Mine
<1> DEFINE row == [event |-> e, sigs |-> {sig}, pending |-> TRUE]
           msg == [type |-> "outcome", call |-> c, event |-> e, sig |-> sig]
<1>4. Journal(b, row) /\ msgs' = msgs \cup {msg}
  BY <1>2 DEF Finish, AppendPending
<1>5. /\ row.event = e /\ {s.by: s \in row.sigs} = {b} /\ row.pending
      /\ msg.type = "outcome" /\ msg.event = e /\ msg.call = c
  BY <1>3
<1> HIDE DEF row, msg
<1>6. EntryFits(b, row)'
  BY <1>1, <1>2, <1>3, <1>5 DEF EntryFits
<1>7. row \in log'[b]
  BY <1>3, <1>4 DEF Journal, IInv, TypeOK
<1>8. MessageFits(msg)'
  BY <1>1, <1>2, <1>3, <1>5, <1>7 DEF MessageFits
<1>9. QED
  BY <1>3, <1>4, <1>6, <1>8, WriteStep

(* The delegator's entry has both signatures; the push holds its event. *)
LEMMA AgreeStep ==
  ASSUME IInv, Entries, Messages, Grows, NEW c \in Call, NEW m \in msgs, Agree(m, c)
  PROVE  Entries' /\ Messages'
<1>1. m.call = c /\ m.type = "outcome" /\ c \in DOMAIN call
  BY DEF Agree, Answered, IInv, Posted
<1>2. PICK e, type: /\ e = m.event /\ type = e.type /\ type \in Completion
                    /\ e = CompletionOf(c, type)
  BY <1>1 DEF Messages, MessageFits
<1>3. /\ e.delegatee = call[c].to /\ \E s \in log[e.delegatee]: s.event = e
      /\ e.delegator = Caller(c) /\ e.src = c
  BY <1>1, <1>2, CompletionFields DEF Messages, MessageFits
<1>4. /\ e.delegator \in Agent /\ e.delegatee \in Agent
      /\ c \in DOMAIN call' /\ call'[c] = call[c] /\ e = CompletionOf(c, type)'
  BY <1>1, <1>2, <1>3, CompletionKept, CompletionFields
<1>5. PICK a, sig: a = Caller(c) /\ a \in Agent /\ sig = Mine(a)
  BY <1>3, <1>4
<1>6. sig.by = a /\ m.sig.by = e.delegatee
  BY <1>3, <1>5 DEF Agree, VerifiedBy, Mine
<1> DEFINE row == [event |-> e, sigs |-> {sig, m.sig}, pending |-> FALSE]
           msg == [type |-> "cosign", call |-> c, event |-> e, sig |-> sig]
<1>7. Journal(a, row) /\ \A n \in msgs': n \in msgs \/ n = msg
  BY <1>2, <1>5 DEF Agree, Pushed
<1>8. /\ row.event = e /\ {s.by: s \in row.sigs} = {a, e.delegatee} /\ ~row.pending
      /\ msg.type = "cosign" /\ msg.event = e /\ msg.call = c /\ msg.sig.by = a
  BY <1>6
<1> HIDE DEF row, msg
<1>9. row \in log'[a] /\ \E s \in log'[e.delegatee]: s.event = e
  BY <1>3, <1>4, <1>5, <1>7 DEF Journal, Grows, IInv, TypeOK
<1>10. EntryFits(a, row)'
  BY <1>2, <1>3, <1>4, <1>5, <1>8, <1>9 DEF EntryFits, Both
<1>11. MessageFits(msg)'
  BY <1>2, <1>3, <1>4, <1>5, <1>8, <1>9 DEF MessageFits
<1>12. QED
  BY <1>5, <1>7, <1>10, <1>11, WriteStep

(* The countersignature adds the delegator to the delegatee's entry. *)
LEMMA CloseStep ==
  ASSUME IInv, Entries, Messages, Grows, NEW m \in msgs, Close(m)
  PROVE  Entries' /\ Messages'
<1>1. m.call \in DOMAIN call /\ m.type = "cosign" /\ MessageFits(m)
  BY DEF Close, IInv, Posted, Messages
<1>2. PICK b \in Agent: b = call[m.call].to
  BY <1>1, CallTyped DEF IInv
<1>3. PICK r \in log[b]:
        /\ Closable(m, b, r)
        /\ log' = [log EXCEPT ![b] = (@ \ {r}) \cup
             {[event |-> r.event, sigs |-> Countersigned(r, m.sig), pending |-> FALSE]}]
  BY <1>2 DEF Close
<1>4. EntryFits(b, r) /\ r.pending /\ r.event.type \in Completion
      /\ r.event.type = m.event.type /\ r.event.src = m.event.src
  BY <1>1, <1>3 DEF Entries, Closable, MessageFits
<1>5. /\ r.event = m.event /\ r.event.delegatee = b /\ {s.by: s \in r.sigs} = {b}
      /\ m.sig.by = r.event.delegator
      /\ \E s \in log[r.event.delegator]: s.event = r.event /\ ~s.pending
  BY <1>1, <1>2, <1>4, CompletionFields DEF EntryFits, MessageFits
<1>6. /\ r.event.delegator \in Agent /\ r.event.src \in DOMAIN call'
      /\ r.event = CompletionOf(r.event.src, r.event.type)'
  BY <1>4, CompletionKept, CompletionFields DEF EntryFits
<1> DEFINE row == [event |-> r.event, sigs |-> Countersigned(r, m.sig), pending |-> FALSE]
<1>7. /\ log'[b] = (log[b] \ {r}) \cup {row}
      /\ \A a \in Agent \ {b}: log'[a] = log[a]
  BY <1>3 DEF IInv, TypeOK
<1>8. row.event = r.event /\ ~row.pending /\ row.sigs = Countersigned(r, m.sig)
  OBVIOUS
<1> HIDE DEF row
<1>9. {s.by: s \in Countersigned(r, m.sig)} = {b, m.sig.by}
  BY <1>5 DEF Countersigned
<1>10. ClosedKept
  BY <1>4, <1>7 DEF ClosedKept
<1>11. EntryFits(b, row)'
  <2>1. \E s \in log'[r.event.delegator]: s.event = r.event /\ ~s.pending
    BY <1>5, <1>6, <1>10 DEF ClosedKept
  <2>2. row \in log'[b]
    BY <1>7
  <2>3. Both(row.event)'
    BY <1>5, <1>8, <2>1, <2>2 DEF Both
  <2>4. QED
    BY <1>5, <1>6, <1>8, <1>9, <2>3 DEF EntryFits
<1>12. Entries'
  <2>1. \A a \in Agent: \A q \in log'[a]: q \in log[a] \/ (a = b /\ q = row)
    BY <1>7
  <2>2. QED
    BY <1>10, <1>11, <2>1, EntryKept DEF Entries
<1>13. Messages'
  <2>1. \A n \in msgs': n \in msgs \/ MessageFits(n)'
    BY DEF Close, Ack, MessageFits
  <2>2. QED
    BY <1>10, <2>1, MessageKept DEF Messages
<1>14. QED
  BY <1>12, <1>13

(* What gave rise to an entry of another kind no longer can. *)
Spent(e) ==
  \/ e.type = "delegation.issued" /\ e.src \in DOMAIN token
  \/ /\ e.type \in {"delegation.started", "delegation.replay_attempt"}
     /\ e.src \in DOMAIN call /\ Received(e.src) \notin msgs
  \/ /\ e.type = "delegation.disputed"
     /\ e.src \in DOMAIN call /\ client[e.src] = "disputed"

(* A step that has nothing to do with the record of a completion: the entry it writes,
   if any, is another and the first of its kind, and so is every message. *)
Aside ==
  /\ \/ UNCHANGED log
     \/ \E b \in Agent: \E e: /\ e.type \notin Completion
                              /\ Journal(b, SelfRow(b, e))
                              /\ ~Spent(e) /\ Spent(e)'
  /\ \A m \in msgs': m \in msgs \/ m.type \in {"invoke", "error", "ack"}

(* The endpoint up to the execution writes entries of other kinds. *)
LEMMA ServeAside ==
  ASSUME IInv, NEW c \in Call, Serve(c)
  PROVE  Aside
<1>1. \A m \in msgs': m \in msgs \/ m.type \in {"invoke", "error", "ack"}
  BY DEF Serve, Refuse, RefuseReplay, Accept, JournalFails, Refused, ErrorReply
<1>2. call[c].to \in Agent /\ Received(c) \in msgs /\ c \in DOMAIN call
  BY CallTyped DEF Serve, Refuse, RefuseReplay, Accept, JournalFails, Received, IInv, Posted
<1>3. CASE RefuseReplay(c)
  <2>1. PICK e: e = [type |-> "delegation.replay_attempt", src |-> c,
                     jti |-> call[c].jti, delegator |-> TokenOf(c).iss,
                     delegatee |-> call[c].to, scope |-> {}]
    OBVIOUS
  <2>2. e.type = "delegation.replay_attempt" /\ e.src = c /\ e.type \notin Completion
    BY <2>1 DEF Completion
  <2>3. Journal(call[c].to, SelfRow(call[c].to, e))
    BY <1>3, <2>1 DEF RefuseReplay
  <2>4. ~Spent(e) /\ Spent(e)'
    BY <1>2, <1>3, <2>2 DEF RefuseReplay, Refused, Received, ErrorReply, Spent
  <2>5. QED
    BY <1>1, <1>2, <2>2, <2>3, <2>4 DEF Aside
<1>4. CASE Accept(c)
  <2>1. PICK e: e = [type |-> "delegation.started", src |-> c, jti |-> call[c].jti,
                     delegator |-> TokenOf(c).iss, delegatee |-> call[c].to,
                     scope |-> TokenOf(c).scope]
    OBVIOUS
  <2>2. e.type = "delegation.started" /\ e.src = c /\ e.type \notin Completion
    BY <2>1 DEF Completion
  <2>3. Journal(call[c].to, SelfRow(call[c].to, e))
    BY <1>4, <2>1 DEF Accept
  <2>4. ~Spent(e) /\ Spent(e)'
    BY <1>2, <1>4, <2>2 DEF Accept, Received, Spent
  <2>5. QED
    BY <1>1, <1>2, <2>2, <2>3, <2>4 DEF Aside
<1>5. CASE Refuse(c) \/ JournalFails(c)
  BY <1>1, <1>5 DEF Refuse, JournalFails, Aside
<1>6. QED
  BY <1>3, <1>4, <1>5 DEF Serve

(* The client's part, but for the agreement. *)
LEMMA ReceiveAside ==
  ASSUME IInv, NEW c \in Call, NEW m \in msgs,
         \/ Dispute(m, c) \/ ReceiveError(m, c) \/ UnknownPeer(m, c) \/ Mismatch(m, c)
         \/ RecordFails(m, c) \/ ReceiveAck(m, c)
  PROVE  Aside
<1>1. CASE Dispute(m, c)
  <2>1. PICK a, e: /\ a = Caller(c)
                   /\ e = [type |-> "delegation.disputed", src |-> c, jti |-> call[c].jti,
                           delegator |-> a, delegatee |-> call[c].to, scope |-> {}]
    OBVIOUS
  <2>2. a \in Agent /\ c \in DOMAIN call
    BY <1>1, <2>1, CallTyped DEF Dispute, Answered, IInv, Posted
  <2>3. e.type = "delegation.disputed" /\ e.src = c /\ e.type \notin Completion
    BY <2>1 DEF Completion
  <2>4. Journal(a, SelfRow(a, e)) /\ \A n \in msgs': n \in msgs
    BY <1>1, <2>1 DEF Dispute
  <2>5. ~Spent(e) /\ Spent(e)'
    BY <1>1, <2>2, <2>3 DEF Dispute, Answered, Spent, IInv, TypeOK
  <2>6. QED
    BY <2>2, <2>3, <2>4, <2>5 DEF Aside
<1>2. CASE \/ ReceiveError(m, c) \/ UnknownPeer(m, c) \/ Mismatch(m, c)
           \/ RecordFails(m, c) \/ ReceiveAck(m, c)
  BY <1>2 DEF ReceiveError, UnknownPeer, Mismatch, RecordFails, ReceiveAck, Aside
<1>3. QED
  BY <1>1, <1>2

(* The token's entry. *)
LEMMA IssueAside ==
  ASSUME NEW a \in Agent, NEW b \in Agent, NEW j \in Jti, NEW scope \in ScopeSet,
         NEW ttl \in 1..MaxTTL, Issue(a, b, j, scope, ttl)
  PROVE  Aside
<1>1. PICK e: e = [type |-> "delegation.issued", src |-> j, jti |-> j,
                   delegator |-> a, delegatee |-> b, scope |-> scope]
  OBVIOUS
<1>2. e.type = "delegation.issued" /\ e.src = j /\ e.type \notin Completion
  BY <1>1 DEF Completion
<1>3. Journal(a, SelfRow(a, e)) /\ msgs' = msgs
  BY <1>1 DEF Issue, callVars
<1>4. ~Spent(e) /\ Spent(e)'
  BY <1>2 DEF Issue, Put, Spent
<1>5. QED
  BY <1>2, <1>3, <1>4 DEF Aside

(* Every step is one of three, or has nothing to do with completions. *)
LEMMA StepKinds ==
  ASSUME IInv, [Next]_vars
  PROVE  \/ Aside
         \/ \E c \in Call, type \in Completion: Finish(c, type)
         \/ \E c \in Call, m \in msgs: Agree(m, c)
         \/ \E m \in msgs: Close(m)
<1>1. ASSUME NEW c \in Call, NEW j \in Jti, NEW to \in Agent, NEW req \in Request,
             Post(c, j, to, req)
      PROVE  Aside
  BY <1>1 DEF Post, Aside
<1>2. ASSUME NEW c \in Call, FinishUnlogged(c) PROVE Aside
  BY <1>2 DEF FinishUnlogged, ErrorReply, Aside
<1>3. ASSUME NEW m \in msgs, RejectCosign(m) PROVE Aside
  BY <1>3 DEF RejectCosign, Ack, Aside
<1>4. CASE \/ \E a \in Agent: Setup(a)
           \/ \E c \in Call: Timeout(c)
           \/ \E m \in msgs: Lose(m)
           \/ UNCHANGED vars
  <2>1. UNCHANGED log /\ \A m \in msgs': m \in msgs
    BY <1>4 DEF Setup, Tick, Publish, RegisterPeer, Restart, Timeout, Lose, vars, callVars
  <2>2. QED
    BY <2>1 DEF Aside
<1>5. QED
  BY <1>1, <1>2, <1>3, <1>4, IssueAside, ServeAside, ReceiveAside
  DEF Next, Delegate, Complete, Receive, Deliver

(* Every step keeps what is on record, and in messages, as it should be. *)
LEMMA NextXInv == XInv /\ [Next]_vars => XInv'
<1> SUFFICES ASSUME IInv, Entries, Messages, [Next]_vars
             PROVE  IInv' /\ Entries' /\ Messages'
  BY DEF XInv
<1>1. IInv' /\ Grows
  BY NextIInv, NextGrows DEF IInv
<1>2. CASE Aside
  BY <1>1, <1>2, QuietStep, OtherEntryStep DEF Aside
<1>3. QED
  BY <1>1, <1>2, StepKinds, FinishStep, AgreeStep, CloseStep

LEMMA XInvariant == Spec => []XInv
<1>1. Init => XInv
  BY InitIInv DEF Init, XInv, Entries, Messages
<1>2. QED
  BY <1>1, NextXInv, PTL DEF Spec

(* Whatever is lost, replayed or restarted, an entry for a finished delegation that
   does not wait for the peer carries the signatures of both parties. *)
THEOREM BothSigned == Spec => []CrossSigned
<1>1. XInv => CrossSigned
  BY DEF XInv, Entries, EntryFits, CrossSigned
<1>2. QED
  BY <1>1, XInvariant, PTL

(* The same event is then in the delegatee's log and, closed, in the delegator's. *)
THEOREM RecordedByBoth == Spec => []SameRecord
<1>1. XInv => SameRecord
  BY DEF XInv, Entries, EntryFits, Both, SameRecord
<1>2. QED
  BY <1>1, XInvariant, PTL

--------------------------------------------------------------------------------
Done(a) == {r \in log[a]: r.event.type \in Completion}

(* A completion has one row in a log, and that log is one of its parties'. *)
OneRow ==
  \A a \in Agent: \A r \in Done(a):
    /\ a \in {r.event.delegator, r.event.delegatee}
    /\ \A s \in Done(a): s.event.src = r.event.src => s = r

(* A request that has not been taken up has not been executed; a completion, and a
   message about one, is of an execution that has come to its end. *)
Once ==
  /\ \A c \in Call: Received(c) \in msgs => ~Ran(c)
  /\ \A a \in Agent: \A r \in Done(a): server[r.event.src] = "executed"
  /\ \A m \in msgs: m.type \in {"outcome", "cosign"} => server[m.call] = "executed"

(* While an answer is on its way it is the only message about its call, and nobody
   has closed a row: there is the delegatee's, with the same signature. *)
AnswerFits ==
  \A m \in msgs: m.type = "outcome" =>
    /\ \A n \in msgs: n.call = m.call => n.type # "cosign" /\ (n.type = "outcome" => n = m)
    /\ \A a \in Agent: \A r \in Done(a):
         r.event.src = m.call => r.pending /\ r.sigs = {m.sig}

(* A countersignature is what the delegatee's row lacks of the delegator's. *)
PushFits ==
  \A m \in msgs: m.type = "cosign" =>
    \A r \in Done(m.event.delegator), s \in Done(m.event.delegatee):
      r.event = m.event /\ ~r.pending /\ s.event = m.event =>
        r.sigs = s.sigs \cup {m.sig}

OneVerdict ==
  \A a, b \in Agent: \A r \in Done(a), s \in Done(b):
    r.event = s.event /\ ~r.pending /\ ~s.pending => r.sigs = s.sigs

(* Every other entry is in one log, once. *)
Other(a) == {r \in log[a]: r.event.type \notin Completion}

OneOther ==
  \A a \in Agent: \A r \in Other(a):
    /\ Spent(r.event)
    /\ \A b \in Agent: \A s \in Other(b): s.event = r.event => s = r

VInv == XInv /\ OneOther /\ OneRow /\ Once /\ AnswerFits /\ PushFits /\ OneVerdict
--------------------------------------------------------------------------------
(* What the rows and messages of a completion are about. *)
LEMMA DoneFields ==
  ASSUME XInv, NEW a \in Agent, NEW r \in Done(a)
  PROVE  /\ r.event.src \in Call /\ r.event.delegator \in Agent /\ r.event.delegatee \in Agent
         /\ r.event.delegator = Caller(r.event.src)
         /\ r.event.delegatee = TokenOf(r.event.src).sub
         /\ r.event = CompletionOf(r.event.src, r.event.type)
         /\ r.pending => a = r.event.delegatee
         /\ ~r.pending => Both(r.event)
<1>1. EntryFits(a, r) /\ r.event.type \in Completion
  BY DEF XInv, Entries, Done
<1>2. r.event.src \in DOMAIN call
  BY <1>1 DEF EntryFits
<1>3. QED
  BY <1>1, <1>2, CallTyped, CompletionFields DEF EntryFits, XInv, IInv

LEMMA MessageFields ==
  ASSUME XInv, NEW m \in msgs, m.type \in {"outcome", "cosign"}
  PROVE  /\ m.call \in Call /\ m.event.src = m.call /\ m.event.type \in Completion
         /\ m.event.delegator \in Agent /\ m.event.delegatee \in Agent
         /\ m.event.delegator = Caller(m.call)
         /\ m.event.delegatee = call[m.call].to
         /\ \E s \in Done(m.event.delegatee): s.event = m.event
<1>1. m.call \in DOMAIN call /\ MessageFits(m)
  BY DEF XInv, IInv, Posted, Messages
<1>2. QED
  BY <1>1, CallTyped, CompletionFields DEF MessageFits, XInv, IInv, Done

(* A request comes once. *)
LEMMA NotAgain ==
  ASSUME [Next]_vars, NEW c \in DOMAIN call, Received(c) \notin msgs
  PROVE  Received(c) \notin msgs'
<1>1. SUFFICES ASSUME Received(c) \in msgs' PROVE FALSE
  OBVIOUS
<1>2. Received(c).type = "invoke" /\ Received(c).call = c
  BY DEF Received
<1>3. ASSUME NEW d \in Call, NEW j \in Jti, NEW to \in Agent, NEW req \in Request,
             Post(d, j, to, req)
      PROVE  FALSE
  BY <1>1, <1>3 DEF Post, Received
<1>4. ASSUME NEW m \in msgs, Close(m) \/ RejectCosign(m) \/ Lose(m)
      PROVE  FALSE
  BY <1>1, <1>2, <1>4 DEF Close, RejectCosign, Ack, Lose
<1>5. ASSUME NEW d \in Call, Serve(d) \/ Timeout(d) PROVE FALSE
  BY <1>1, <1>2, <1>5 DEF Serve, Refuse, RefuseReplay, Accept, JournalFails, Refused,
    ErrorReply, Timeout
<1>6. ASSUME NEW d \in Call, Complete(d) PROVE FALSE
  BY <1>1, <1>2, <1>6 DEF Complete, Finish, FinishUnlogged, ErrorReply
<1>7. ASSUME NEW d \in Call, NEW m \in msgs,
             \/ ReceiveError(m, d) \/ UnknownPeer(m, d) \/ Dispute(m, d) \/ Mismatch(m, d)
             \/ RecordFails(m, d) \/ Agree(m, d) \/ ReceiveAck(m, d)
      PROVE  FALSE
  BY <1>1, <1>2, <1>7 DEF ReceiveError, UnknownPeer, Dispute, Mismatch, RecordFails, Agree,
    Pushed, ReceiveAck
<1>8. CASE (\E a \in Agent: Setup(a)) \/ UNCHANGED vars
  BY <1>1, <1>8 DEF Setup, Tick, Publish, RegisterPeer, Restart, callVars, vars
<1>9. ASSUME NEW a \in Agent, NEW b \in Agent, NEW j \in Jti, NEW scope \in ScopeSet,
              NEW ttl \in 1..MaxTTL, Issue(a, b, j, scope, ttl)
       PROVE  FALSE
  BY <1>1, <1>9 DEF Issue, callVars
<1>10. ~Delegate
  BY <1>3, <1>9 DEF Delegate
<1>11. ASSUME NEW d \in Call PROVE ~Complete(d) /\ ~Serve(d) /\ ~Timeout(d)
  BY <1>5, <1>6
<1>12. ASSUME NEW d \in Call PROVE ~Receive(d) /\ ~Deliver(d)
  BY <1>4, <1>7 DEF Receive, Deliver
<1>13. QED
  BY <1>4, <1>8, <1>10, <1>11, <1>12 DEF Next

(* What is executed stays executed, and a request is taken up once. *)
LEMMA ExecutedStays ==
  ASSUME XInv, Once, [Next]_vars
  PROVE  /\ \A c \in Call: server[c] = "executed" => server'[c] = "executed"
         /\ \A c \in Call: Received(c) \in msgs' => ~Ran(c)'
<1>1. \A c \in Call: Received(c) \in msgs => ~Ran(c)
  BY DEF Once
<1>2. ASSUME NEW c \in Call, server[c] = "executed"
      PROVE  server'[c] = "executed"
  <2>1. ASSUME NEW d \in Call, Serve(d)
        PROVE  server'[c] = "executed"
    <3>1. Received(d) \in msgs /\ \E v: server' = [server EXCEPT ![d] = v]
      BY <2>1 DEF Serve, Refuse, RefuseReplay, Accept, JournalFails
    <3>2. d # c
      BY <1>1, <1>2, <3>1 DEF Ran
    <3>3. QED
      BY <1>2, <3>1, <3>2 DEF XInv, IInv, TypeOK
  <2>2. ASSUME NEW d \in Call, Complete(d)
        PROVE  server'[c] = "executed"
    BY <1>2, <2>2 DEF Complete, Finish, FinishUnlogged, XInv, IInv, TypeOK
  <2>3. CASE \E a \in Agent: Setup(a)
    BY <1>2, <2>3 DEF Setup, Tick, Publish, RegisterPeer, Restart, callVars
  <2>4. CASE \/ Delegate
             \/ \E m \in msgs: Lose(m)
             \/ UNCHANGED vars
    BY <1>2, <2>4 DEF Delegate, Issue, Post, Lose, vars, callVars
  <2>5. ASSUME NEW d \in Call, Receive(d) \/ Deliver(d) \/ Timeout(d)
        PROVE  server'[c] = "executed"
    BY <1>2, <2>5 DEF Receive, ReceiveError, UnknownPeer, Dispute, Mismatch, Agree,
      RecordFails, ReceiveAck, Deliver, Close, RejectCosign, Timeout
  <2>6. QED
    BY <2>1, <2>2, <2>3, <2>4, <2>5 DEF Next
<1>3. ASSUME NEW c \in Call, Received(c) \in msgs', Ran(c)'
      PROVE  FALSE
  <2>1. ~Accept(c)
    BY <1>3 DEF Accept
  <2>2. Ran(c) /\ c \in DOMAIN call
    BY <1>3, <2>1, RanByAccept DEF XInv, IInv, Posted
  <2>3. QED
    BY <1>1, <1>3, <2>2, NotAgain
<1>4. QED
  BY <1>2, <1>3

(* A step that has nothing to do with completions. *)
LEMMA AsideVerdict ==
  ASSUME VInv, [Next]_vars, Aside
  PROVE  OneRow' /\ Once' /\ AnswerFits' /\ PushFits' /\ OneVerdict'
<1>1. \A a \in Agent: Done(a)' = Done(a)
  <2>1. CASE UNCHANGED log
    BY <2>1 DEF Done
  <2>2. ASSUME NEW b \in Agent, NEW e, e.type \notin Completion, Journal(b, SelfRow(b, e))
        PROVE  \A a \in Agent: Done(a)' = Done(a)
    <3>1. SelfRow(b, e).event = e
      BY DEF SelfRow
    <3>2. QED
      BY <2>2, <3>1 DEF Done, Journal, VInv, XInv, IInv, TypeOK
  <2>3. QED
    BY <2>1, <2>2 DEF Aside
<1>2. \A m \in msgs': m.type \in {"outcome", "cosign"} => m \in msgs
  BY DEF Aside
<1>3. OneRow' /\ OneVerdict'
  BY <1>1 DEF VInv, OneRow, OneVerdict
<1>4. Once'
  BY <1>1, <1>2, ExecutedStays, DoneFields, MessageFields DEF VInv, Once
<1>5. AnswerFits'
  BY <1>1, <1>2 DEF VInv, AnswerFits
<1>6. PushFits'
  BY <1>1, <1>2, MessageFields DEF VInv, PushFits
<1>7. QED
  BY <1>3, <1>4, <1>5, <1>6
--------------------------------------------------------------------------------
(* The rows about completions after one was written. *)
LEMMA WrittenDone ==
  ASSUME IInv, NEW b \in Agent, NEW row, Journal(b, row)
  PROVE  \A a \in Agent: \A r \in Done(a)': r \in Done(a) \/ (a = b /\ r = row)
BY DEF Done, Journal, IInv, TypeOK

(* The delegatee's row and the answer are the first of their call. *)
LEMMA FinishVerdict ==
  ASSUME VInv, [Next]_vars, NEW c \in Call, NEW type \in Completion, Finish(c, type)
  PROVE  OneRow' /\ Once' /\ AnswerFits' /\ PushFits' /\ OneVerdict'
<1>1. PICK b, e, sig: b = call[c].to /\ e = CompletionOf(c, type) /\ sig = Mine(b)
  OBVIOUS
<1>2. /\ b \in Agent /\ e.src = c /\ e.delegatee = b
      /\ server[c] = "executing" /\ server'[c] = "executed"
  <2>1. Ran(c) /\ c \in DOMAIN call
    BY DEF Finish, Ran, VInv, XInv, IInv, Posted
  <2>2. call[c].to = TokenOf(c).sub /\ call[c].to \in Agent
    BY <2>1, CallTyped DEF VInv, XInv, IInv, RanStarted
  <2>3. QED
    BY <1>1, <2>2, CompletionFields DEF Finish, VInv, XInv, IInv, TypeOK
<1> DEFINE row == [event |-> e, sigs |-> {sig}, pending |-> TRUE]
           msg == [type |-> "outcome", call |-> c, event |-> e, sig |-> sig]
<1>3. Journal(b, row) /\ msgs' = msgs \cup {msg}
  BY <1>1 DEF Finish, AppendPending
<1>4. /\ row.event = e /\ row.sigs = {sig} /\ row.pending
      /\ msg.type = "outcome" /\ msg.call = c /\ msg.sig = sig
  OBVIOUS
<1> HIDE DEF row, msg
<1>5. \A a \in Agent: \A r \in Done(a)': r \in Done(a) \/ (a = b /\ r = row)
  BY <1>2, <1>3, WrittenDone DEF VInv, XInv
<1>6. /\ \A a \in Agent: \A r \in Done(a): r.event.src # c
      /\ \A m \in msgs: m.type \in {"outcome", "cosign"} => m.call # c
  BY <1>2 DEF VInv, Once
<1>7. OneRow'
  BY <1>2, <1>4, <1>5, <1>6 DEF VInv, OneRow
<1>8. Once'
  BY <1>2, <1>3, <1>4, <1>5, ExecutedStays, DoneFields, MessageFields DEF VInv, Once
<1>9. AnswerFits'
  BY <1>2, <1>3, <1>4, <1>5, <1>6 DEF VInv, AnswerFits
<1>10. PushFits'
  BY <1>2, <1>3, <1>4, <1>5, <1>6, MessageFields DEF VInv, PushFits
<1>11. OneVerdict'
  BY <1>4, <1>5 DEF VInv, OneVerdict
<1>12. QED
  BY <1>7, <1>8, <1>9, <1>10, <1>11

(* The delegator's row has the delegatee's signature and its own, and its own is in
   the push. *)
LEMMA AgreeVerdict ==
  ASSUME VInv, [Next]_vars, NEW c \in Call, NEW m \in msgs, Agree(m, c)
  PROVE  OneRow' /\ Once' /\ AnswerFits' /\ PushFits' /\ OneVerdict'
<1>1. m.call = c /\ m.type = "outcome" /\ server[c] = "executed"
  BY DEF Agree, Answered, VInv, Once
<1>2. PICK a, e, sig: a = Caller(c) /\ e = m.event /\ sig = Mine(a)
  OBVIOUS
<1>3. /\ e.delegator = a /\ a \in Agent /\ e.delegatee \in Agent /\ e.src = c
      /\ e.type \in Completion
      /\ \E s \in Done(e.delegatee): s.event = e
  BY <1>1, <1>2, MessageFields DEF VInv
<1>4. /\ \A n \in msgs: n.call = c /\ n.type \in {"outcome", "cosign"} => n = m
      /\ \A x \in Agent: \A r \in Done(x): r.event.src = c => r.pending /\ r.sigs = {m.sig}
  BY <1>1 DEF VInv, AnswerFits
<1>5. \A x \in Agent: \A r \in Done(x):
        r.event.src = c => x = e.delegatee /\ r.event = e
  <2>1. SUFFICES ASSUME NEW x \in Agent, NEW r \in Done(x), r.event.src = c
                 PROVE  x = e.delegatee /\ r.event = e
    OBVIOUS
  <2>2. PICK s \in Done(e.delegatee): s.event = e
    BY <1>3
  <2>3. x = r.event.delegatee /\ r.event.delegatee = TokenOf(c).sub
    BY <1>4, <2>1, DoneFields DEF VInv
  <2>4. e.delegatee = TokenOf(c).sub
    BY <1>3, <2>2, DoneFields DEF VInv
  <2>5. r = s
    BY <1>3, <2>1, <2>2, <2>3, <2>4 DEF VInv, OneRow
  <2>6. QED
    BY <2>2, <2>3, <2>4, <2>5
<1>6. \A r \in Done(a): r.event.src # c
  BY <1>2, <1>3, <1>5 DEF Agree, Free, Done
<1> DEFINE row == [event |-> e, sigs |-> {sig, m.sig}, pending |-> FALSE]
           push == [type |-> "cosign", call |-> c, event |-> e, sig |-> sig]
<1>7. Journal(a, row) /\ \A n \in msgs': (n \in msgs /\ n # m) \/ n = push
  BY <1>2 DEF Agree, Pushed
<1>8. /\ row.event = e /\ row.sigs = {sig, m.sig} /\ ~row.pending
      /\ push.type = "cosign" /\ push.call = c /\ push.event = e /\ push.sig = sig
  OBVIOUS
<1> HIDE DEF row, push
<1>9. \A x \in Agent: \A r \in Done(x)': r \in Done(x) \/ (x = a /\ r = row)
  BY <1>3, <1>7, WrittenDone DEF VInv, XInv
<1>10. OneRow'
  BY <1>3, <1>6, <1>8, <1>9 DEF VInv, OneRow
<1>11. Once'
  BY <1>1, <1>3, <1>7, <1>8, <1>9, ExecutedStays, DoneFields, MessageFields DEF VInv, Once
<1>12. AnswerFits'
  <2>1. \A n \in msgs': n.type = "outcome" => n \in msgs /\ n.call # c
    BY <1>4, <1>7, <1>8
  <2>2. QED
    BY <1>3, <1>7, <1>8, <1>9, <2>1 DEF VInv, AnswerFits
<1>13. PushFits'
  <2>1. SUFFICES ASSUME NEW n \in msgs', n.type = "cosign",
                        NEW r \in Done(n.event.delegator)', NEW s \in Done(n.event.delegatee)',
                        r.event = n.event, ~r.pending, s.event = n.event
                 PROVE  r.sigs = s.sigs \cup {n.sig}
    BY DEF PushFits
  <2>2. CASE n = push
    BY <1>3, <1>4, <1>6, <1>8, <1>9, <1>5, <2>1, <2>2
  <2>3. CASE n \in msgs /\ n # m
    <3>1. n.call # c /\ n.event.src = n.call /\ n.event.delegator \in Agent
          /\ n.event.delegatee \in Agent
      BY <1>4, <2>1, <2>3, MessageFields DEF VInv
    <3>2. r \in Done(n.event.delegator) /\ s \in Done(n.event.delegatee)
      BY <1>3, <1>8, <1>9, <2>1, <3>1
    <3>3. QED
      BY <2>1, <2>3, <3>2 DEF VInv, PushFits
  <2>4. QED
    BY <1>7, <2>2, <2>3
<1>14. OneVerdict'
  BY <1>3, <1>4, <1>8, <1>9 DEF VInv, OneVerdict
<1>15. QED
  BY <1>10, <1>11, <1>12, <1>13, <1>14

(* The delegatee's row gets the signature it lacked of the delegator's. *)
LEMMA CloseVerdict ==
  ASSUME VInv, [Next]_vars, NEW m \in msgs, Close(m)
  PROVE  OneRow' /\ Once' /\ AnswerFits' /\ PushFits' /\ OneVerdict'
<1>1. PICK e, b: e = m.event /\ b = m.event.delegatee
  OBVIOUS
<1>2. /\ m.type = "cosign" /\ MessageFits(m) /\ server[m.call] = "executed"
      /\ m.call \in Call /\ e.src = m.call /\ e.type \in Completion
      /\ e.delegator \in Agent /\ b \in Agent /\ e.delegatee = b /\ b = call[m.call].to
      /\ m.sig.by = e.delegator
      /\ \E s \in Done(e.delegator): s.event = e /\ ~s.pending
  <2>1. m.type = "cosign" /\ MessageFits(m)
    BY DEF Close, VInv, XInv, Messages
  <2>2. QED
    BY <1>1, <2>1, MessageFields DEF VInv, Once, MessageFits, Done
<1>3. PICK r \in log[b]:
        /\ Closable(m, b, r)
        /\ log' = [log EXCEPT ![b] = (@ \ {r}) \cup
             {[event |-> r.event, sigs |-> Countersigned(r, m.sig), pending |-> FALSE]}]
  BY <1>2 DEF Close
<1>4. r \in Done(b) /\ r.pending /\ r.event.type = e.type /\ r.event.src = e.src
  BY <1>1, <1>2, <1>3 DEF Done, Closable
<1>5. EntryFits(b, r) /\ {s.by: s \in r.sigs} = {b}
  BY <1>2, <1>3, <1>4 DEF VInv, XInv, Entries, EntryFits, Done
<1>6. r.event = e
  BY <1>1, <1>2, <1>4, <1>5 DEF EntryFits, MessageFits
<1>7. e.delegator # b
  BY <1>2, <1>4, <1>6 DEF VInv, OneRow
<1> DEFINE row == [event |-> r.event, sigs |-> Countersigned(r, m.sig), pending |-> FALSE]
<1>8. /\ log'[b] = (log[b] \ {r}) \cup {row}
      /\ \A a \in Agent \ {b}: log'[a] = log[a]
  BY <1>2, <1>3 DEF VInv, XInv, IInv, TypeOK
<1>9. row.event = e /\ ~row.pending /\ row.sigs = Countersigned(r, m.sig)
  BY <1>6
<1> HIDE DEF row
<1>10. row.sigs = r.sigs \cup {m.sig}
  BY <1>2, <1>5, <1>7, <1>9 DEF Countersigned
<1>11. \A a \in Agent: \A q \in Done(a)':
         (q \in Done(a) /\ ~(a = b /\ q = r)) \/ (a = b /\ q = row)
  BY <1>8 DEF Done
<1>12. \A n \in msgs': n \in msgs \/ n.type = "ack"
  BY DEF Close, Ack
<1>13. \A a \in Agent: \A q \in Done(a): q.event.src = e.src /\ a = b => q = r
  BY <1>4, <1>6 DEF VInv, OneRow
<1>14. OneRow'
  BY <1>2, <1>4, <1>6, <1>9, <1>11, <1>13 DEF VInv, OneRow
<1>15. Once'
  BY <1>2, <1>9, <1>11, <1>12, ExecutedStays, DoneFields, MessageFields DEF VInv, Once
<1>16. AnswerFits'
  <2>1. \A n \in msgs': n.type = "outcome" => n \in msgs /\ n.call # m.call
    BY <1>2, <1>12 DEF VInv, AnswerFits
  <2>2. \A n \in msgs': n.type = "cosign" => n \in msgs
    BY <1>12
  <2>3. \A n \in msgs': n.type = "outcome" => \A k \in msgs': k.call = n.call =>
          k.type # "cosign" /\ (k.type = "outcome" => k = n)
    BY <2>1, <2>2 DEF VInv, AnswerFits
  <2>4. \A n \in msgs': n.type = "outcome" => \A a \in Agent: \A q \in Done(a)':
          q.event.src = n.call => q.pending /\ q.sigs = {n.sig}
    BY <1>2, <1>9, <1>11, <2>1 DEF VInv, AnswerFits
  <2>5. QED
    BY <2>3, <2>4 DEF AnswerFits
(* The delegator's closed rows about e are those it had. *)
<1>17. \A q \in Done(e.delegator)': q.event = e /\ ~q.pending => q.sigs = row.sigs
  <2>1. \A q \in Done(e.delegator)': q \in Done(e.delegator)
    BY <1>2, <1>7, <1>11
  <2>2. \A q \in Done(e.delegator): q.event = e /\ ~q.pending => q.sigs = r.sigs \cup {m.sig}
    <3>1. \A q \in Done(m.event.delegator), s \in Done(m.event.delegatee):
            q.event = m.event /\ ~q.pending /\ s.event = m.event
              => q.sigs = s.sigs \cup {m.sig}
      BY <1>2 DEF VInv, PushFits
    <3>2. QED
      BY <1>1, <1>4, <1>6, <3>1
  <2>3. QED
    BY <1>10, <2>1, <2>2
<1>18. PushFits'
  <2>1. SUFFICES ASSUME NEW n \in msgs', n.type = "cosign",
                        NEW q \in Done(n.event.delegator)', NEW s \in Done(n.event.delegatee)',
                        q.event = n.event, ~q.pending, s.event = n.event
                 PROVE  q.sigs = s.sigs \cup {n.sig}
    BY DEF PushFits
  <2>2. n \in msgs /\ n.event.delegator \in Agent /\ n.event.delegatee \in Agent
    BY <1>12, <2>1, MessageFields DEF VInv
  <2>3. CASE n.event = e
    <3>1. s = row
      BY <1>2, <1>4, <1>6, <1>11, <1>13, <2>1, <2>3
    <3>2. q \in Done(e.delegator)
      BY <1>2, <1>7, <1>11, <2>1, <2>3
    <3>3. q.sigs = r.sigs \cup {n.sig}
      BY <1>2, <1>4, <1>6, <2>1, <2>2, <2>3, <3>2 DEF VInv, PushFits
    <3>4. q.sigs = row.sigs
      BY <1>17, <2>1, <2>3
    <3>5. QED
      BY <3>1, <3>3, <3>4
  <2>4. CASE n.event # e
    <3>1. q \in Done(n.event.delegator) /\ s \in Done(n.event.delegatee)
      BY <1>9, <1>11, <2>1, <2>2, <2>4
    <3>2. QED
      BY <2>1, <2>2, <3>1 DEF VInv, PushFits
  <2>5. QED
    BY <2>3, <2>4
<1>19. OneVerdict'
  <2>1. SUFFICES ASSUME NEW x \in Agent, NEW y \in Agent, NEW q \in Done(x)',
                        NEW s \in Done(y)', q.event = s.event, ~q.pending, ~s.pending
                 PROVE  q.sigs = s.sigs
    BY DEF OneVerdict
  <2>2. CASE q.event # e
    <3>1. q \in Done(x) /\ s \in Done(y)
      BY <1>9, <1>11, <2>1, <2>2
    <3>2. QED
      BY <2>1, <3>1 DEF VInv, OneVerdict
  <2>3. CASE q.event = e
    <3>1. ASSUME NEW z \in Agent, NEW p \in Done(z)', p.event = e, ~p.pending
          PROVE  p.sigs = row.sigs
      <4>1. z \in {e.delegator, b}
        BY <1>2, <1>11, <3>1 DEF VInv, OneRow
      <4>2. z = b => p = row
        BY <1>4, <1>6, <1>11, <1>13, <3>1
      <4>3. QED
        BY <1>17, <3>1, <4>1, <4>2
    <3>2. QED
      BY <2>1, <2>3, <3>1
  <2>4. QED
    BY <2>2, <2>3
<1>20. QED
  BY <1>14, <1>15, <1>16, <1>18, <1>19

(* A call that has come to its end stays as it is. *)
End == {"failed", "mismatch", "disputed", "agreed"}

LEMMA EndStays ==
  ASSUME TypeOK, [Next]_vars, NEW c \in Call, c \in DOMAIN call, client[c] \in End
  PROVE  client'[c] = client[c]
<1>1. ASSUME NEW d \in Call, NEW m \in msgs,
             \/ ReceiveError(m, d) \/ UnknownPeer(m, d) \/ Dispute(m, d) \/ Mismatch(m, d)
             \/ RecordFails(m, d) \/ Agree(m, d) \/ ReceiveAck(m, d)
      PROVE  client'[c] = client[c]
  <2>1. client[d] \notin End /\ \E v: client' = [client EXCEPT ![d] = v]
    BY <1>1 DEF ReceiveError, UnknownPeer, Dispute, Mismatch, RecordFails, Agree, ReceiveAck,
      Answered, End
  <2>2. QED
    BY <2>1 DEF TypeOK
<1>2. ASSUME NEW d \in Call, Receive(d) PROVE client'[c] = client[c]
  BY <1>1, <1>2 DEF Receive
<1>3. ASSUME NEW d \in Call, Serve(d) \/ Complete(d) \/ Deliver(d) \/ Timeout(d)
      PROVE  client'[c] = client[c]
  BY <1>3 DEF Serve, Refuse, RefuseReplay, Accept, JournalFails, Complete, Finish,
    FinishUnlogged, Deliver, Close, RejectCosign, Timeout, End, TypeOK
<1>4. CASE Delegate
  BY <1>4 DEF Delegate, Issue, Post, callVars, TypeOK
<1>5. CASE (\E a \in Agent: Setup(a)) \/ (\E m \in msgs: Lose(m)) \/ UNCHANGED vars
  BY <1>5 DEF Setup, Tick, Publish, RegisterPeer, Restart, Lose, callVars, vars, End
<1>6. QED
  BY <1>2, <1>3, <1>4, <1>5 DEF Next

(* What is spent stays spent. *)
LEMMA SpentKept ==
  ASSUME IInv, [Next]_vars, NEW e, Spent(e)
  PROVE  Spent(e)'
<1>1. Grows
  BY NextGrows DEF IInv
<1>2. \A c \in DOMAIN call: c \in DOMAIN call'
  BY <1>1 DEF Grows
<1>3. CASE e.type = "delegation.disputed"
  <2>1. e.src \in DOMAIN call /\ client[e.src] = "disputed" /\ e.src \in Call
    BY <1>3, CallTyped DEF Spent, IInv
  <2>2. client'[e.src] = "disputed"
    BY <2>1, EndStays DEF IInv, End
  <2>3. QED
    BY <1>2, <1>3, <2>1, <2>2 DEF Spent
<1>4. CASE e.type # "delegation.disputed"
  BY <1>1, <1>2, <1>4, NotAgain DEF Spent, Grows
<1>5. QED
  BY <1>3, <1>4

(* So an entry of another kind is written once. *)
LEMMA OtherVerdict ==
  ASSUME VInv, [Next]_vars
  PROVE  OneOther'
<1>1. ASSUME \A a \in Agent: \A r \in Other(a)': r \in Other(a)
      PROVE  OneOther'
  BY <1>1, SpentKept DEF VInv, XInv, OneOther
<1>2. ASSUME NEW b \in Agent, NEW e, Journal(b, SelfRow(b, e)), ~Spent(e), Spent(e)'
      PROVE  OneOther'
  <2>1. SelfRow(b, e).event = e
    BY DEF SelfRow
  <2>2. PICK row: row = SelfRow(b, e) /\ row.event = e
    BY <2>1
  <2>3. \A a \in Agent: \A r \in Other(a)': r \in Other(a) \/ (a = b /\ r = row)
    BY <1>2, <2>2 DEF Other, Journal, VInv, XInv, IInv, TypeOK
  <2>4. QED
    BY <1>2, <2>2, <2>3, SpentKept DEF VInv, XInv, OneOther
<1>3. ASSUME NEW b \in Agent, NEW row, row.event.type \in Completion, Journal(b, row)
      PROVE  OneOther'
  <2>1. \A a \in Agent: \A r \in Other(a)': r \in Other(a)
    BY <1>3 DEF Other, Journal, VInv, XInv, IInv, TypeOK
  <2>2. QED
    BY <1>1, <2>1
<1>4. CASE Aside
  <2>1. CASE UNCHANGED log
    BY <1>1, <2>1 DEF Other
  <2>2. QED
    BY <1>2, <1>4, <2>1 DEF Aside
<1>5. ASSUME NEW c \in Call, NEW type \in Completion, Finish(c, type)
      PROVE  OneOther'
  <2>1. call[c].to \in Agent
    BY <1>5, CallTyped DEF Finish, Ran, VInv, XInv, IInv, Posted
  <2>2. PICK b, e, sig: /\ b = call[c].to /\ e = CompletionOf(c, type) /\ e.type = type
                        /\ sig = Mine(b)
    BY CompletionFields
  <2>3. Journal(b, [event |-> e, sigs |-> {sig}, pending |-> TRUE])
    BY <1>5, <2>2 DEF Finish, AppendPending
  <2>4. QED
    BY <1>3, <2>1, <2>2, <2>3
<1>6. ASSUME NEW c \in Call, NEW m \in msgs, Agree(m, c)
      PROVE  OneOther'
  <2>1. m.call = c /\ m.event.type \in Completion /\ Caller(c) \in Agent
    BY <1>6, MessageFields DEF Agree, Answered, VInv
  <2>2. PICK a, sig: a = Caller(c) /\ sig = Mine(a)
    OBVIOUS
  <2>3. Journal(a, [event |-> m.event, sigs |-> {sig, m.sig}, pending |-> FALSE])
    BY <1>6, <2>2 DEF Agree
  <2>4. QED
    BY <1>3, <2>1, <2>2, <2>3
<1>7. ASSUME NEW m \in msgs, Close(m)
      PROVE  OneOther'
  <2>1. m.event.type \in Completion
    BY <1>7, MessageFields DEF Close, VInv
  <2>2. PICK b, r: /\ r.event.type = m.event.type
                   /\ log' = [log EXCEPT ![b] = (@ \ {r}) \cup
                        {[event |-> r.event, sigs |-> Countersigned(r, m.sig),
                          pending |-> FALSE]}]
    BY <1>7 DEF Close, Closable
  <2>3. \A a \in Agent: \A q \in Other(a)': q \in Other(a)
    BY <2>1, <2>2 DEF Other, VInv, XInv, IInv, TypeOK
  <2>4. QED
    BY <1>1, <2>3
<1>8. QED
  BY <1>4, <1>5, <1>6, <1>7, StepKinds DEF VInv, XInv

(* Every step keeps the two logs in agreement. *)
LEMMA NextVInv == VInv /\ [Next]_vars => VInv'
<1> SUFFICES ASSUME VInv, [Next]_vars PROVE VInv'
  OBVIOUS
<1>1. XInv'
  BY NextXInv DEF VInv
<1>2. OneOther'
  BY OtherVerdict
<1>3. OneRow' /\ Once' /\ AnswerFits' /\ PushFits' /\ OneVerdict'
  BY StepKinds, AsideVerdict, FinishVerdict, AgreeVerdict, CloseVerdict DEF VInv, XInv
<1>4. QED
  BY <1>1, <1>2, <1>3 DEF VInv

(* Nothing is on record or on its way at first. *)
LEMMA InitVInv == Init => VInv
<1>1. Init => XInv
  BY InitIInv DEF Init, XInv, Entries, Messages
<1>2. Init => OneOther /\ OneRow /\ Once /\ AnswerFits /\ PushFits /\ OneVerdict
  BY DEF Init, Other, Done, OneOther, OneRow, Once, AnswerFits, PushFits, OneVerdict
<1>3. QED
  BY <1>1, <1>2 DEF VInv

(* Whatever is lost, replayed or restarted, and whichever keys a third party knows:
   a closed record verifies in one party's log if and only if it does in the other's. *)
THEOREM SameVerdictHeld == Spec => []SameVerdict
<1>1. VInv => SameVerdict
  <2>1. SUFFICES ASSUME OneOther, OneVerdict,
                        NEW a \in Agent, NEW b \in Agent, NEW r \in log[a], NEW s \in log[b],
                        r.event = s.event, ~r.pending, ~s.pending
                 PROVE  r.sigs = s.sigs
    BY DEF VInv, SameVerdict, RecordVerifies
  <2>2. QED
    BY <2>1 DEF OneOther, OneVerdict, Other, Done
<1>2. QED
  BY <1>1, InitVInv, NextVInv, PTL DEF Spec
================================================================================
