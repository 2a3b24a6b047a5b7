---------------------------- MODULE ProtocolProofs ----------------------------
(***************************************************************************)
(* For any agents, tokens, calls and faults: read together, one token at a *)
(* time, the two parties' logs go through the protocol of CrossSign.  When *)
(* nothing fails, an invocation that returns has its completion closed in  *)
(* both logs.                                                              *)
(***************************************************************************)
EXTENDS DelegationFlowProofs

(* The entries the protocol is about. *)
Step == {"delegation.started", "delegation.disputed"} \cup Completion

(* An entry is about an issued token; one of the protocol is of a call with that token
   that was executed, and a dispute of an execution that has come to its end. *)
Fits(e) ==
  /\ e.jti \in DOMAIN token
  /\ e.type \in Step =>
       /\ e.src \in DOMAIN call /\ call[e.src].jti = e.jti
       /\ Ran(e.src)
  /\ e.type = "delegation.disputed" => server[e.src] = "executed"

RowsFit == \A a \in Agent: \A r \in log[a]: Fits(r.event)

(* What has been agreed on is not disputed. *)
NeverBoth ==
  \A a \in Agent: \A r \in Done(a): ~r.pending => client[r.event.src] # "disputed"

PInv == VInv /\ RowsFit /\ NeverBoth
--------------------------------------------------------------------------------
(* The steps that write an entry. *)
LEMMA LogSteps ==
  ASSUME IInv, [Next]_vars
  PROVE  \/ UNCHANGED <<log, token>>
         \/ \E a, b \in Agent, j \in Jti, scope \in ScopeSet, ttl \in 1..MaxTTL:
              Issue(a, b, j, scope, ttl)
         \/ \E c \in Call: RefuseReplay(c) \/ Accept(c)
         \/ \E c \in Call, type \in Completion: Finish(c, type)
         \/ \E c \in Call, m \in msgs: Dispute(m, c) \/ Agree(m, c)
         \/ \E m \in msgs: Close(m)
<1>1. CASE \/ \E a \in Agent: Setup(a)
           \/ \E c \in Call: Timeout(c)
           \/ \E m \in msgs: Lose(m)
           \/ UNCHANGED vars
  BY <1>1 DEF Setup, Tick, Publish, RegisterPeer, Restart, Timeout, Lose, vars, callVars
<1>2. ASSUME NEW c \in Call, NEW j \in Jti, NEW to \in Agent, NEW req \in Request,
             Post(c, j, to, req)
      PROVE  UNCHANGED <<log, token>>
  BY <1>2 DEF Post
<1>3. ASSUME NEW c \in Call, Refuse(c) \/ JournalFails(c) \/ FinishUnlogged(c)
      PROVE  UNCHANGED <<log, token>>
  BY <1>3 DEF Refuse, JournalFails, FinishUnlogged
<1>4. ASSUME NEW c \in Call, NEW m \in msgs,
             \/ ReceiveError(m, c) \/ UnknownPeer(m, c) \/ Mismatch(m, c)
             \/ RecordFails(m, c) \/ ReceiveAck(m, c) \/ RejectCosign(m)
      PROVE  UNCHANGED <<log, token>>
  BY <1>4 DEF ReceiveError, UnknownPeer, Mismatch, RecordFails, ReceiveAck, RejectCosign
<1>5. QED
  BY <1>1, <1>2, <1>3, <1>4 DEF Next, Delegate, Serve, Complete, Receive, Deliver

(* An execution is there for good. *)
LEMMA RanStays ==
  ASSUME XInv, Once, [Next]_vars, NEW c \in Call, Ran(c)
  PROVE  Ran(c)'
<1>1. ASSUME NEW d \in Call, Serve(d)
      PROVE  Ran(c)'
  <2>1. Received(d) \in msgs /\ \E v: server' = [server EXCEPT ![d] = v]
    BY <1>1 DEF Serve, Refuse, RefuseReplay, Accept, JournalFails
  <2>2. d # c
    BY <2>1 DEF Once
  <2>3. QED
    BY <2>1, <2>2 DEF XInv, IInv, TypeOK, Ran
<1>2. ASSUME NEW d \in Call, Complete(d)
      PROVE  Ran(c)'
  BY <1>2 DEF Complete, Finish, FinishUnlogged, XInv, IInv, TypeOK, Ran
<1>3. CASE \E a \in Agent: Setup(a)
  BY <1>3 DEF Setup, Tick, Publish, RegisterPeer, Restart, callVars, Ran
<1>4. CASE Delegate \/ (\E m \in msgs: Lose(m)) \/ UNCHANGED vars
  BY <1>4 DEF Delegate, Issue, Post, Lose, vars, callVars, Ran
<1>5. ASSUME NEW d \in Call, Receive(d) \/ Deliver(d) \/ Timeout(d)
      PROVE  Ran(c)'
  BY <1>5 DEF Receive, ReceiveError, UnknownPeer, Dispute, Mismatch, Agree, RecordFails,
    ReceiveAck, Deliver, Close, RejectCosign, Timeout, Ran
<1>6. QED
  BY <1>1, <1>2, <1>3, <1>4, <1>5 DEF Next

(* Nothing but a dispute makes a call disputed. *)
LEMMA DisputedBy ==
  ASSUME XInv, [Next]_vars, NEW c \in Call, client'[c] = "disputed"
  PROVE  client[c] = "disputed" \/ \E m \in msgs: Dispute(m, c)
<1>1. SUFFICES ASSUME client[c] # "disputed" PROVE \E m \in msgs: Dispute(m, c)
  OBVIOUS
<1>2. ASSUME NEW d \in Call, NEW m \in msgs, Dispute(m, d)
      PROVE  Dispute(m, c)
  BY <1>1, <1>2 DEF Dispute, XInv, IInv, TypeOK
<1>3. ASSUME NEW d \in Call, NEW m \in msgs,
             \/ ReceiveError(m, d) \/ UnknownPeer(m, d) \/ Mismatch(m, d)
             \/ RecordFails(m, d) \/ ReceiveAck(m, d)
      PROVE  FALSE
  BY <1>1, <1>3 DEF ReceiveError, UnknownPeer, Mismatch, RecordFails, ReceiveAck, XInv, IInv,
    TypeOK
<1>4. ASSUME NEW d \in Call, NEW m \in msgs, Agree(m, d)
      PROVE  FALSE
  BY <1>1, <1>4 DEF Agree, AfterRecord, XInv, IInv, TypeOK
<1>5. ASSUME NEW d \in Call, Serve(d) \/ Complete(d) \/ Deliver(d)
      PROVE  FALSE
  BY <1>1, <1>5 DEF Serve, Refuse, RefuseReplay, Accept, JournalFails, Complete, Finish,
    FinishUnlogged, Deliver, Close, RejectCosign
<1>6. ASSUME NEW d \in Call, Timeout(d)
      PROVE  FALSE
  BY <1>1, <1>6 DEF Timeout, XInv, IInv, TypeOK
<1>7. ~Delegate
  BY <1>1 DEF Delegate, Issue, Post, callVars, XInv, IInv, TypeOK
<1>8. CASE (\E a \in Agent: Setup(a)) \/ (\E m \in msgs: Lose(m)) \/ UNCHANGED vars
  BY <1>1, <1>8 DEF Setup, Tick, Publish, RegisterPeer, Restart, Lose, callVars, vars
<1>9. ASSUME NEW d \in Call PROVE ~Serve(d) /\ ~Complete(d) /\ ~Deliver(d) /\ ~Timeout(d)
  BY <1>5, <1>6
<1>10. ASSUME NEW d \in Call, Receive(d) PROVE \E m \in msgs: Dispute(m, c)
  BY <1>2, <1>3, <1>4, <1>10 DEF Receive
<1>11. QED
  BY <1>7, <1>8, <1>9, <1>10 DEF Next

(* What fits still fits after a step. *)
LEMMA FitsKept ==
  ASSUME VInv, [Next]_vars, NEW e, Fits(e)
  PROVE  Fits(e)'
<1>1. Grows /\ TypeOK
  BY NextGrows DEF VInv, XInv, IInv
<1>2. e.type \in Step =>
        /\ e.src \in DOMAIN call' /\ call'[e.src] = call[e.src]
        /\ Ran(e.src)'
  BY <1>1, RanStays DEF Fits, VInv, Grows, TypeOK
<1>3. e.type = "delegation.disputed" => server'[e.src] = "executed"
  BY <1>1, ExecutedStays DEF Fits, VInv, Step, TypeOK
<1>4. QED
  BY <1>1, <1>2, <1>3 DEF Fits, Grows

(* A step that writes one entry that fits. *)
LEMMA FitsWritten ==
  ASSUME VInv, RowsFit, [Next]_vars, NEW b \in Agent, NEW row, Journal(b, row),
         Fits(row.event)'
  PROVE  RowsFit'
<1>1. \A a \in Agent: \A r \in log'[a]: r \in log[a] \/ r = row
  BY DEF Journal, VInv, XInv, IInv, TypeOK
<1>2. QED
  BY <1>1, FitsKept DEF RowsFit

(* Every step keeps the entries with the executions they tell of. *)
LEMMA NextRowsFit ==
  ASSUME VInv, RowsFit, [Next]_vars
  PROVE  RowsFit'
<1>1. CASE UNCHANGED <<log, token>>
  BY <1>1, FitsKept DEF RowsFit
<1>2. ASSUME NEW a \in Agent, NEW b \in Agent, NEW j \in Jti, NEW scope \in ScopeSet,
             NEW ttl \in 1..MaxTTL, Issue(a, b, j, scope, ttl)
      PROVE  RowsFit'
  <2>1. PICK e: e = [type |-> "delegation.issued", src |-> j, jti |-> j,
                     delegator |-> a, delegatee |-> b, scope |-> scope]
    OBVIOUS
  <2>2. e.jti = j /\ e.type \notin Step /\ e.type # "delegation.disputed"
    BY <2>1 DEF Step, Completion
  <2>3. j \in DOMAIN token'
    BY <1>2 DEF Issue, Put
  <2>4. Journal(a, SelfRow(a, e)) /\ SelfRow(a, e).event = e
    BY <1>2, <2>1 DEF Issue, SelfRow
  <2>5. QED
    BY <2>2, <2>3, <2>4, FitsWritten DEF Fits
<1>3. ASSUME NEW c \in Call, RefuseReplay(c) \/ Accept(c)
      PROVE  RowsFit'
  <2>1. /\ c \in DOMAIN call /\ call[c].to \in Agent /\ call[c].jti \in DOMAIN token
        /\ UNCHANGED <<token, call>>
    BY <1>3, CallTyped DEF RefuseReplay, Accept, Received, VInv, XInv, IInv, Posted
  <2>2. CASE RefuseReplay(c)
    <3>1. PICK e: e = [type |-> "delegation.replay_attempt", src |-> c,
                       jti |-> call[c].jti, delegator |-> TokenOf(c).iss,
                       delegatee |-> call[c].to, scope |-> {}]
      OBVIOUS
    <3>2. e.jti = call[c].jti /\ e.type \notin Step /\ e.type # "delegation.disputed"
      BY <3>1 DEF Step, Completion
    <3>3. Journal(call[c].to, SelfRow(call[c].to, e)) /\ SelfRow(call[c].to, e).event = e
      BY <2>2, <3>1 DEF RefuseReplay, SelfRow
    <3>4. QED
      BY <2>1, <3>2, <3>3, FitsWritten DEF Fits
  <2>3. CASE Accept(c)
    <3>1. PICK e: e = [type |-> "delegation.started", src |-> c, jti |-> call[c].jti,
                       delegator |-> TokenOf(c).iss, delegatee |-> call[c].to,
                       scope |-> TokenOf(c).scope]
      OBVIOUS
    <3>2. e.jti = call[c].jti /\ e.src = c /\ e.type # "delegation.disputed"
      BY <3>1
    <3>3. Ran(c)'
      BY <2>1, <2>3 DEF Accept, Ran, VInv, XInv, IInv, TypeOK
    <3>4. Journal(call[c].to, SelfRow(call[c].to, e)) /\ SelfRow(call[c].to, e).event = e
      BY <2>3, <3>1 DEF Accept, SelfRow
    <3>5. QED
      BY <2>1, <3>2, <3>3, <3>4, FitsWritten DEF Fits
  <2>4. QED
    BY <1>3, <2>2, <2>3
<1>4. ASSUME NEW c \in Call, NEW type \in Completion, Finish(c, type)
      PROVE  RowsFit'
  <2>1. /\ c \in DOMAIN call /\ call[c].to \in Agent /\ call[c].jti \in DOMAIN token
        /\ UNCHANGED <<token, call>>
    BY <1>4, CallTyped DEF Finish, Ran, VInv, XInv, IInv, Posted
  <2>2. PICK e, b, sig: e = CompletionOf(c, type) /\ b = call[c].to /\ sig = Mine(b)
    OBVIOUS
  <2>3. e.jti = call[c].jti /\ e.src = c /\ e.type # "delegation.disputed"
    BY <2>2 DEF CompletionOf, Completion
  <2>4. Ran(c)'
    BY <1>4 DEF Finish, Ran, VInv, XInv, IInv, TypeOK
  <2>5. PICK row: Journal(b, row) /\ row.event = e
    BY <1>4, <2>2 DEF Finish, AppendPending
  <2>6. QED
    BY <2>1, <2>2, <2>3, <2>4, <2>5, FitsWritten DEF Fits
<1>5. ASSUME NEW c \in Call, NEW m \in msgs, Dispute(m, c) \/ Agree(m, c)
      PROVE  RowsFit'
  <2>1. /\ m.type = "outcome" /\ m.call = c /\ c \in DOMAIN call
        /\ Caller(c) \in Agent /\ call[c].jti \in DOMAIN token
        /\ UNCHANGED <<token, call, server>> /\ server[c] = "executed"
    BY <1>5, CallTyped DEF Dispute, Agree, Answered, VInv, XInv, IInv, Posted, Once
  <2>2. CASE Dispute(m, c)
    <3>1. PICK e: e = [type |-> "delegation.disputed", src |-> c, jti |-> call[c].jti,
                       delegator |-> Caller(c), delegatee |-> call[c].to, scope |-> {}]
      OBVIOUS
    <3>2. e.jti = call[c].jti /\ e.src = c
      BY <3>1
    <3>3. Journal(Caller(c), SelfRow(Caller(c), e)) /\ SelfRow(Caller(c), e).event = e
      BY <2>2, <3>1 DEF Dispute, SelfRow
    <3>4. QED
      BY <2>1, <3>2, <3>3, FitsWritten DEF Fits, Ran
  <2>3. CASE Agree(m, c)
    <3>1. PICK e, sig: e = m.event /\ sig = Mine(Caller(c))
      OBVIOUS
    <3>2. e.jti = call[c].jti /\ e.src = c /\ e.type # "delegation.disputed"
      <4>1. PICK type \in Completion: e = CompletionOf(c, type)
        BY <2>1, <3>1 DEF VInv, XInv, Messages, MessageFits
      <4>2. QED
        BY <4>1 DEF CompletionOf, Completion
    <3>3. PICK row: Journal(Caller(c), row) /\ row.event = e
      BY <2>3, <3>1 DEF Agree
    <3>4. QED
      BY <2>1, <3>2, <3>3, FitsWritten DEF Fits, Ran
  <2>4. QED
    BY <1>5, <2>2, <2>3
<1>6. ASSUME NEW m \in msgs, Close(m)
      PROVE  RowsFit'
  <2>1. \A a \in Agent: \A q \in log'[a]: \E s \in log[a]: q.event = s.event
    <3>1. m.call \in DOMAIN call
      BY DEF VInv, XInv, IInv, Posted
    <3>2. PICK b \in Agent: b = call[m.call].to
      BY <3>1, CallTyped DEF VInv, XInv, IInv
    <3>3. PICK r \in log[b]:
            log' = [log EXCEPT ![b] = (@ \ {r}) \cup
              {[event |-> r.event, sigs |-> Countersigned(r, m.sig), pending |-> FALSE]}]
      BY <1>6, <3>2 DEF Close
    <3>4. QED
      BY <3>3 DEF VInv, XInv, IInv, TypeOK
  <2>2. QED
    BY <2>1, FitsKept DEF RowsFit
<1>7. QED
  BY <1>1, <1>2, <1>3, <1>4, <1>5, <1>6, LogSteps DEF VInv, XInv

(* A dispute comes before any agreement or never. *)
LEMMA NextNeverBoth ==
  ASSUME VInv, NeverBoth, [Next]_vars
  PROVE  NeverBoth'
<1>1. SUFFICES ASSUME NEW a \in Agent, NEW r \in Done(a)', ~r.pending,
                      client'[r.event.src] = "disputed"
               PROVE  FALSE
  BY DEF NeverBoth
<1>2. r.event.src \in Call
  BY <1>1, NextVInv DEF VInv, XInv, IInv, TypeOK, Entries, EntryFits, Done
<1>3. PICK c: c = r.event.src
  OBVIOUS
<1>4. CASE \E b \in Agent: \E s \in Done(b): s.event = r.event /\ ~s.pending
  <2>1. client[c] # "disputed"
    BY <1>3, <1>4 DEF NeverBoth
  <2>2. PICK m \in msgs: Dispute(m, c)
    BY <1>1, <1>2, <1>3, <2>1, DisputedBy DEF VInv
  <2>3. QED
    BY <1>3, <1>4, <2>2 DEF Dispute, Answered, VInv, AnswerFits
<1>5. ASSUME NEW d \in Call, NEW m \in msgs, Agree(m, d)
      PROVE  r \in Done(a)
  <2>1. m.event.src = d /\ m.type = "outcome"
    BY <1>5, MessageFields DEF Agree, Answered, VInv
  <2>2. PICK row: Journal(Caller(d), row) /\ row.event.src = d
    BY <1>5, <2>1 DEF Agree
  <2>3. client'[d] # "disputed"
    BY <1>5 DEF Agree, AfterRecord, VInv, XInv, IInv, TypeOK
  <2>4. r # row
    BY <1>1, <2>2, <2>3
  <2>5. QED
    BY <1>1, <2>2, <2>4 DEF Done, Journal, VInv, XInv, IInv, TypeOK
<1>6. ASSUME NEW m \in msgs, Close(m)
      PROVE  \E b \in Agent: \E s \in Done(b): s.event = r.event /\ ~s.pending
  <2>1. MessageFits(m) /\ m.type = "cosign" /\ m.call \in DOMAIN call
    BY <1>6 DEF Close, VInv, XInv, IInv, Posted, Messages
  <2>2. PICK b \in Agent: b = call[m.call].to
    BY <2>1, CallTyped DEF VInv, XInv, IInv
  <2>3. PICK q \in log[b]:
          /\ q.event.type = m.event.type /\ q.event.src = m.event.src
          /\ log' = [log EXCEPT ![b] = (@ \ {q}) \cup
               {[event |-> q.event, sigs |-> Countersigned(q, m.sig), pending |-> FALSE]}]
    BY <1>6, <2>2 DEF Close, Closable
  <2>4. q.event = m.event
    <3>1. EntryFits(b, q) /\ m.event.src = m.call
      BY <2>1, <2>2, MessageFields DEF VInv, XInv, Entries
    <3>2. QED
      BY <2>1, <2>3, <3>1 DEF MessageFits, EntryFits
  <2>5. CASE r \in Done(a)
    BY <1>1, <2>5
  <2>6. CASE r \notin Done(a)
    <3>1. r.event = q.event
      BY <1>1, <2>3, <2>6 DEF Done, VInv, XInv, IInv, TypeOK
    <3>2. m.event.delegator \in Agent
      BY <2>1, MessageFields DEF VInv
    <3>3. QED
      BY <2>1, <2>3, <2>4, <3>1, <3>2 DEF MessageFits, Done
  <2>7. QED
    BY <2>5, <2>6
<1>7. ASSUME NEW d \in Call, NEW type \in Completion, Finish(d, type)
      PROVE  r \in Done(a)
  <2>1. PICK e, b, sig: e = CompletionOf(d, type) /\ b = call[d].to /\ sig = Mine(b)
    OBVIOUS
  <2>2. PICK row: Journal(b, row) /\ row.pending
    BY <1>7, <2>1 DEF Finish, AppendPending
  <2>3. QED
    BY <1>1, <2>2 DEF Done, Journal, VInv, XInv, IInv, TypeOK
<1>8. CASE Aside
  <2>1. ASSUME UNCHANGED log
        PROVE  r \in Done(a)
    BY <1>1, <2>1 DEF Done
  <2>2. ASSUME NEW b \in Agent, NEW e, e.type \notin Completion, Journal(b, SelfRow(b, e))
        PROVE  r \in Done(a)
    <3>1. PICK row: Journal(b, row) /\ row.event = e
      BY <2>2 DEF SelfRow
    <3>2. QED
      BY <1>1, <2>2, <3>1 DEF Done, Journal, VInv, XInv, IInv, TypeOK
  <2>3. r \in Done(a)
    BY <1>8, <2>1, <2>2 DEF Aside
  <2>4. QED
    BY <1>1, <1>4, <2>3
<1>9. QED
  BY <1>1, <1>4, <1>5, <1>6, <1>7, <1>8, StepKinds DEF VInv, XInv

(* The invariant is inductive. *)
LEMMA NextPInv == PInv /\ [Next]_vars => PInv'
BY NextVInv, NextRowsFit, NextNeverBoth DEF PInv
--------------------------------------------------------------------------------
(* The entries about token j that CrossSign reads, and what it reads from them. *)
About(a, j) == {r \in log[a]: r.event.jti = j /\ r.event.type \in Step}

Disputed(j) == \E r \in About(token[j].iss, j): r.event.type = "delegation.disputed"
Agreed(j) == \E r \in About(token[j].iss, j): r.event.type \in Completion /\ ~r.pending
Started(j) == \E r \in About(token[j].sub, j): r.event.type = "delegation.started"
Signed(j) == \E r \in About(token[j].sub, j): r.event.type \in Completion
Open(j) == \E r \in About(token[j].sub, j): r.event.type \in Completion /\ r.pending

(* The abstract state as nested conditions, before and after a step. *)
Readings ==
  \A j \in Jti:
    IF j \in DOMAIN token
    THEN /\ DelegatorOf(j) = IF Disputed(j) THEN "disputed"
                             ELSE IF Agreed(j) THEN "agreed" ELSE "issued"
         /\ DelegateeOf(j) = IF Signed(j) THEN IF Open(j) THEN "signed" ELSE "closed"
                             ELSE IF Started(j) THEN "started" ELSE "none"
    ELSE DelegatorOf(j) = "none" /\ DelegateeOf(j) = "none"

(* What the two logs say of a token, spelt out. *)
LEMMA Reading == Readings
<1> SUFFICES ASSUME NEW j \in Jti
             PROVE  IF j \in DOMAIN token
                    THEN /\ DelegatorOf(j) = IF Disputed(j) THEN "disputed"
                                             ELSE IF Agreed(j) THEN "agreed" ELSE "issued"
                         /\ DelegateeOf(j) = IF Signed(j)
                                             THEN IF Open(j) THEN "signed" ELSE "closed"
                                             ELSE IF Started(j) THEN "started" ELSE "none"
                    ELSE DelegatorOf(j) = "none" /\ DelegateeOf(j) = "none"
  BY DEF Readings
<1>1. CASE j \notin DOMAIN token
  BY <1>1 DEF DelegatorOf, DelegateeOf
<1>2. CASE j \in DOMAIN token
  <2>1. /\ Disputed(j) <=> Rows(token[j].iss, j, {"delegation.disputed"}) # {}
        /\ Agreed(j) <=> \E r \in Rows(token[j].iss, j, Completion): ~r.pending
        /\ Started(j) <=> Rows(token[j].sub, j, {"delegation.started"}) # {}
        /\ Signed(j) <=> Rows(token[j].sub, j, Completion) # {}
        /\ Open(j) <=> \E r \in Rows(token[j].sub, j, Completion): r.pending
    BY DEF Disputed, Agreed, Started, Signed, Open, About, Step, Rows
  <2>2. QED
    BY <1>2, <2>1 DEF DelegatorOf, DelegateeOf
<1>3. QED
  BY <1>1, <1>2

(* The same of the next state. *)
LEMMA ReadingAfter == Readings'
BY Reading, PTL

Same(j) == DelegatorOf(j)' = DelegatorOf(j) /\ DelegateeOf(j)' = DelegateeOf(j)

(* A token keeps its place in the protocol when no entry about it is written. *)
LEMMA Untouched ==
  ASSUME IInv, Grows, NEW j \in Jti, j \in DOMAIN token' => j \in DOMAIN token,
         \A a \in Agent: About(a, j)' = About(a, j)
  PROVE  Same(j)
<1>1. CASE j \notin DOMAIN token
  BY <1>1, Reading, ReadingAfter DEF Readings, Same
<1>2. CASE j \in DOMAIN token
  <2>1. /\ token'[j] = token[j] /\ j \in DOMAIN token'
        /\ token[j].iss \in Agent /\ token[j].sub \in Agent
    BY <1>2 DEF Grows, IInv, TypeOK, Token
  <2>2. /\ Disputed(j)' <=> Disputed(j)
        /\ Agreed(j)' <=> Agreed(j)
        /\ Started(j)' <=> Started(j)
        /\ Signed(j)' <=> Signed(j)
        /\ Open(j)' <=> Open(j)
    BY <2>1 DEF Disputed, Agreed, Started, Signed, Open
  <2>3. QED
    BY <1>2, <2>1, <2>2, Reading, ReadingAfter DEF Readings, Same
<1>3. QED
  BY <1>1, <1>2

(* What an entry adds to the reading of its token, and to no other. *)
LEMMA WrittenAbout ==
  ASSUME IInv, NEW b \in Agent, NEW row, Journal(b, row)
  PROVE  /\ \A a \in Agent: \A j: row.event.jti # j \/ row.event.type \notin Step \/ a # b
              => About(a, j)' = About(a, j)
         /\ row.event.type \in Step =>
              About(b, row.event.jti)' = About(b, row.event.jti) \cup {row}
BY DEF About, Journal, IInv, TypeOK

(* All entries about a token that was executed are of the one execution. *)
LEMMA OneSource ==
  ASSUME PInv, NEW c \in Call, Ran(c), NEW a \in Agent, NEW r \in About(a, call[c].jti)
  PROVE  /\ r.event.src = c
         /\ r.event.type = "delegation.disputed" => server[c] = "executed"
<1>1. r.event.src \in Call /\ Ran(r.event.src) /\ call[r.event.src].jti = call[c].jti
  BY DEF PInv, RowsFit, Fits, About, VInv, XInv, IInv, TypeOK
<1>2. r.event.src = c
  BY <1>1 DEF PInv, VInv, XInv, IInv, AtMostOnce
<1>3. QED
  BY <1>2 DEF PInv, RowsFit, Fits, About

(* What the steps of CrossSign are, for one token. *)
LEMMA Moves ==
  ASSUME NEW j \in Jti, \A k \in Jti \ {j}: Same(k)
  PROVE  /\ DelegatorOf(j) = "none" /\ DelegateeOf(j) = "none" /\ DelegatorOf(j)' = "issued"
           /\ DelegateeOf(j)' = "none" => CS!Issue(j)
         /\ DelegatorOf(j) = "issued" /\ DelegateeOf(j) = "none" /\ DelegatorOf(j)' = "issued"
           /\ DelegateeOf(j)' = "started" => CS!Start(j)
         /\ DelegatorOf(j) = "issued" /\ DelegateeOf(j) = "started"
           /\ DelegatorOf(j)' = "issued" /\ DelegateeOf(j)' = "signed" => CS!Sign(j)
         /\ \A verdict \in {"agreed", "disputed"}:
             DelegatorOf(j) = "issued" /\ DelegateeOf(j) = "signed"
               /\ DelegatorOf(j)' = verdict /\ DelegateeOf(j)' = "signed"
               => CS!Decide(j, verdict)
         /\ DelegatorOf(j) = "agreed" /\ DelegateeOf(j) = "signed"
           /\ DelegatorOf(j)' = "agreed" /\ DelegateeOf(j)' = "closed" => CS!Close(j)
BY DEF Same, CS!Issue, CS!Start, CS!Sign, CS!Decide, CS!Close

(* Nobody has an entry about a token before it is issued. *)
LEMMA IssueMoves ==
  ASSUME PInv, [Next]_vars, NEW a \in Agent, NEW b \in Agent, NEW j \in Jti,
         NEW scope \in ScopeSet, NEW ttl \in 1..MaxTTL, Issue(a, b, j, scope, ttl)
  PROVE  CS!Issue(j)
<1>1. IInv /\ Grows
  BY NextGrows DEF PInv, VInv, XInv, IInv
<1>2. PICK row: /\ Journal(a, row) /\ row.event.type = "delegation.issued"
  <2>1. PICK e: /\ e = [type |-> "delegation.issued", src |-> j, jti |-> j,
                        delegator |-> a, delegatee |-> b, scope |-> scope]
    OBVIOUS
  <2>2. SelfRow(a, e).event = e
    BY DEF SelfRow
  <2>3. QED
    BY <2>1, <2>2 DEF Issue
<1>3. \A x \in Agent, k \in Jti: About(x, k)' = About(x, k)
  BY <1>1, <1>2, WrittenAbout DEF Step, Completion
<1>4. /\ j \notin DOMAIN token /\ j \in DOMAIN token'
      /\ \A k \in Jti \ {j}: k \in DOMAIN token' => k \in DOMAIN token
      /\ token'[j].iss = a /\ token'[j].sub = b
  BY DEF Issue, Put
<1>5. \A k \in Jti \ {j}: Same(k)
  BY <1>1, <1>3, <1>4, Untouched
<1>6. \A x \in Agent: About(x, j) = {}
  BY <1>4 DEF About, PInv, RowsFit, Fits
<1>7. ~Disputed(j)' /\ ~Agreed(j)' /\ ~Signed(j)' /\ ~Started(j)'
  BY <1>3, <1>4, <1>6 DEF Disputed, Agreed, Signed, Started
<1>8. QED
  BY <1>4, <1>5, <1>7, Reading, ReadingAfter, Moves DEF Readings

(* The replay check keeps a token that was started from being started again. *)
LEMMA AcceptMoves ==
  ASSUME PInv, [Next]_vars, NEW c \in Call, Accept(c)
  PROVE  CS!Start(call[c].jti)
<1>1. IInv /\ Grows
  BY NextGrows DEF PInv, VInv, XInv, IInv
<1>2. PICK j, b: j = call[c].jti /\ b = call[c].to
  OBVIOUS
<1>3. /\ c \in DOMAIN call /\ b \in Agent /\ j \in Jti /\ j \in DOMAIN token
      /\ token[j].sub = b /\ token[j].iss \in Agent /\ ~Replayed(b, j)
      /\ UNCHANGED token
  BY <1>1, <1>2, CallTyped DEF Accept, Received, Acceptable, ClaimsValid, ForMe, TokenOf,
    Caller, IInv, Posted
<1>4. PICK row: /\ Journal(b, row) /\ row.event.type = "delegation.started"
                /\ row.event.jti = j
  <2>1. PICK e: e = [type |-> "delegation.started", src |-> c, jti |-> call[c].jti,
                     delegator |-> TokenOf(c).iss, delegatee |-> call[c].to,
                     scope |-> TokenOf(c).scope]
    OBVIOUS
  <2>2. SelfRow(b, e).event = e
    BY DEF SelfRow
  <2>3. QED
    BY <1>2, <2>1, <2>2 DEF Accept
<1>5. /\ \A x \in Agent, k \in Jti: k # j \/ x # b => About(x, k)' = About(x, k)
      /\ About(b, j)' = About(b, j) \cup {row}
  BY <1>1, <1>3, <1>4, WrittenAbout DEF Step
<1>6. \A k \in Jti \ {j}: Same(k)
  BY <1>1, <1>3, <1>5, Untouched
<1>7. \A x \in Agent: About(x, j) = {}
  <2>1. SUFFICES ASSUME NEW x \in Agent, NEW r \in About(x, j) PROVE FALSE
    OBVIOUS
  <2>2. /\ r.event.src \in DOMAIN call /\ r.event.src \in Call /\ Ran(r.event.src)
        /\ call[r.event.src].jti = j
    BY <1>1 DEF PInv, RowsFit, Fits, About, IInv, TypeOK
  <2>3. StartedAt(b, j)
    BY <1>1, <1>3, <2>2 DEF IInv, RanStarted, TokenOf
  <2>4. QED
    BY <1>3, <2>3 DEF StartedAt, Replayed
<1>8. /\ ~Disputed(j) /\ ~Agreed(j) /\ ~Signed(j) /\ ~Started(j)
  BY <1>3, <1>7 DEF Disputed, Agreed, Signed, Started
<1>9. \A x \in Agent: \A r \in About(x, j)': r = row
  BY <1>3, <1>5, <1>7
<1>10. ~Disputed(j)' /\ ~Agreed(j)' /\ ~Signed(j)'
  BY <1>3, <1>4, <1>9 DEF Disputed, Agreed, Signed, Completion
<1>11. Started(j)'
  BY <1>3, <1>4, <1>5 DEF Started
<1>12. CS!Start(j)
  BY <1>3, <1>6, <1>8, <1>10, <1>11, Reading, ReadingAfter, Moves DEF Readings
<1>13. QED
  BY <1>2, <1>12

(* While it runs, an execution has its started entry and no other. *)
LEMMA FinishMoves ==
  ASSUME PInv, [Next]_vars, NEW c \in Call, NEW type \in Completion, Finish(c, type)
  PROVE  CS!Sign(call[c].jti)
<1>1. IInv /\ Grows
  BY NextGrows DEF PInv, VInv, XInv, IInv
<1>2. PICK j, b: j = call[c].jti /\ b = call[c].to
  OBVIOUS
<1>3. Ran(c) /\ c \in DOMAIN call /\ server[c] = "executing"
  BY <1>1 DEF Finish, Ran, IInv, Posted
<1>4. /\ b \in Agent /\ j \in Jti /\ j \in DOMAIN token
      /\ token[j].sub = b /\ token[j].iss \in Agent /\ StartedAt(b, j)
      /\ UNCHANGED token
  BY <1>1, <1>2, <1>3, CallTyped DEF Finish, TokenOf, Caller, IInv, Posted, RanStarted
<1>5. PICK row: /\ Journal(b, row) /\ row.event.type \in Completion
                /\ row.event.jti = j /\ row.pending
  <2>1. PICK e, sig: e = CompletionOf(c, type) /\ sig = Mine(b)
    OBVIOUS
  <2>2. Journal(b, [event |-> e, sigs |-> {sig}, pending |-> TRUE])
    BY <1>2, <2>1 DEF Finish, AppendPending
  <2>3. e.type = type /\ e.jti = j
    BY <1>2, <2>1 DEF CompletionOf
  <2>4. QED
    BY <2>2, <2>3
<1>6. /\ \A x \in Agent, k \in Jti: k # j \/ x # b => About(x, k)' = About(x, k)
      /\ About(b, j)' = About(b, j) \cup {row}
  BY <1>1, <1>4, <1>5, WrittenAbout DEF Step
<1>7. \A k \in Jti \ {j}: Same(k)
  BY <1>1, <1>4, <1>6, Untouched
<1>8. \A x \in Agent: \A r \in About(x, j): r.event.type = "delegation.started"
  <2>1. SUFFICES ASSUME NEW x \in Agent, NEW r \in About(x, j)
                 PROVE  r.event.type = "delegation.started"
    OBVIOUS
  <2>2. r.event.src = c /\ (r.event.type = "delegation.disputed" => server[c] = "executed")
    BY <1>2, <1>3, OneSource
  <2>3. r.event.type \notin Completion
    BY <1>3, <2>2 DEF About, Done, PInv, VInv, Once
  <2>4. QED
    BY <1>3, <2>2, <2>3 DEF About, Step
<1>9. ~Disputed(j) /\ ~Agreed(j) /\ ~Signed(j)
  BY <1>4, <1>8 DEF Disputed, Agreed, Signed, Completion
<1>10. Started(j)
  BY <1>4 DEF Started, StartedAt, About, Step
<1>11. \A x \in Agent: \A r \in About(x, j)': r.event.type = "delegation.started" \/ r = row
  BY <1>4, <1>6, <1>8
<1>12. ~Disputed(j)' /\ ~Agreed(j)'
  BY <1>4, <1>5, <1>11 DEF Disputed, Agreed, Completion
<1>13. Signed(j)' /\ Open(j)'
  BY <1>4, <1>5, <1>6 DEF Signed, Open
<1>14. CS!Sign(j)
  BY <1>4, <1>7, <1>9, <1>10, <1>12, <1>13, Reading, ReadingAfter, Moves DEF Readings
<1>15. QED
  BY <1>2, <1>14

(* While its answer is on its way, an execution is signed and not decided on. *)
LEMMA Undecided ==
  ASSUME PInv, NEW c \in Call, NEW m \in msgs, Answered(m, "outcome", c)
  PROVE  /\ c \in DOMAIN call /\ call[c].jti \in Jti /\ call[c].jti \in DOMAIN token
         /\ Caller(c) \in Agent /\ token[call[c].jti].iss = Caller(c)
         /\ token[call[c].jti].sub = m.event.delegatee /\ m.event.delegatee \in Agent
         /\ m.event.type \in Completion /\ m.event.jti = call[c].jti
         /\ \E s \in log[m.event.delegatee]: s.event = m.event
         /\ ~Disputed(call[c].jti) /\ ~Agreed(call[c].jti)
         /\ Signed(call[c].jti) /\ Open(call[c].jti)
<1>1. PICK j, e: j = call[c].jti /\ e = m.event
  OBVIOUS
<1>2. /\ m.call = c /\ m.type = "outcome" /\ client[c] = "waiting" /\ c \in DOMAIN call
      /\ server[c] = "executed" /\ Ran(c)
  BY DEF Answered, PInv, VInv, XInv, IInv, Posted, Once, Ran
<1>3. /\ e.type \in Completion /\ e = CompletionOf(c, e.type)
      /\ \E s \in Done(e.delegatee): s.event = e
      /\ e.delegator \in Agent /\ e.delegatee \in Agent
  BY <1>1, <1>2, MessageFields DEF PInv, VInv, XInv, Messages, MessageFits
<1>4. /\ e.jti = j /\ e.src = c /\ token[j].iss = Caller(c) /\ token[j].sub = e.delegatee
      /\ Caller(c) = e.delegator
  BY <1>1, <1>3 DEF CompletionOf, Caller, TokenOf
<1>5. j \in Jti /\ j \in DOMAIN token
  BY <1>1, <1>2, CallTyped DEF PInv, VInv, XInv, IInv, Posted
<1>6. \A x \in Agent: \A r \in About(x, j):
        /\ r.event.type # "delegation.disputed"
        /\ r.event.type \in Completion => r.pending
  <2>1. SUFFICES ASSUME NEW x \in Agent, NEW r \in About(x, j)
                 PROVE  /\ r.event.type # "delegation.disputed"
                        /\ r.event.type \in Completion => r.pending
    OBVIOUS
  <2>2. r.event.src = c
    BY <1>1, <1>2, OneSource
  <2>3. ASSUME r.event.type = "delegation.disputed" PROVE FALSE
    <3>1. Spent(r.event)
      BY <2>3 DEF About, Other, Completion, PInv, VInv, OneOther
    <3>2. QED
      BY <1>2, <2>2, <2>3, <3>1 DEF Spent
  <2>4. ASSUME r.event.type \in Completion PROVE r.pending
    BY <1>2, <2>2, <2>4 DEF About, Done, PInv, VInv, AnswerFits
  <2>5. QED
    BY <2>3, <2>4
<1>7. ~Disputed(j) /\ ~Agreed(j)
  BY <1>3, <1>4, <1>6 DEF Disputed, Agreed
<1>8. PICK s \in log[e.delegatee]: s.event = e
  BY <1>3 DEF Done
<1>9. s \in About(e.delegatee, j)
  BY <1>3, <1>4, <1>8 DEF About, Step
<1>10. Signed(j) /\ Open(j)
  BY <1>3, <1>4, <1>6, <1>8, <1>9 DEF Signed, Open
<1>11. QED
  BY <1>1, <1>2, <1>3, <1>4, <1>5, <1>7, <1>8, <1>10

(* The delegator decides once. *)
LEMMA DisputeMoves ==
  ASSUME PInv, [Next]_vars, NEW c \in Call, NEW m \in msgs, Dispute(m, c)
  PROVE  CS!Decide(call[c].jti, "disputed")
<1>1. IInv /\ Grows
  BY NextGrows DEF PInv, VInv, XInv, IInv
<1>2. PICK j, a: j = call[c].jti /\ a = Caller(c)
  OBVIOUS
<1>3. /\ c \in DOMAIN call /\ j \in Jti /\ j \in DOMAIN token /\ a \in Agent
      /\ token[j].iss = a /\ token[j].sub \in Agent
      /\ ~Disputed(j) /\ ~Agreed(j) /\ Signed(j) /\ Open(j)
      /\ UNCHANGED token
  BY <1>2, Undecided DEF Dispute
<1>4. PICK row: /\ Journal(a, row) /\ row.event.type = "delegation.disputed"
                /\ row.event.jti = j
  <2>1. PICK e: e = [type |-> "delegation.disputed", src |-> c, jti |-> call[c].jti,
                     delegator |-> a, delegatee |-> call[c].to, scope |-> {}]
    OBVIOUS
  <2>2. SelfRow(a, e).event = e
    BY DEF SelfRow
  <2>3. QED
    BY <1>2, <2>1, <2>2 DEF Dispute
<1>5. /\ \A x \in Agent, k \in Jti: k # j \/ x # a => About(x, k)' = About(x, k)
      /\ About(a, j)' = About(a, j) \cup {row}
  BY <1>1, <1>3, <1>4, WrittenAbout DEF Step
<1>6. \A k \in Jti \ {j}: Same(k)
  BY <1>1, <1>3, <1>5, Untouched
<1>7. \A x \in Agent: \A r: r.event.type # "delegation.disputed" =>
        (r \in About(x, j)' <=> r \in About(x, j))
  BY <1>3, <1>4, <1>5
<1>8. Disputed(j)' /\ Signed(j)' /\ Open(j)'
  BY <1>3, <1>4, <1>5, <1>7 DEF Disputed, Signed, Open, Completion
<1>9. CS!Decide(j, "disputed")
  BY <1>3, <1>6, <1>8, Reading, ReadingAfter, Moves DEF Readings
<1>10. QED
  BY <1>2, <1>9

(* An agent that delegates to itself finds its pending row, and does not get here. *)
LEMMA AgreeMoves ==
  ASSUME PInv, [Next]_vars, NEW c \in Call, NEW m \in msgs, Agree(m, c)
  PROVE  CS!Decide(call[c].jti, "agreed")
<1>1. IInv /\ Grows
  BY NextGrows DEF PInv, VInv, XInv, IInv
<1>2. PICK j, a, b, e: /\ j = call[c].jti /\ a = Caller(c)
                       /\ b = m.event.delegatee /\ e = m.event
  OBVIOUS
<1>3. Answered(m, "outcome", c)
  BY DEF Agree
<1>4. /\ c \in DOMAIN call /\ j \in Jti /\ j \in DOMAIN token /\ a \in Agent
      /\ token[j].iss = a /\ token[j].sub = b /\ b \in Agent
      /\ e.type \in Completion /\ e.jti = j /\ \E s \in log[b]: s.event = e
      /\ ~Disputed(j) /\ ~Agreed(j) /\ Signed(j) /\ Open(j)
  BY <1>2, <1>3, Undecided
<1>5. UNCHANGED token /\ Free(a, e)
  BY <1>2 DEF Agree
<1>6. a # b
  BY <1>4, <1>5 DEF Free
<1>7. PICK row: Journal(a, row) /\ row.event = e /\ ~row.pending
  <2>1. PICK sig: sig = Mine(a)
    OBVIOUS
  <2>2. Journal(a, [event |-> e, sigs |-> {sig, m.sig}, pending |-> FALSE])
    BY <1>2, <2>1 DEF Agree
  <2>3. QED
    BY <2>2
<1>8. /\ \A x \in Agent, k \in Jti: k # j \/ x # a => About(x, k)' = About(x, k)
      /\ About(a, j)' = About(a, j) \cup {row}
  BY <1>1, <1>4, <1>7, WrittenAbout DEF Step
<1>9. \A k \in Jti \ {j}: Same(k)
  BY <1>1, <1>4, <1>5, <1>8, Untouched
<1>10. Signed(j)' /\ Open(j)'
  BY <1>4, <1>5, <1>6, <1>8 DEF Signed, Open
<1>11. Agreed(j)' /\ ~Disputed(j)'
  <2>1. Agreed(j)'
    BY <1>4, <1>5, <1>7, <1>8 DEF Agreed
  <2>2. row.event.type # "delegation.disputed"
    BY <1>4, <1>7 DEF Completion
  <2>3. ~Disputed(j)'
    BY <1>4, <1>5, <1>8, <2>2 DEF Disputed
  <2>4. QED
    BY <2>1, <2>3
<1>12. CS!Decide(j, "agreed")
  BY <1>4, <1>5, <1>9, <1>10, <1>11, Reading, ReadingAfter, Moves DEF Readings
<1>13. QED
  BY <1>2, <1>12

(* The delegatee's only row is closed, over an agreement that is not disputed. *)
LEMMA CloseMoves ==
  ASSUME PInv, [Next]_vars, NEW m \in msgs, Close(m)
  PROVE  CS!Close(m.event.jti) /\ m.event.jti \in Jti
<1>1. IInv /\ Grows
  BY NextGrows DEF PInv, VInv, XInv, IInv
<1>2. PICK c, e, j, a, b: /\ c = m.call /\ e = m.event /\ j = e.jti
                          /\ a = e.delegator /\ b = e.delegatee
  OBVIOUS
<1>3. /\ m.type = "cosign" /\ c \in DOMAIN call /\ MessageFits(m) /\ server[c] = "executed"
      /\ UNCHANGED token
  BY <1>2 DEF Close, PInv, VInv, XInv, IInv, Posted, Messages, Once
<1>4. /\ c \in Call /\ Ran(c) /\ e.src = c /\ e.type \in Completion
      /\ a \in Agent /\ b \in Agent /\ b = call[c].to
      /\ \E s \in log[a]: s.event = e /\ ~s.pending
  BY <1>2, <1>3, MessageFields DEF MessageFits, PInv, VInv, Ran
<1>5. /\ j = call[c].jti /\ j \in Jti /\ j \in DOMAIN token
      /\ token[j].iss = a /\ token[j].sub = b
  <2>1. PICK type \in Completion: e = CompletionOf(c, type)
    BY <1>2, <1>3 DEF MessageFits
  <2>2. QED
    BY <1>1, <1>2, <1>3, <2>1, CallTyped DEF CompletionOf, Caller, TokenOf, IInv, Posted
<1>6. PICK r \in log[b]:
        /\ r.event.type = e.type /\ r.event.src = e.src /\ r.pending
        /\ log' = [log EXCEPT ![b] = (@ \ {r}) \cup
             {[event |-> r.event, sigs |-> Countersigned(r, m.sig), pending |-> FALSE]}]
  <2>1. PICK r \in log[b]:
          /\ Closable(m, b, r)
          /\ log' = [log EXCEPT ![b] = (@ \ {r}) \cup
               {[event |-> r.event, sigs |-> Countersigned(r, m.sig), pending |-> FALSE]}]
    BY <1>2, <1>4 DEF Close
  <2>2. QED
    BY <1>2, <2>1 DEF Closable
<1> DEFINE row == [event |-> r.event, sigs |-> Countersigned(r, m.sig), pending |-> FALSE]
<1>7. /\ log'[b] = (log[b] \ {r}) \cup {row}
      /\ \A x \in Agent \ {b}: log'[x] = log[x]
  BY <1>1, <1>4, <1>6 DEF IInv, TypeOK
<1>8. row.event = r.event /\ ~row.pending
  OBVIOUS
<1> HIDE DEF row
<1>9. r.event = e
  <2>1. EntryFits(b, r)
    BY <1>4 DEF PInv, VInv, XInv, Entries
  <2>2. QED
    BY <1>2, <1>3, <1>4, <1>6, <2>1 DEF EntryFits, MessageFits
<1>10. r \in Done(b) /\ r \in About(b, j)
  BY <1>2, <1>4, <1>6, <1>9 DEF Done, About, Step
<1>11. a # b
  <2>1. PICK s \in Done(a): s.event = e /\ ~s.pending
    BY <1>4 DEF Done
  <2>2. QED
    BY <1>4, <1>6, <1>9, <1>10, <2>1 DEF PInv, VInv, OneRow
<1>12. \A x \in Agent: \A k: k # j \/ x # b => About(x, k)' = About(x, k)
  BY <1>2, <1>7, <1>8, <1>9 DEF About
<1>13. \A k \in Jti \ {j}: Same(k)
  BY <1>1, <1>3, <1>12, Untouched
<1>14. Agreed(j) /\ ~Disputed(j)
  <2>1. PICK s \in log[a]: s.event = e /\ ~s.pending
    BY <1>4
  <2>2. s \in Done(a) /\ s \in About(a, j)
    BY <1>2, <1>4, <2>1 DEF Done, About, Step
  <2>3. client[c] # "disputed"
    BY <1>4, <2>1, <2>2 DEF PInv, NeverBoth
  <2>4. ASSUME NEW q \in About(a, j), q.event.type = "delegation.disputed" PROVE FALSE
    <3>1. q.event.src = c
      BY <1>4, <1>5, OneSource
    <3>2. Spent(q.event)
      BY <1>4, <2>4 DEF About, Other, Completion, PInv, VInv, OneOther
    <3>3. QED
      BY <2>3, <2>4, <3>1, <3>2 DEF Spent
  <2>5. QED
    BY <1>4, <1>5, <2>1, <2>2, <2>4 DEF Agreed, Disputed
<1>15. Agreed(j)' /\ ~Disputed(j)'
  BY <1>3, <1>4, <1>5, <1>11, <1>12, <1>14 DEF Agreed, Disputed
<1>16. Signed(j) /\ Open(j)
  BY <1>4, <1>5, <1>6, <1>9, <1>10 DEF Signed, Open
<1>17. About(b, j)' = (About(b, j) \ {r}) \cup {row}
  BY <1>2, <1>4, <1>7, <1>8, <1>9 DEF About, Step
<1>18. Signed(j)'
  BY <1>3, <1>4, <1>5, <1>8, <1>9, <1>17 DEF Signed
<1>19. ~Open(j)'
  <2>1. ASSUME NEW q \in About(b, j), q.event.type \in Completion PROVE q = r
    <3>1. q.event.src = c
      BY <1>4, <1>5, OneSource
    <3>2. q \in Done(b)
      BY <2>1 DEF About, Done
    <3>3. QED
      BY <1>4, <1>6, <1>10, <3>1, <3>2 DEF PInv, VInv, OneRow
  <2>2. QED
    BY <1>3, <1>5, <1>8, <1>17, <2>1 DEF Open
<1>20. CS!Close(j)
  BY <1>3, <1>5, <1>13, <1>14, <1>15, <1>16, <1>18, <1>19, Reading, ReadingAfter, Moves
  DEF Readings
<1>21. QED
  BY <1>2, <1>5, <1>20

(* An entry about a replay is none of the protocol's. *)
LEMMA ReplayStutters ==
  ASSUME PInv, [Next]_vars, NEW c \in Call, RefuseReplay(c)
  PROVE  \A k \in Jti: Same(k)
<1>1. IInv /\ Grows
  BY NextGrows DEF PInv, VInv, XInv, IInv
<1>2. call[c].to \in Agent /\ UNCHANGED token
  BY <1>1, CallTyped DEF RefuseReplay, Received, IInv, Posted
<1>3. PICK row: Journal(call[c].to, row) /\ row.event.type = "delegation.replay_attempt"
  <2>1. PICK e: e = [type |-> "delegation.replay_attempt", src |-> c,
                     jti |-> call[c].jti, delegator |-> TokenOf(c).iss,
                     delegatee |-> call[c].to, scope |-> {}]
    OBVIOUS
  <2>2. SelfRow(call[c].to, e).event = e
    BY DEF SelfRow
  <2>3. QED
    BY <2>1, <2>2 DEF RefuseReplay
<1>4. \A x \in Agent, k \in Jti: About(x, k)' = About(x, k)
  BY <1>1, <1>2, <1>3, WrittenAbout DEF Step, Completion
<1>5. QED
  BY <1>1, <1>2, <1>4, Untouched

(* Every step of the flow is a step of the protocol for one token, or none. *)
LEMMA NextProtocol == PInv /\ [Next]_vars => [CS!Next]_(CS!vars)
<1> SUFFICES ASSUME PInv, [Next]_vars PROVE CS!Next \/ UNCHANGED CS!vars
  OBVIOUS
<1>1. ASSUME \A k \in Jti: Same(k)
      PROVE  UNCHANGED CS!vars
  BY <1>1 DEF Same, CS!vars
<1>2. CASE UNCHANGED <<log, token>>
  <2>1. IInv /\ Grows
    BY NextGrows DEF PInv, VInv, XInv, IInv
  <2>2. \A a \in Agent: \A k: About(a, k)' = About(a, k)
    BY <1>2 DEF About
  <2>3. QED
    BY <1>1, <1>2, <2>1, <2>2, Untouched
<1>3. ASSUME NEW a \in Agent, NEW b \in Agent, NEW j \in Jti, NEW scope \in ScopeSet,
             NEW ttl \in 1..MaxTTL, Issue(a, b, j, scope, ttl)
      PROVE  CS!Next
  BY <1>3, IssueMoves DEF CS!Next
<1>4. ASSUME NEW c \in Call, RefuseReplay(c)
      PROVE  UNCHANGED CS!vars
  BY <1>1, <1>4, ReplayStutters
<1>5. ASSUME NEW c \in Call, c \in DOMAIN call PROVE call[c].jti \in Jti
  BY <1>5, CallTyped DEF PInv, VInv, XInv, IInv
<1>6. ASSUME NEW c \in Call, Accept(c)
      PROVE  CS!Next
  <2>1. c \in DOMAIN call
    BY <1>6 DEF Accept, Received, PInv, VInv, XInv, IInv, Posted
  <2>2. QED
    BY <1>5, <1>6, <2>1, AcceptMoves DEF CS!Next
<1>7. ASSUME NEW c \in Call, NEW type \in Completion, Finish(c, type)
      PROVE  CS!Next
  <2>1. c \in DOMAIN call
    BY <1>7 DEF Finish, Ran, PInv, VInv, XInv, IInv, Posted
  <2>2. QED
    BY <1>5, <1>7, <2>1, FinishMoves DEF CS!Next
<1>8. ASSUME NEW c \in Call, NEW m \in msgs, Dispute(m, c) \/ Agree(m, c)
      PROVE  CS!Next
  <2>1. c \in DOMAIN call
    BY <1>8 DEF Dispute, Agree, Answered, PInv, VInv, XInv, IInv, Posted
  <2>2. QED
    BY <1>5, <1>8, <2>1, DisputeMoves, AgreeMoves DEF CS!Next
<1>9. ASSUME NEW m \in msgs, Close(m)
      PROVE  CS!Next
  BY <1>9, CloseMoves DEF CS!Next
<1>10. QED
  BY <1>2, <1>3, <1>4, <1>6, <1>7, <1>8, <1>9, LogSteps DEF PInv, VInv, XInv

(* Nothing is on record at first. *)
LEMMA InitPInv == Init => PInv
BY InitVInv DEF Init, PInv, RowsFit, NeverBoth, Done

(* Whatever is lost, replayed or restarted: the two logs of a delegation go through
   the cross-sign protocol in its order, and never hold both an agreement and a dispute. *)
THEOREM ProtocolFollowed == Spec => CrossSignSpec
<1>1. Init => CS!Init
  BY Reading DEF Init, Readings, CS!Init
<1>2. QED
  BY <1>1, InitPInv, NextPInv, NextProtocol, PTL DEF Spec, CrossSignSpec, CS!Spec

--------------------------------------------------------------------------------
(* Nobody has a key but the first. *)
FirstKeys ==
  /\ \A a \in Agent: key[a] = 1 /\ manifest[a].key \in {NoKey, 1}
  /\ \A a, b \in Agent: peers[a][b].key \in {NoKey, 1}

(* Who has executed for an agent has it registered. *)
CallerKnown == \A c \in Call: Ran(c) => Known(call[c].to, Caller(c))

(* There is one countersignature for a call, and the row it is for is still open. *)
PushWelcome ==
  \A m \in msgs: m.type = "cosign" =>
    /\ m.sig.key = 1
    /\ \A n \in msgs: n.type = "cosign" /\ n.call = m.call => n = m
    /\ \A r \in Done(call[m.call].to): r.event.src = m.call => r.pending

(* It is answered when the row is closed. *)
AckClosed == \A m \in msgs: m.type = "ack" => ClosedAt(call[m.call].to, m.call)

(* What the delegator agreed to is closed in its log; what its client has returned
   from after a push, in the delegatee's too. *)
Outcomes ==
  \A c \in Call: client[c] \in {"pushing", "agreed"} =>
    /\ c \in DOMAIN call
    /\ ClosedAt(Caller(c), c)
    /\ client[c] = "agreed" /\ call[c].req.cosign => ClosedAt(call[c].to, c)

Reliable == FirstKeys /\ CallerKnown /\ PushWelcome /\ AckClosed /\ Outcomes

RInv == VInv /\ (~Faults => Reliable)
--------------------------------------------------------------------------------
(* No step opens what was closed. *)
LEMMA NextClosedKept ==
  ASSUME VInv, [Next]_vars
  PROVE  ClosedKept
<1>1. CASE Aside
  BY <1>1, JournalClosedKept DEF Aside, VInv, XInv
<1>2. ASSUME NEW c \in Call, NEW type \in Completion, Finish(c, type)
      PROVE  ClosedKept
  <2>1. call[c].to \in Agent
    BY <1>2, CallTyped DEF Finish, Ran, VInv, XInv, IInv, Posted
  <2>2. QED
    BY <1>2, <2>1, JournalClosedKept DEF Finish, AppendPending, VInv, XInv
<1>3. ASSUME NEW c \in Call, NEW m \in msgs, Agree(m, c)
      PROVE  ClosedKept
  <2>1. Caller(c) \in Agent
    BY <1>3, MessageFields DEF Agree, Answered, VInv
  <2>2. QED
    BY <1>3, <2>1, JournalClosedKept DEF Agree, VInv, XInv
<1>4. ASSUME NEW m \in msgs, Close(m)
      PROVE  ClosedKept
  <2>1. m.call \in DOMAIN call
    BY DEF VInv, XInv, IInv, Posted
  <2>2. PICK b \in Agent: b = call[m.call].to
    BY <2>1, CallTyped DEF VInv, XInv, IInv
  <2>3. PICK r \in log[b]:
          /\ r.pending
          /\ log' = [log EXCEPT ![b] = (@ \ {r}) \cup
               {[event |-> r.event, sigs |-> Countersigned(r, m.sig), pending |-> FALSE]}]
    BY <1>4, <2>2 DEF Close, Closable
  <2>4. QED
    BY <2>3 DEF ClosedKept, VInv, XInv, IInv, TypeOK
<1>5. QED
  BY <1>1, <1>2, <1>3, <1>4, StepKinds DEF VInv, XInv

(* What a call was made with, and where it is closed, stays. *)
LEMMA CallKept ==
  ASSUME VInv, [Next]_vars, NEW c \in DOMAIN call
  PROVE  /\ c \in DOMAIN call' /\ call'[c] = call[c] /\ Caller(c)' = Caller(c)
         /\ Caller(c) \in Agent /\ call[c].to \in Agent
         /\ \A a \in Agent: ClosedAt(a, c) => ClosedAt(a, c)'
<1>1. Grows
  BY NextGrows DEF VInv, XInv, IInv
<1>2. /\ c \in DOMAIN call' /\ call'[c] = call[c] /\ Caller(c)' = Caller(c)
      /\ Caller(c) \in Agent /\ call[c].to \in Agent
  BY <1>1, CallTyped DEF Grows, VInv, XInv, IInv, Posted, Caller, TokenOf
<1>3. \A a \in Agent: ClosedAt(a, c) => ClosedAt(a, c)'
  BY NextClosedKept DEF ClosedKept, ClosedAt
<1>4. QED
  BY <1>2, <1>3

(* Without faults, nobody restarts. *)
LEMMA NextFirstKeys ==
  ASSUME VInv, ~Faults, FirstKeys, [Next]_vars
  PROVE  FirstKeys' /\ \A a, b \in Agent: Known(a, b) => Known(a, b)'
<1>1. CASE UNCHANGED <<key, manifest, peers>>
  BY <1>1 DEF FirstKeys, Known
<1>2. ASSUME NEW a \in Agent, NEW caps \in CapSet, Publish(a, caps)
      PROVE  FirstKeys' /\ \A x, y \in Agent: Known(x, y) => Known(x, y)'
  BY <1>2 DEF Publish, FirstKeys, Known, VInv, XInv, IInv, TypeOK
<1>3. ASSUME NEW a \in Agent, NEW b \in Agent, RegisterPeer(a, b)
      PROVE  FirstKeys' /\ \A x, y \in Agent: Known(x, y) => Known(x, y)'
  <2>1. UNCHANGED <<key, manifest>>
    BY <1>3 DEF RegisterPeer
  <2>2. \A x, y \in Agent: peers'[x][y] = IF x = a /\ y = b THEN manifest[b] ELSE peers[x][y]
    BY <1>3 DEF RegisterPeer, VInv, XInv, IInv, TypeOK
  <2>3. manifest[b].key = 1
    BY <1>3 DEF RegisterPeer, FirstKeys
  <2>4. QED
    BY <2>1, <2>2, <2>3 DEF FirstKeys, Known, NoKey
<1>4. CASE (\E a \in Agent: Tick(a)) \/ UNCHANGED vars \/ Delegate
  BY <1>1, <1>4 DEF Tick, vars, agentVars, Delegate, Issue, Post
<1>5. ASSUME NEW c \in Call, Serve(c) \/ Complete(c) \/ Deliver(c) \/ Receive(c)
      PROVE  UNCHANGED <<key, manifest, peers>>
  BY <1>5 DEF Serve, Refuse, RefuseReplay, Accept, JournalFails, Complete, Finish,
    FinishUnlogged, Deliver, Close, RejectCosign, Receive, ReceiveError, UnknownPeer,
    Dispute, Mismatch, Agree, RecordFails, ReceiveAck, agentVars
<1>6. QED
  BY <1>1, <1>2, <1>3, <1>4, <1>5 DEF Next, Setup, Restart, Timeout, Lose

(* A server never forgets whom it has worked for. *)
LEMMA NextCallerKnown ==
  ASSUME VInv, ~Faults, FirstKeys, CallerKnown, [Next]_vars
  PROVE  CallerKnown'
<1>1. SUFFICES ASSUME NEW c \in Call, Ran(c)' PROVE Known(call[c].to, Caller(c))'
  BY DEF CallerKnown
<1>2. c \in DOMAIN call
  <2>1. Accept(c) => c \in DOMAIN call
    BY DEF Accept, Received, VInv, XInv, IInv, Posted
  <2>2. QED
    BY <1>1, <2>1, RanByAccept DEF VInv, XInv, IInv, Posted
<1>3. /\ call'[c] = call[c] /\ Caller(c)' = Caller(c)
      /\ Caller(c) \in Agent /\ call[c].to \in Agent
  BY <1>2, CallKept
<1>4. Known(call[c].to, Caller(c))
  <2>1. CASE Ran(c)
    BY <2>1 DEF CallerKnown
  <2>2. CASE ~Ran(c)
    <3>1. Accept(c)
      BY <1>1, <2>2, RanByAccept DEF VInv, XInv, IInv
    <3>2. QED
      BY <3>1 DEF Accept, Acceptable, Caller
  <2>3. QED
    BY <2>1, <2>2
<1>5. PICK a, b \in Agent: a = call[c].to /\ b = Caller(c)
  BY <1>3
<1>6. Known(a, b)'
  BY <1>3, <1>4, <1>5, NextFirstKeys
<1>7. QED
  BY <1>3, <1>5, <1>6 DEF Known

(* A countersignature is never turned down. *)
LEMMA NoneRejected ==
  ASSUME VInv, FirstKeys, CallerKnown, PushWelcome, NEW m \in msgs
  PROVE  ~RejectCosign(m)
<1>1. SUFFICES ASSUME m.type = "cosign"
               PROVE  \E r \in log[call[m.call].to]: Closable(m, call[m.call].to, r)
  BY DEF RejectCosign
<1>2. PICK b, a: b = call[m.call].to /\ a = Caller(m.call)
  OBVIOUS
<1>3. /\ m.call \in Call /\ m.event.src = m.call /\ a \in Agent /\ b \in Agent
      /\ m.event.delegatee = b /\ m.sig.by = a /\ Known(b, a)
      /\ \E s \in Done(b): s.event = m.event
  BY <1>1, <1>2, MessageFields DEF VInv, XInv, Messages, MessageFits, Once, Ran, CallerKnown
<1>4. m.sig = [by |-> a, key |-> peers[b][a].key]
  <2>1. m.sig \in Sig
    BY <1>1 DEF VInv, XInv, IInv, TypeOK, Message
  <2>2. m.sig.key = 1 /\ peers[b][a].key = 1
    BY <1>1, <1>3 DEF PushWelcome, FirstKeys, Known
  <2>3. QED
    BY <1>3, <2>1, <2>2 DEF Sig
<1>5. PICK s \in Done(b): s.event = m.event
  BY <1>3
<1>6. s.pending
  BY <1>1, <1>2, <1>3, <1>5 DEF PushWelcome
<1>7. QED
  BY <1>2, <1>3, <1>4, <1>5, <1>6 DEF Closable, VerifiedBy, Done

(* The push goes to a row that is still open; closing it uses the push up. *)
LEMMA NextPushWelcome ==
  ASSUME VInv, FirstKeys, PushWelcome, [Next]_vars
  PROVE  PushWelcome'
<1>1. /\ \A m \in msgs: m.type = "cosign" => m.call \in DOMAIN call /\ m.call \in Call
      /\ \A c \in DOMAIN call: call'[c] = call[c] /\ call[c].to \in Agent
  BY CallKept, MessageFields DEF VInv, XInv, IInv, Posted
(* What the proof says of each kind of step: no push for a call that has one, and no
   closed row for a call with a push. *)
<1>2. ASSUME \A n \in msgs': n.type = "cosign" => n \in msgs,
             \A n \in msgs': n.type = "cosign" =>
               \A a \in Agent: \A r \in Done(a)':
                 r.event.src = n.call => r \in Done(a) \/ r.pending
      PROVE  PushWelcome'
  BY <1>1, <1>2 DEF PushWelcome
<1>3. CASE Aside
  <2>1. \A a \in Agent: \A r \in Done(a)': r \in Done(a)
    <3>1. CASE UNCHANGED log
      BY <3>1 DEF Done
    <3>2. ASSUME NEW b \in Agent, NEW e, e.type \notin Completion, Journal(b, SelfRow(b, e))
          PROVE  \A a \in Agent: \A r \in Done(a)': r \in Done(a)
      <4>1. PICK row: Journal(b, row) /\ row.event = e
        BY <3>2 DEF SelfRow
      <4>2. QED
        BY <3>2, <4>1 DEF Done, Journal, VInv, XInv, IInv, TypeOK
    <3>3. QED
      BY <1>3, <3>1, <3>2 DEF Aside
  <2>2. QED
    BY <1>2, <1>3, <2>1 DEF Aside
<1>4. ASSUME NEW c \in Call, NEW type \in Completion, Finish(c, type)
      PROVE  PushWelcome'
  <2>1. PICK b, e, sig: b = call[c].to /\ e = CompletionOf(c, type) /\ sig = Mine(b)
    OBVIOUS
  <2>2. PICK row: Journal(b, row) /\ row.pending
    BY <1>4, <2>1 DEF Finish, AppendPending
  <2>3. \A a \in Agent: \A r \in Done(a)': r \in Done(a) \/ r.pending
    BY <2>2 DEF Done, Journal, VInv, XInv, IInv, TypeOK
  <2>4. \A n \in msgs': n \in msgs \/ n.type = "outcome"
    BY <1>4 DEF Finish
  <2>5. QED
    BY <1>2, <2>3, <2>4
<1>5. ASSUME NEW c \in Call, NEW m \in msgs, Agree(m, c)
      PROVE  PushWelcome'
  <2>1. /\ m.call = c /\ m.type = "outcome" /\ m.event.src = c /\ m.event.type \in Completion
        /\ m.event.delegator = Caller(c) /\ m.event.delegatee = call[c].to
        /\ Caller(c) \in Agent /\ call[c].to \in Agent /\ c \in DOMAIN call
        /\ \E s \in Done(call[c].to): s.event = m.event
    BY <1>5, MessageFields DEF Agree, Answered, VInv, XInv, IInv, Posted
  <2>2. PICK a, b, e, sig: a = Caller(c) /\ b = call[c].to /\ e = m.event /\ sig = Mine(a)
    OBVIOUS
  <2>3. a # b
    BY <1>5, <2>1, <2>2 DEF Agree, Free, Done
  <2> DEFINE push == [type |-> "cosign", call |-> c, event |-> e, sig |-> sig]
  <2>4. \A n \in msgs': (n \in msgs /\ n # m) \/ n = push
    BY <1>5, <2>2 DEF Agree, Pushed
  <2>5. push.call = c /\ push.sig = sig
    OBVIOUS
  <2> HIDE DEF push
  <2>6. sig.key = 1
    BY <2>1, <2>2 DEF Mine, FirstKeys
  <2>7. \A n \in msgs: n.type = "cosign" => n.call # c
    BY <2>1 DEF VInv, AnswerFits
  <2>8. PICK row: Journal(a, row) /\ row.event = e
    BY <1>5, <2>2 DEF Agree
  <2>9. \A x \in Agent: \A r \in Done(x)': r \in Done(x) \/ (x = a /\ r.event.src = c)
    BY <2>1, <2>2, <2>8 DEF Done, Journal, VInv, XInv, IInv, TypeOK
  <2>10. \A r \in Done(b): r.event.src = c => r.pending
    BY <2>1, <2>2 DEF VInv, AnswerFits
  <2>11. SUFFICES ASSUME NEW n \in msgs', n.type = "cosign"
                  PROVE  /\ n.sig.key = 1
                         /\ \A k \in msgs': k.type = "cosign" /\ k.call = n.call => k = n
                         /\ \A x: x = call'[n.call].to =>
                              \A r \in Done(x)': r.event.src = n.call => r.pending
    BY DEF PushWelcome
  <2>12. CASE n = push
    <3>1. call'[n.call].to = b
      BY <1>1, <2>1, <2>2, <2>5, <2>12
    <3>2. \A r \in Done(b)': r.event.src = c => r.pending
      BY <2>1, <2>2, <2>3, <2>9, <2>10
    <3>3. QED
      BY <2>4, <2>5, <2>6, <2>7, <2>12, <3>1, <3>2
  <2>13. CASE n \in msgs /\ n # push
    <3>1. n.call # c /\ n.call \in DOMAIN call /\ call'[n.call].to = call[n.call].to
          /\ call[n.call].to \in Agent
      BY <1>1, <2>7, <2>11, <2>13
    <3>2. n.sig.key = 1 /\ \A k \in msgs': k.type = "cosign" /\ k.call = n.call => k = n
      BY <2>4, <2>5, <2>11, <2>13, <3>1 DEF PushWelcome
    <3>3. \A r \in Done(call[n.call].to)': r.event.src = n.call => r.pending
      BY <2>9, <2>11, <2>13, <3>1 DEF PushWelcome
    <3>4. QED
      BY <3>1, <3>2, <3>3
  <2>14. QED
    BY <2>4, <2>11, <2>12, <2>13
<1>6. ASSUME NEW m \in msgs, Close(m)
      PROVE  PushWelcome'
  <2>1. m.type = "cosign" /\ m.event.src = m.call
    BY <1>6, MessageFields DEF Close, VInv
  <2>2. \A n \in msgs': n.type = "cosign" => n \in msgs /\ n.call # m.call
    BY <1>6, <2>1 DEF Close, Ack, PushWelcome
  <2> DEFINE b == call[m.call].to
  <2>3. PICK r \in log[b]:
          /\ r.event.src = m.call
          /\ log' = [log EXCEPT ![b] = (@ \ {r}) \cup
               {[event |-> r.event, sigs |-> Countersigned(r, m.sig), pending |-> FALSE]}]
    <3>1. PICK r \in log[b]:
            /\ Closable(m, b, r)
            /\ log' = [log EXCEPT ![b] = (@ \ {r}) \cup
                 {[event |-> r.event, sigs |-> Countersigned(r, m.sig), pending |-> FALSE]}]
      BY <1>6 DEF Close
    <3>2. r.event.src = m.call
      BY <2>1, <3>1 DEF Closable
    <3>3. QED
      BY <3>1, <3>2
  <2>4. \A a \in Agent: \A q \in Done(a)': q \in Done(a) \/ q.event.src = m.call
    BY <2>3 DEF Done, VInv, XInv, IInv, TypeOK
  <2>5. QED
    BY <1>2, <2>2, <2>4
<1>7. QED
  BY <1>3, <1>4, <1>5, <1>6, StepKinds DEF VInv, XInv

(* Only a closed row is answered for. *)
LEMMA NextAckClosed ==
  ASSUME VInv, ~Faults, FirstKeys, CallerKnown, PushWelcome, AckClosed, [Next]_vars
  PROVE  AckClosed'
<1>1. ASSUME \A n \in msgs': n.type = "ack" => n \in msgs
      PROVE  AckClosed'
  BY <1>1, CallKept DEF AckClosed, VInv, XInv, IInv, Posted
<1>2. ASSUME NEW m \in msgs, Close(m)
      PROVE  AckClosed'
  <2>1. m.call \in DOMAIN call /\ m.event.type \in Completion /\ m.event.src = m.call
    BY <1>2, MessageFields DEF Close, VInv, XInv, IInv, Posted
  <2>2. PICK b \in Agent: b = call[m.call].to
    BY <2>1, CallKept
  <2>3. PICK r \in log[b]:
          /\ r.event.type \in Completion /\ r.event.src = m.call
          /\ log' = [log EXCEPT ![b] = (@ \ {r}) \cup
               {[event |-> r.event, sigs |-> Countersigned(r, m.sig), pending |-> FALSE]}]
    <3>1. PICK r \in log[b]:
            /\ Closable(m, b, r)
            /\ log' = [log EXCEPT ![b] = (@ \ {r}) \cup
                 {[event |-> r.event, sigs |-> Countersigned(r, m.sig), pending |-> FALSE]}]
      BY <1>2, <2>2 DEF Close
    <3>2. r.event.type \in Completion /\ r.event.src = m.call
      BY <2>1, <3>1 DEF Closable
    <3>3. QED
      BY <3>1, <3>2
  <2>4. ClosedAt(b, m.call)'
    <3> DEFINE row == [event |-> r.event, sigs |-> Countersigned(r, m.sig), pending |-> FALSE]
    <3>1. row.event = r.event /\ ~row.pending /\ row \in log'[b]
      BY <2>3 DEF VInv, XInv, IInv, TypeOK
    <3> HIDE DEF row
    <3>2. QED
      BY <2>3, <3>1 DEF ClosedAt
  <2>5. call'[m.call].to = b
    BY <2>1, <2>2, CallKept
  <2>6. \A n \in msgs': n.type = "ack" => n \in msgs \/ n.call = m.call
    BY <1>2 DEF Close, Ack
  <2>7. \A n \in msgs: n.type = "ack" => ClosedAt(call[n.call].to, n.call)'
    BY CallKept DEF AckClosed, VInv, XInv, IInv, Posted
  <2>8. QED
    BY <2>4, <2>5, <2>6, <2>7 DEF AckClosed
<1>3. ASSUME NEW c \in Call, Serve(c) \/ Complete(c)
      PROVE  AckClosed'
  <2>1. \A n \in msgs': n.type = "ack" => n \in msgs
    BY <1>3 DEF Serve, Refuse, RefuseReplay, Accept, JournalFails, Refused, ErrorReply,
      Complete, Finish, FinishUnlogged
  <2>2. QED
    BY <1>1, <2>1
<1>4. ASSUME NEW c \in Call, Receive(c)
      PROVE  AckClosed'
  <2>1. \A n \in msgs': n.type = "ack" => n \in msgs
    BY <1>4 DEF Receive, ReceiveError, UnknownPeer, Dispute, Mismatch, Agree, Pushed,
      RecordFails, ReceiveAck
  <2>2. QED
    BY <1>1, <2>1
<1>5. CASE Delegate \/ (\E a \in Agent: Setup(a)) \/ UNCHANGED vars
  <2>1. ASSUME NEW c \in Call, NEW j \in Jti, NEW to \in Agent, NEW req \in Request,
               Post(c, j, to, req)
        PROVE  \A n \in msgs': n.type = "ack" => n \in msgs
    BY <2>1 DEF Post
  <2>2. CASE \/ \E a, b \in Agent, j \in Jti, scope \in ScopeSet, ttl \in 1..MaxTTL:
                  Issue(a, b, j, scope, ttl)
             \/ \E a \in Agent: Setup(a)
             \/ UNCHANGED vars
    BY <1>1, <2>2 DEF Issue, Setup, Tick, Publish, RegisterPeer, Restart, vars, callVars
  <2>3. QED
    BY <1>1, <1>5, <2>1, <2>2 DEF Delegate
<1>6. QED
  BY <1>2, <1>3, <1>4, <1>5, NoneRejected DEF Next, Deliver, Timeout, Lose

(* Without faults, a client pushes after it has agreed, and returns after the answer. *)
LEMMA ClientBy ==
  ASSUME VInv, ~Faults, [Next]_vars, NEW c \in Call, client'[c] \in {"pushing", "agreed"},
         client'[c] # client[c]
  PROVE  \E m \in msgs: Agree(m, c) \/ (ReceiveAck(m, c) /\ client'[c] = "agreed")
<1>1. ASSUME NEW d \in Call, NEW m \in msgs, Agree(m, d)
      PROVE  Agree(m, c)
  BY <1>1 DEF Agree, VInv, XInv, IInv, TypeOK
<1>2. ASSUME NEW d \in Call, NEW m \in msgs, ReceiveAck(m, d)
      PROVE  ReceiveAck(m, c) /\ client'[c] = "agreed"
  BY <1>2 DEF ReceiveAck, VInv, XInv, IInv, TypeOK
<1>3. ASSUME NEW d \in Call, NEW m \in msgs,
             \/ ReceiveError(m, d) \/ UnknownPeer(m, d) \/ Dispute(m, d) \/ Mismatch(m, d)
             \/ RecordFails(m, d)
      PROVE  FALSE
  BY <1>3 DEF ReceiveError, UnknownPeer, Dispute, Mismatch, RecordFails, VInv, XInv, IInv,
    TypeOK
<1>4. ASSUME NEW d \in Call, Serve(d) \/ Complete(d) \/ Deliver(d)
      PROVE  FALSE
  BY <1>4 DEF Serve, Refuse, RefuseReplay, Accept, JournalFails, Complete, Finish,
    FinishUnlogged, Deliver, Close, RejectCosign
<1>5. ~Delegate
  BY DEF Delegate, Issue, Post, callVars, VInv, XInv, IInv, TypeOK
<1>6. ~(\E a \in Agent: Setup(a)) /\ ~UNCHANGED vars
  BY DEF Setup, Tick, Publish, RegisterPeer, Restart, callVars, vars
<1>7. ASSUME NEW d \in Call, Receive(d)
      PROVE  \E m \in msgs: Agree(m, c) \/ (ReceiveAck(m, c) /\ client'[c] = "agreed")
  BY <1>1, <1>2, <1>3, <1>7 DEF Receive
<1>8. ASSUME NEW d \in Call PROVE ~Serve(d) /\ ~Complete(d) /\ ~Deliver(d)
  BY <1>4
<1>9. QED
  BY <1>5, <1>6, <1>7, <1>8 DEF Next, Timeout, Lose

(* A client moves on only when what it rests on is closed, and that stays closed. *)
LEMMA NextOutcomes ==
  ASSUME VInv, ~Faults, AckClosed, Outcomes, [Next]_vars
  PROVE  Outcomes'
<1>1. SUFFICES ASSUME NEW c \in Call, client'[c] \in {"pushing", "agreed"}
               PROVE  /\ c \in DOMAIN call'
                      /\ ClosedAt(Caller(c), c)'
                      /\ client'[c] = "agreed" /\ call'[c].req.cosign
                           => ClosedAt(call[c].to, c)'
  BY DEF Outcomes
<1>2. CASE client'[c] = client[c]
  <2>1. /\ c \in DOMAIN call /\ ClosedAt(Caller(c), c)
        /\ client[c] = "agreed" /\ call[c].req.cosign => ClosedAt(call[c].to, c)
    BY <1>1, <1>2 DEF Outcomes
  <2>2. PICK a, b \in Agent: a = Caller(c) /\ b = call[c].to
    BY <2>1, CallKept
  <2>3. /\ call'[c] = call[c] /\ Caller(c)' = a /\ c \in DOMAIN call'
        /\ ClosedAt(a, c)' /\ (ClosedAt(b, c) => ClosedAt(b, c)')
    BY <2>1, <2>2, CallKept
  <2>4. QED
    BY <1>2, <2>1, <2>2, <2>3 DEF ClosedAt
<1>3. ASSUME NEW m \in msgs, Agree(m, c)
      PROVE  /\ c \in DOMAIN call'
             /\ ClosedAt(Caller(c), c)'
             /\ ~(client'[c] = "agreed" /\ call'[c].req.cosign)
  <2>1. /\ m.call = c /\ m.event.type \in Completion /\ m.event.src = c
        /\ c \in DOMAIN call
    BY <1>3, MessageFields DEF Agree, Answered, VInv, XInv, IInv, Posted
  <2>2. PICK a, sig: a = Caller(c) /\ a \in Agent /\ sig = Mine(a)
    BY <2>1, CallKept
  <2>3. PICK row: Journal(a, row) /\ row.event = m.event /\ ~row.pending
    BY <1>3, <2>2 DEF Agree
  <2>4. ClosedAt(a, c)'
    BY <2>1, <2>2, <2>3 DEF Journal, ClosedAt, VInv, XInv, IInv, TypeOK
  <2>5. Caller(c)' = a /\ c \in DOMAIN call' /\ call'[c] = call[c]
    BY <2>1, <2>2, CallKept
  <2>6. ~(client'[c] = "agreed" /\ call'[c].req.cosign)
    BY <1>3, <2>5 DEF Agree, AfterRecord, VInv, XInv, IInv, TypeOK
  <2>7. QED
    BY <2>4, <2>5, <2>6 DEF ClosedAt
<1>4. ASSUME NEW m \in msgs, ReceiveAck(m, c)
      PROVE  /\ c \in DOMAIN call'
             /\ ClosedAt(Caller(c), c)' /\ ClosedAt(call[c].to, c)'
  <2>1. m.type = "ack" /\ m.call = c /\ client[c] = "pushing"
    BY <1>4 DEF ReceiveAck
  <2>2. c \in DOMAIN call /\ ClosedAt(Caller(c), c) /\ ClosedAt(call[c].to, c)
    BY <2>1 DEF Outcomes, AckClosed
  <2>3. PICK a, b \in Agent: a = Caller(c) /\ b = call[c].to
    BY <2>2, CallKept
  <2>4. /\ call'[c] = call[c] /\ Caller(c)' = a /\ c \in DOMAIN call'
        /\ ClosedAt(a, c)' /\ ClosedAt(b, c)'
    BY <2>2, <2>3, CallKept
  <2>5. QED
    BY <2>3, <2>4 DEF ClosedAt
<1>5. QED
  BY <1>1, <1>2, <1>3, <1>4, ClientBy

(* The invariant is inductive. *)
LEMMA NextRInv == RInv /\ [Next]_vars => RInv'
BY NextVInv, NextFirstKeys, NextCallerKnown, NextPushWelcome, NextAckClosed, NextOutcomes
DEF RInv, Reliable

(* Nobody has asked for anything at first. *)
LEMMA InitReliable == Init => Reliable
BY DEF Init, Reliable, FirstKeys, CallerKnown, PushWelcome, AckClosed, Outcomes, NoRecord,
  NoKey, Ran

(* For any number of agents and invocations at a time: when nothing fails, an invocation
   that asked for the countersignature returns with the completion closed in both logs. *)
THEOREM ClosedOnReturn == Spec => []ReturnedClosed
<1>1. Init => RInv
  BY InitVInv, InitReliable DEF RInv
<1>2. RInv => ReturnedClosed
  BY DEF RInv, Reliable, Outcomes, ReturnedClosed
<1>3. QED
  BY <1>1, <1>2, NextRInv, PTL DEF Spec
================================================================================
