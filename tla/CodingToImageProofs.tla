-------------------------- MODULE CodingToImageProofs --------------------------
(***************************************************************************)
(* The assertions of the demo script, from what holds of any invocation    *)
(* that returns while nothing fails; for any capabilities, handlers and    *)
(* ttl, however the server's thread and the script take turns.             *)
(***************************************************************************)
EXTENDS CodingToImage, ProtocolProofs, FiniteSetTheorems

(* Every signature was made with its signer's first key. *)
FirstSigs ==
  /\ \A a \in Agent: \A r \in log[a]: \A s \in r.sigs: s.key = 1
  /\ \A m \in msgs: m.type \in {"outcome", "cosign"} => m.sig.key = 1

(* The agents live on one host. *)
OneHost == \A a \in Agent: clock[a] = clock[coding]

(* Where the script is: the token is issued, the call made, and agreed on. *)
Called == {"await", "check_a", "poll", "check_b", "verify", "done"}

Progress ==
  /\ step \in Called \cup {"invoke"} =>
       j \in DOMAIN token /\ token[j].iss = coding /\ token[j].sub = image
  /\ step \in Called =>
       c \in DOMAIN call /\ call[c] = [jti |-> j, to |-> image, req |-> req]
  /\ step \in Called \ {"await"} => client[c] = "agreed"

SInv ==
  /\ RInv /\ FirstSigs
  /\ DemoTypeOK /\ AssertionsHold
  /\ OneHost /\ Progress
--------------------------------------------------------------------------------
(* A step of the script or the server is one of the flow, unless the clocks tick. *)
LEMMA DemoSteps ==
  ASSUME [DemoNext]_demoVars
  PROVE  [Next]_vars \/ OneHostTick
<1>1. coding \in Agent /\ image \in Agent
  BY AgentsAssumption
<1>2. CASE Bootstrap
  <2>1. Setup(coding) \/ Setup(image)
    BY <1>1, <1>2, ScriptAssumption DEF Bootstrap, Setup
  <2>2. QED
    BY <1>1, <2>1 DEF Next
<1>3. CASE Invoke
  <2>1. MaxTTL \in 1..MaxTTL
    BY ScriptAssumption, BoundsAssumption
  <2>2. Delegate \/ UNCHANGED vars
    BY <1>1, <1>3, <2>1, ScriptAssumption DEF Invoke, Delegate
  <2>3. QED
    BY <2>2 DEF Next
<1>4. CASE Flow
  BY <1>4, ScriptAssumption DEF Flow, Next
<1>5. CASE \/ AwaitServer \/ Returned \/ CheckDelegator \/ AwaitPush \/ CheckDelegatee
           \/ CrossCheck \/ ServerStarts \/ UNCHANGED demoVars
  <2>1. UNCHANGED vars
    BY <1>5 DEF AwaitServer, Returned, CheckDelegator, AwaitPush, CheckDelegatee, CrossCheck,
      Check, ServerStarts, demoVars
  <2>2. QED
    BY <2>1
<1>6. QED
  BY <1>2, <1>3, <1>4, <1>5 DEF DemoNext, Script

(* A tick on all hosts at once: the agents' clocks are all that changes. *)
LEMMA TickRInv ==
  ASSUME SInv, OneHostTick
  PROVE  RInv' /\ FirstSigs' /\ OneHost'
<1>1. /\ clock[coding] \in 0..MaxTime /\ clock[coding] < MaxTime
      /\ clock' = [a \in Agent |-> clock[coding] + 1]
  <2>1. coding \in Agent /\ clock \in [Agent -> 0..MaxTime]
    BY AgentsAssumption DEF SInv, DemoTypeOK, TypeOK
  <2>2. \A a \in Agent: clock[a] + 1 = clock[coding] + 1
    BY DEF SInv, OneHost
  <2>3. QED
    BY <2>1, <2>2 DEF OneHostTick
<1>2. UNCHANGED <<key, manifest, peers, restarts, token, log, call, client, server, msgs>>
  BY DEF OneHostTick, callVars
<1>3. TypeOK'
  BY <1>1, <1>2, BoundsAssumption DEF SInv, DemoTypeOK, TypeOK
<1>4. IInv'
  BY <1>2, <1>3 DEF SInv, RInv, VInv, XInv, IInv, KeysCounted, Posted, RanStarted, AtMostOnce,
    StartedAt, Ran, TokenOf
<1>5. XInv'
  BY <1>2, <1>4 DEF SInv, RInv, VInv, XInv, Entries, Messages, EntryFits, MessageFits, Both,
    CompletionOf, Caller, TokenOf
<1>6. VInv'
  BY <1>2, <1>5 DEF SInv, RInv, VInv, OneOther, OneRow, Once, AnswerFits, PushFits, OneVerdict,
    Other, Done, Spent, Ran, Received
<1>7. Reliable'
  BY <1>2, ScriptAssumption DEF SInv, RInv, Reliable, FirstKeys, CallerKnown, PushWelcome,
    AckClosed, Outcomes, Known, Ran, Caller, TokenOf, Done, ClosedAt
<1>8. FirstSigs' /\ OneHost'
  BY <1>1, <1>2, AgentsAssumption DEF SInv, FirstSigs, OneHost
<1>9. QED
  BY <1>6, <1>7, <1>8 DEF RInv

(* Without faults nobody ever signs with another key. *)
LEMMA NextFirstSigs ==
  ASSUME RInv, FirstSigs, [Next]_vars
  PROVE  FirstSigs'
<1>1. /\ TypeOK /\ IInv /\ XInv /\ VInv
      /\ \A a \in Agent: Mine(a).key = 1
  BY ScriptAssumption DEF RInv, VInv, XInv, IInv, Reliable, FirstKeys, Mine
<1>2. ASSUME NEW a \in Agent, NEW row, Journal(a, row), \A s \in row.sigs: s.key = 1
      PROVE  \A b \in Agent: \A r \in log'[b]: \A s \in r.sigs: s.key = 1
  BY <1>1, <1>2 DEF Journal, FirstSigs, TypeOK
<1>3. CASE Aside
  <2>1. \A m \in msgs': m.type \in {"outcome", "cosign"} => m.sig.key = 1
    BY <1>3 DEF Aside, FirstSigs
  <2>2. CASE UNCHANGED log
    BY <2>1, <2>2 DEF FirstSigs
  <2>3. ASSUME NEW b \in Agent, NEW e, Journal(b, SelfRow(b, e))
        PROVE  FirstSigs'
    <3>1. \A s \in SelfRow(b, e).sigs: s.key = 1
      BY <1>1 DEF SelfRow
    <3>2. QED
      BY <1>2, <2>1, <2>3, <3>1 DEF FirstSigs
  <2>4. QED
    BY <1>3, <2>2, <2>3 DEF Aside
<1>4. ASSUME NEW d \in Call, NEW type \in Completion, Finish(d, type)
      PROVE  FirstSigs'
  <2>1. PICK b, e: b = call[d].to /\ e = CompletionOf(d, type)
    OBVIOUS
  <2>2. b \in Agent
    BY <1>1, <1>4, <2>1, CallTyped DEF Finish, Ran, IInv, Posted
  <2> DEFINE row == [event |-> e, sigs |-> {Mine(b)}, pending |-> TRUE]
             n == [type |-> "outcome", call |-> d, event |-> e, sig |-> Mine(b)]
  <2>3. \A s \in row.sigs: s.key = 1
    BY <1>1, <2>2
  <2>4. Journal(b, row)
    BY <1>4, <2>1 DEF Finish, AppendPending
  <2>5. n.sig.key = 1
    BY <1>1, <2>2
  <2>6. msgs' = msgs \cup {n}
    BY <1>4, <2>1 DEF Finish
  <2> HIDE DEF row, n
  <2>7. QED
    BY <1>1, <1>2, <2>2, <2>3, <2>4, <2>5, <2>6 DEF FirstSigs
<1>5. ASSUME NEW d \in Call, NEW m \in msgs, Agree(m, d)
      PROVE  FirstSigs'
  <2>1. PICK a: a = Caller(d)
    OBVIOUS
  <2>2. a \in Agent /\ m.type = "outcome" /\ m.sig.key = 1
    BY <1>1, <1>5, <2>1, CallTyped DEF Agree, Answered, IInv, Posted, FirstSigs
  <2> DEFINE row == [event |-> m.event, sigs |-> {Mine(a), m.sig}, pending |-> FALSE]
             n == [type |-> "cosign", call |-> d, event |-> m.event, sig |-> Mine(a)]
  <2>3. \A s \in row.sigs: s.key = 1
    BY <1>1, <2>2
  <2>4. Journal(a, row)
    BY <1>5, <2>1 DEF Agree
  <2>5. n.sig.key = 1
    BY <1>1, <2>2
  <2>6. \A x \in msgs': x \in msgs \/ x = n
    BY <1>5, <2>1 DEF Agree, Pushed
  <2> HIDE DEF row, n
  <2>7. QED
    BY <1>1, <1>2, <2>2, <2>3, <2>4, <2>5, <2>6 DEF FirstSigs
<1>6. ASSUME NEW m \in msgs, Close(m)
      PROVE  FirstSigs'
  <2>1. PICK b: b = call[m.call].to
    OBVIOUS
  <2>2. b \in Agent /\ m.sig.key = 1
    BY <1>1, <1>6, <2>1, CallTyped DEF Close, IInv, Posted, FirstSigs
  <2>3. PICK r \in log[b]:
          log' = [log EXCEPT ![b] = (@ \ {r}) \cup
            {[event |-> r.event, sigs |-> Countersigned(r, m.sig), pending |-> FALSE]}]
    BY <1>6, <2>1 DEF Close
  <2>4. \A s \in Countersigned(r, m.sig): s.key = 1
    BY <2>2 DEF Countersigned, FirstSigs
  <2>5. \A x \in msgs': x \in msgs \/ x.type = "ack"
    BY <1>6 DEF Close, Ack
  <2>6. QED
    BY <1>1, <2>2, <2>3, <2>4, <2>5 DEF FirstSigs, TypeOK
<1>7. QED
  BY <1>1, <1>3, <1>4, <1>5, <1>6, StepKinds

(* The token and the call the script has made stay as they are, and so does its end. *)
LEMMA ScriptKept ==
  ASSUME RInv, [Next]_vars
  PROVE  /\ j \in DOMAIN token => j \in DOMAIN token' /\ token'[j] = token[j]
         /\ c \in DOMAIN call => c \in DOMAIN call' /\ call'[c] = call[c]
         /\ c \in DOMAIN call /\ client[c] = "agreed" => client'[c] = "agreed"
<1>1. IInv /\ TypeOK
  BY DEF RInv, VInv, XInv, IInv
<1>2. Grows
  BY <1>1, NextGrows DEF IInv
<1>3. c \in DOMAIN call /\ client[c] = "agreed" => client'[c] = "agreed"
  BY <1>1, EndStays, ScriptAssumption DEF End
<1>4. QED
  BY <1>2, <1>3 DEF Grows

(* Every statement leaves behind what the next ones count on. *)
LEMMA NextProgress ==
  ASSUME RInv, Progress, [DemoNext]_demoVars, [Next]_vars
  PROVE  Progress'
<1>1. CASE Bootstrap \/ AwaitServer
  <2>1. step' \in {"publish_b", "register_b", "register_a", "start", "issue"}
    BY <1>1 DEF Bootstrap, AwaitServer, From
  <2>2. QED
    BY <2>1 DEF Progress, Called
<1>2. CASE Invoke
  <2>1. CASE From("issue", "invoke") /\ Issue(coding, image, j, scope, MaxTTL)
    <3>1. j \in DOMAIN token' /\ token'[j].iss = coding /\ token'[j].sub = image
      BY <2>1 DEF Issue, Put
    <3>2. QED
      BY <2>1, <3>1 DEF From, Progress, Called
  <2>2. CASE From("invoke", "await") /\ Post(c, j, image, req)
    <3>1. c \in DOMAIN call' /\ call'[c] = [jti |-> j, to |-> image, req |-> req]
          /\ UNCHANGED token
      BY <2>2 DEF Post, Put
    <3>2. QED
      BY <2>2, <3>1 DEF From, Progress, Called
  <2>3. CASE From("invoke", "raised")
    BY <2>3 DEF From, Progress, Called
  <2>4. QED
    BY <1>2, <2>1, <2>2, <2>3 DEF Invoke
<1>3. CASE Returned \/ CheckDelegator \/ AwaitPush \/ CheckDelegatee \/ CrossCheck
  <2>1. UNCHANGED vars
    BY <1>3 DEF Returned, CheckDelegator, AwaitPush, CheckDelegatee, CrossCheck, Check
  <2>2. \/ step' \in {"raised", "assertion_failed"}
        \/ step = "await" /\ step' = "check_a" /\ client[c] = "agreed"
        \/ step \in Called \ {"await"} /\ step' \in Called \ {"await"}
    BY <1>3 DEF Returned, CheckDelegator, AwaitPush, CheckDelegatee, CrossCheck, Check, From,
      Called
  <2>3. QED
    BY <2>1, <2>2 DEF Progress, Called, vars, callVars
<1>4. CASE UNCHANGED step
  BY <1>4, ScriptKept DEF Progress, Called
<1>5. QED
  BY <1>1, <1>2, <1>3, <1>4 DEF DemoNext, Script, ServerStarts, Flow, OneHostTick, demoVars

(* The script's two logs hold the completion once each, closed, with both signatures. *)
LEMMA Recorded ==
  ASSUME SInv, step \in Called \ {"await"}
  PROVE  /\ DualSigned(coding) /\ DualSigned(image)
         /\ \A r \in Get(coding), s \in Get(image):
              r.event = s.event /\ RecordVerifies(r, key) /\ RecordVerifies(s, key)
<1>1. /\ c \in DOMAIN call /\ call[c].to = image /\ call[c].req.cosign
      /\ Caller(c) = coding /\ TokenOf(c).sub = image /\ client[c] = "agreed"
  BY ScriptAssumption DEF SInv, Progress, Called, Caller, TokenOf
<1>2. /\ coding \in Agent /\ image \in Agent /\ coding # image
      /\ TypeOK /\ XInv /\ OneRow /\ FirstSigs /\ Outcomes /\ \A a \in Agent: key[a] = 1
  BY AgentsAssumption, ScriptAssumption
     DEF SInv, RInv, Reliable, FirstKeys, VInv, XInv, IInv
<1>3. ClosedAt(coding, c) /\ ClosedAt(image, c)
  BY <1>1, <1>2, ScriptAssumption DEF Outcomes
<1> DEFINE both == {[by |-> coding, key |-> 1], [by |-> image, key |-> 1]}
<1>4. ASSUME NEW a \in {coding, image}, NEW r \in Get(a), ~r.pending
      PROVE  r.sigs = both
  <2>1. r \in Done(a) /\ a \in Agent /\ r.event.src = c
    BY <1>2, <1>4 DEF Get, Done
  <2>2. r.event.delegator = coding /\ r.event.delegatee = image
    BY <1>1, <1>2, <2>1, DoneFields
  <2>3. {s.by: s \in r.sigs} = {coding, image}
    BY <1>2, <1>4, <2>1, <2>2 DEF XInv, Entries, EntryFits, Done
  <2>4. \A s \in r.sigs: s \in Sig /\ s.key = 1
    BY <1>2, <2>1 DEF TypeOK, Row, FirstSigs, Done
  <2>5. \A s \in r.sigs: s = [by |-> s.by, key |-> 1]
    BY <2>4 DEF Sig
  <2>6. QED
    BY <2>3, <2>5
<1>5. Cardinality(both) = 2
  <2>1. PICK x, y: x = [by |-> coding, key |-> 1] /\ y = [by |-> image, key |-> 1]
    OBVIOUS
  <2>2. x # y
    BY <1>2, <2>1
  <2>3. IsFiniteSet({x}) /\ Cardinality({x}) = 1
    BY FS_Singleton
  <2>4. Cardinality({x} \cup {y}) = 2
    BY <2>2, <2>3, FS_AddElement
  <2>5. both = {x} \cup {y}
    BY <2>1
  <2>6. QED
    BY <2>4, <2>5
<1>6. \A a \in {coding, image}: \A r, s \in Get(a): r = s
  BY <1>2 DEF OneRow, Get, Done
<1>7. \A a \in {coding, image}: \E r \in Get(a): ~r.pending
  BY <1>3 DEF ClosedAt, Get
<1>8. DualSigned(coding) /\ DualSigned(image)
  BY <1>4, <1>5, <1>7 DEF DualSigned
<1>9. ASSUME NEW r \in Get(coding), NEW s \in Get(image)
      PROVE  r.event = s.event /\ RecordVerifies(r, key) /\ RecordVerifies(s, key)
  <2>1. ~r.pending /\ ~s.pending /\ r.sigs = both /\ s.sigs = both
    BY <1>4, <1>6, <1>7
  <2>2. r \in Done(coding) /\ r.event.src = c /\ r.event.delegatee = image
    BY <1>1, <1>2, DoneFields DEF Get, Done
  <2>3. PICK q \in log[image]: q.event = r.event
    BY <1>2, <2>1, <2>2, DoneFields DEF Both
  <2>4. q \in Get(image)
    BY <2>2, <2>3 DEF Get, Done
  <2>5. \A x \in both: x.key = key[x.by]
    BY <1>2
  <2>6. QED
    BY <1>6, <2>1, <2>3, <2>4, <2>5 DEF RecordVerifies
<1>10. QED
  BY <1>8, <1>9

(* So none of the checks fails. *)
LEMMA NextScript ==
  ASSUME SInv, [DemoNext]_demoVars, TypeOK'
  PROVE  DemoTypeOK' /\ AssertionsHold'
<1>1. CASE UNCHANGED step
  BY <1>1 DEF SInv, DemoTypeOK, AssertionsHold, DemoNext, Script, Bootstrap, AwaitServer,
    Invoke, Returned, CheckDelegator, AwaitPush, CheckDelegatee, CrossCheck, Check, From,
    ServerStarts, Flow, OneHostTick, demoVars
<1>2. CASE CheckDelegator \/ CheckDelegatee \/ CrossCheck
  <2>1. step \in Called \ {"await"}
    BY <1>2 DEF CheckDelegator, CheckDelegatee, CrossCheck, Check, From, Called
  <2>2. step' \in {"poll", "verify", "done"} /\ UNCHANGED up
    BY <1>2, <2>1, Recorded DEF CheckDelegator, CheckDelegatee, CrossCheck, Check, From
  <2>3. QED
    BY <2>2 DEF SInv, DemoTypeOK, AssertionsHold
<1>3. CASE Bootstrap \/ AwaitServer \/ Invoke \/ Returned \/ AwaitPush
  BY <1>3 DEF SInv, DemoTypeOK, AssertionsHold, Bootstrap, AwaitServer, Invoke, Returned,
    AwaitPush, From
<1>4. QED
  BY <1>1, <1>2, <1>3 DEF DemoNext, Script, ServerStarts, Flow, OneHostTick, demoVars

(* The invariant is inductive. *)
LEMMA NextSInv == SInv /\ [DemoNext]_demoVars => SInv'
<1> SUFFICES ASSUME SInv, [DemoNext]_demoVars
             PROVE  SInv'
  OBVIOUS
<1>1. CASE OneHostTick
  <2>1. RInv' /\ FirstSigs' /\ OneHost'
    BY <1>1, TickRInv
  <2>2. UNCHANGED <<token, call, client, step>>
    BY <1>1 DEF OneHostTick, callVars
  <2>3. Progress'
    BY <2>2 DEF SInv, Progress
  <2>4. TypeOK'
    BY <2>1 DEF RInv, VInv, XInv, IInv
  <2>5. QED
    BY <2>1, <2>3, <2>4, NextScript DEF SInv
<1>2. CASE [Next]_vars /\ ~OneHostTick
  <2>1. RInv' /\ FirstSigs'
    BY <1>2, NextRInv, NextFirstSigs DEF SInv
  <2>2. UNCHANGED clock
    BY <1>2 DEF DemoNext, Script, Bootstrap, AwaitServer, Invoke, Returned, CheckDelegator,
      AwaitPush, CheckDelegatee, CrossCheck, Check, ServerStarts, Flow, demoVars, Publish,
      RegisterPeer, Issue, Post, Serve, Refuse, RefuseReplay, Accept, JournalFails, Complete,
      Finish, FinishUnlogged, Receive, ReceiveError, UnknownPeer, Dispute, Mismatch, Agree,
      RecordFails, ReceiveAck, Deliver, Close, RejectCosign, vars, agentVars
  <2>3. OneHost'
    BY <2>2 DEF SInv, OneHost
  <2>4. TypeOK'
    BY <2>1 DEF RInv, VInv, XInv, IInv
  <2>5. QED
    BY <1>2, <2>1, <2>3, <2>4, NextScript, NextProgress DEF SInv
<1>3. QED
  BY <1>1, <1>2, DemoSteps

(* Nothing has been published at first. *)
LEMMA InitSInv == DemoInit => SInv
<1> SUFFICES ASSUME DemoInit
             PROVE  SInv
  OBVIOUS
<1>1. VInv /\ Reliable
  BY InitVInv, InitReliable DEF DemoInit
<1>2. FirstSigs /\ OneHost
  BY AgentsAssumption DEF DemoInit, Init, FirstSigs, OneHost
<1>3. DemoTypeOK /\ AssertionsHold /\ Progress
  BY <1>1 DEF DemoInit, DemoTypeOK, AssertionsHold, Progress, Called, VInv, XInv, IInv
<1>4. QED
  BY <1>1, <1>2, <1>3 DEF SInv, RInv

(* The type invariant of the script and of the flow it drives. *)
THEOREM DemoTypeCorrect == DemoSpec => []DemoTypeOK
<1>1. SInv => DemoTypeOK
  BY DEF SInv
<1>2. QED
  BY <1>1, InitSInv, NextSInv, PTL DEF DemoSpec

(* No assertion of the script fails, however little its polls have waited: what they poll
   for holds when invoke returns. *)
THEOREM Asserted == DemoSpec => []AssertionsHold
<1>1. SInv => AssertionsHold
  BY DEF SInv
<1>2. QED
  BY <1>1, InitSInv, NextSInv, PTL DEF DemoSpec
================================================================================
