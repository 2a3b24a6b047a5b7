----------------------------- MODULE CodingToImage -----------------------------
(***************************************************************************)
(* examples/coding_to_image/run.py: the script that takes a coding agent   *)
(* and an image agent through one delegation and asserts what both logs    *)
(* hold at the end.  Each of its steps is an action of DelegationFlow; the *)
(* image agent's server is a thread that runs beside it, and both agents   *)
(* live on one host, so that their clocks tick together.                   *)
(***************************************************************************)
EXTENDS DelegationFlow, FiniteSets

CONSTANTS
  coding, image,            \* the two agents
  codingCaps, imageCaps,    \* what they publish
  scope,                    \* what is delegated
  j, c, req                 \* the token, the invocation, what it asks for

ASSUME AgentsAssumption == {coding, image} \subseteq Agent /\ coding # image

(* The script asks for the countersignature; while it runs nothing is lost or restarted. *)
ASSUME ScriptAssumption ==
  /\ {codingCaps, imageCaps} \subseteq CapSet /\ scope \in ScopeSet /\ MaxTTL > 0
  /\ j \in Jti /\ c \in Call /\ req \in Request /\ req.cosign
  /\ ~Faults

VARIABLES
  step,   \* the statement the script is at
  up      \* whether the server's thread accepts connections

demoVars == <<vars, step, up>>

DemoTypeOK ==
  /\ TypeOK
  /\ step \in {"publish_a", "publish_b", "register_b", "register_a", "start", "issue",
               "invoke", "await", "check_a", "poll", "check_b", "verify",
               "done", "raised", "assertion_failed"}
  /\ up \in BOOLEAN

DemoInit == Init /\ step = "publish_a" /\ up = FALSE

--------------------------------------------------------------------------------
From(this, next) == step = this /\ step' = next /\ UNCHANGED up

Check(this, P, next) ==
  /\ From(this, IF P THEN next ELSE "assertion_failed")
  /\ UNCHANGED vars

Bootstrap ==
  \/ From("publish_a", "publish_b") /\ Publish(coding, codingCaps)
  \/ From("publish_b", "register_b") /\ Publish(image, imageCaps)
  \/ From("register_b", "register_a") /\ RegisterPeer(coding, image)
  \/ From("register_a", "start") /\ RegisterPeer(image, coding)

(* 50 polls of server.started; the script goes on if all were in vain. *)
AwaitServer == From("start", "issue") /\ UNCHANGED vars

Invoke ==
  \/ From("issue", "invoke") /\ Issue(coding, image, j, scope, MaxTTL)
  \/ up /\ From("invoke", "await") /\ Post(c, j, image, req)
  \/ ~up /\ From("invoke", "raised") /\ UNCHANGED vars

(* await client.invoke *)
Returned ==
  /\ \/ client[c] = "agreed" /\ From("await", "check_a")
     \/ client[c] \in {"failed", "mismatch", "disputed"} /\ From("await", "raised")
  /\ UNCHANGED vars

(* audit_log.get(event_id) *)
Get(a) == {r \in log[a]: r.event.src = c /\ r.event.type \in Completion}

DualSigned(a) == \E r \in Get(a): Cardinality(r.sigs) = 2

CheckDelegator == Check("check_a", DualSigned(coding), "poll")

(* 20 polls of pending_peer_count; the script goes on if all were in vain. *)
AwaitPush == From("poll", "check_b") /\ UNCHANGED vars

CheckDelegatee == Check("check_b", DualSigned(image), "verify")

(* The two records are equal, and verify under the two agents' keys. *)
CrossCheck ==
  Check("verify",
         \A r \in Get(coding), s \in Get(image):
           r.event = s.event /\ RecordVerifies(r, key) /\ RecordVerifies(s, key),
         "done")

Script ==
  \/ Bootstrap \/ AwaitServer \/ Invoke \/ Returned
  \/ CheckDelegator \/ AwaitPush \/ CheckDelegatee \/ CrossCheck

ServerStarts ==
  /\ step \notin {"publish_a", "publish_b", "register_b", "register_a"} /\ ~up
  /\ up' = TRUE
  /\ UNCHANGED <<vars, step>>

Flow ==
  /\ Serve(c) \/ Complete(c) \/ Receive(c) \/ Deliver(c)
  /\ UNCHANGED <<step, up>>

OneHostTick ==
  /\ clock[coding] < MaxTime
  /\ clock' = [a \in Agent |-> clock[a] + 1]
  /\ UNCHANGED <<key, manifest, peers, restarts, token, log, callVars, step, up>>

DemoNext == Script \/ ServerStarts \/ Flow \/ OneHostTick

DemoSpec == DemoInit /\ [][DemoNext]_demoVars /\ WF_demoVars(Script) /\ WF_demoVars(Flow)
--------------------------------------------------------------------------------
(* The assertions of the script hold, even when none of its 20 polls has waited for
   the countersignature: invoke returns after the push was answered. *)
AssertionsHold == step # "assertion_failed"

(* Once the server accepts connections the script gets to its end, unless the token
   expires on the way and invoke raises. *)
DemoCompletes ==
  step = "invoke" /\ up ~>
    \/ step = "done"
    \/ step = "raised" /\ clock[image] >= token[j].exp
================================================================================
