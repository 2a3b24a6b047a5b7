# Agent Trust Fabric: a TLA+ model

TLA+ modules, TLC runs and TLAPS proofs about the Python reference
implementation in `reference/py/src/atf/` (paths below are relative to that
directory unless they start with `docs/`).

The program lets one agent delegate an action to another. The delegator signs a
token, the delegatee verifies it, executes, signs the outcome, and both keep a
record of what happened that carries both signatures. Everything of interest is in
how the two records relate when requests are repeated, concurrent, lost, or cut off
by a crash.

## 1. Inventory

| Part | State it keeps | Operations |
|---|---|---|
| **Audit log** (`audit.py`) | one SQLite table `events`: id, ts, prev_hash, chain_hash, signatures, pending_peer | `append_self`, `append_pending`, `append_finalized`, `finalize_pending`, `latest_hash`, `has_jti`, `all_events` |
| **Agent** (`agent.py`) | key pair (`private.pem`), manifest (`manifest.json` and memory), peers (memory only), the audit log | `create`, `publish_manifest`, `register_peer`, `issue_delegation`, `verify_delegation`, `make_outcome`, `verify_outcome_envelope`, `build_completion_event` |
| **Token** (`delegation.py`) | none; a signed claim set | `issue_token`, `verify_token` |
| **Manifest and capability names** (`manifest.py`) | none; a signed list of names | `sign_manifest`, `verify_manifest`, `manifest_has_capability` |
| **Outcome** (`outcome.py`) | none | `sign_outcome`, `verify_outcome` |
| **Server and client** (`wire.py`) | coroutines between their awaits, messages in flight | `POST invoke`, `POST audit/cosign`, `GET jwks, manifest, events`, `ATFClient.invoke` |
| **Identity** (`identity.py`) | none | URIs and their parsing, the identity document, key generation and loading |
| **Signing and encoding** (`_signing.py`, `_b64.py`) | none | canonical JSON, envelope and compact JWS |
| **Command line** (`cli.py`) | none of its own | `init`, `publish`, `delegate`, `verify`, `audit ls`, `decode` on an agent's directory |
| **Demo** (`../../examples/coding_to_image/run.py`) | the statement it is at; a server in a thread | one delegation from end to end, and assertions about both logs |

How they interact:

```
 delegator A                                              delegatee B
 issue_delegation --- token, log: issued
 ATFClient.invoke --- POST invoke (token, action) ------> verify_delegation (peers, log)
                                                          log: started
                                                          await handler
                                                          sign outcome and event
                 <--- outcome, event, B's signature ----- log: completed|failed, pending
 verify outcome
 log: completed|failed, both signatures
                 ---- POST cosign (A's signature) ------> finalize_pending
                                                          log: both signatures, not pending
```

The agents share nothing but these messages. An agent's own parts share its data
directory: the event loop that serves, a thread that calls, further worker processes,
a command line beside them.

What is hard, and where it bites (each entry is a hazard of `PROJECT.json`):

- **Interleaving.** `_insert` reads the chain head on one connection and inserts on
  another; `finalize_pending` selects and then updates, on one connection but with no
  transaction open before the update; `Agent.create` asks whether a
  file exists and then reads or writes it; two publishers write one `manifest.json`;
  several invocations are awaited on one server at the same time.
- **Atomicity.** The replay check is two queries and an insert, which only one event
  loop makes one step.
- **Repetition.** A token is replayed after a timeout, during the first execution,
  after a crash, after the answer. The only defence is the `started` row the server
  writes before it awaits the handler.
- **Partial failure.** Each of five writes on two hosts, three messages and the
  handler itself may fail alone; a response may have no JSON after its completion was
  stored; a manifest may be in memory and not on disk.
- **Crash and restart.** Peers and running invocations are lost; the log, key and
  manifest stay; a file may be truncated and not yet written; without `private.pem`
  the key is a new one under the same name.
- **Stale views.** Peers' keys and manifests are those of the time of registration; a
  process's own manifest is the one it loaded.
- **Boundaries of representation.** Whole seconds, two clocks, half-open validity;
  dict keys that are numbers on one side of the wire and texts on the other; a
  directory name that joins two names by a character both may contain.

## 2. Modules

| Module | Models | Code behind it |
|---|---|---|
| `Journal` | what a log promises: entries are added, countersigned once, never lost | the API of `AuditLog` |
| `AuditLog` | one audit file with several writers, one SQL statement per step | `audit.py` |
| `AuditLogProofs` | type, chain, forks, refinement of `Journal` | |
| `Capability` | which names cover which | `manifest_has_capability`, `_scope_covers` |
| `OneKey` | what a data directory promises: one key, and nobody holds another | |
| `AgentStore` | the data directory under several processes, one file operation per step | `Agent.create`, `publish_manifest`, `cli.py` |
| `AgentStoreProofs` | type, key, manifest, refinement of `OneKey` | |
| `CrossSign` | the protocol for one token seen from its two logs | steps of `agent.py` and `wire.py` |
| `DelegationFlow` | agents, tokens, logs, servers, clients, network | `agent.py`, `delegation.py`, `outcome.py`, `wire.py` |
| `DelegationFlowProofs` | the order on names; type, at most one execution, manifest bound, authorisation, lifetime; both signatures, the same in both logs | |
| `ProtocolProofs` | refinement of `CrossSign`; both logs closed when `invoke` returns | |
| `Workers` | the invoke endpoint in several processes on one log, one query per step | `verify_delegation`, `wire.py` |
| `WorkersProofs` | type, executions per worker, finality of the record | |
| `CodingToImage` | the demo script over `DelegationFlow` | `run.py` |
| `CodingToImageProofs` | type, the script's assertions | |
| `OutcomeExchange` | which bytes are signed, sent and verified | `_signing.py`, `outcome.py` |
| `OutcomeExchangeProofs` | type, what is disputed and what never is | |
| `AgentNames` | URIs, what may be typed for an agent, its directory | `identity.py`, `cli.py` |
| `AgentNamesProofs` | type, parsing undoes printing, one directory per agent | |
| `MC*` | finite sets for TLC | |

How they compose: `DelegationFlow` and `AgentStore` extend `Capability`;
`CodingToImage` extends `DelegationFlow`; `DelegationFlow` implements `CrossSign`,
`AuditLog` implements `Journal`, `AgentStore` implements `OneKey` until two processes
create the agent at once. `Workers` takes an instance of `Journal` as its file, so
that what `AuditLog` shows is what it builds on. `DelegationFlow` adds a row in one
step, by its operator `Journal`; `AuditLog` opens that step up into statements.

### AuditLog

`job[w]` is where writer `w` is between two SQL statements: `read_head` (in
`_insert`, before `latest_hash`), `insert` (head read, row not yet inserted) and
`update` (in `finalize_pending`, row selected and checked). `rows` is the table,
`lastRowid` SQLite's own insertion order, which the code does not use and the
properties need. A hash is collision free, so `prev_hash` is the id of the row it
was taken from and `chain_hash` is the set of signatures it was computed over
(`hashed`). Ids are integers because only the order of the random strings matters.
`AppendFinalized` takes id and timestamp from outside: the peer built the event.
`Abort` is any exception or death between the statements.

### DelegationFlow

One action per handler section between two awaits:

| Code | Actions |
|---|---|
| `publish_manifest`, `register_peer` | `Publish`, `RegisterPeer` |
| `issue_delegation` | `Issue` |
| `ATFClient.invoke` to the POST | `Post` |
| `invoke` endpoint to the handler's await | `Refuse`, `RefuseReplay`, `Accept`, `JournalFails` |
| `invoke` endpoint after the await | `Finish`, `FinishUnlogged` |
| `ATFClient.invoke` after the POST | `ReceiveError`, `UnknownPeer`, `Dispute`, `Mismatch`, `Agree`, `RecordFails`, `Timeout` |
| its push of the countersignature | `Agree`, `ReceiveAck`, `Timeout` |
| `audit/cosign` endpoint | `Close`, `RejectCosign` |
| `Agent.create` on an existing directory | `Restart` |
| the network | `Lose` |

`client[c]` and `server[c]` say where an invocation is, and how it ended; `"crashed"`
is an execution whose server died. A client that has made its own record is
`"pushing"` until the answer to its countersignature, or the timeout, and only then
`"agreed"`: `invoke` awaits the push.

Abstractions:

- A signature is `[by, key]`, its signer and the version of the key. It verifies
  under a recorded key if both agree. Agents are honest: nobody signs in another's
  name, and a message holds what its sender put there.
- The uuid of an event is the token or the invocation it came from: `<<type, src>>`
  is the primary key. An agent that delegates to itself therefore meets its own
  pending row (`RecordFails`), as in the code.
- `call[c].to` is both the URL the request goes to and `delegatee_id`. A token may be
  posted any number of times and to any agent; its user is its issuer.
- The manifest and key served at the well-known URLs are the current ones;
  `register_peer` is one step, because all it reads is checked against one signature.
- A capability name is the sequence of its segments.
- Between two awaits a server does not interleave: one process, one event loop,
  which is how the examples start it.
- `Issue` and its journal entry are one step: if the entry cannot be written the
  token is never returned, which is as if `Issue` had not happened.

### AgentStore

`proc[p]` is one process that has called `Agent.create`: the file operation it is at
and the `Agent` object built so far. `cmd = "serve"` is a program that embeds the SDK
and goes on; the others are the commands of `cli.py`, which create the agent, do one
thing and exit.

| Code | Actions |
|---|---|
| `key_path.exists()`, then `KeyPair.generate` or `from_pem` | `CheckKey`, `LoadKey` |
| `write_bytes`, `chmod` | `OpenKey` (truncates), `WriteKey`, `Chmod` |
| `manifest.json` loaded if it exists | `CheckManifest`, `LoadManifest` |
| `publish_manifest`: memory, then file | `Publish`, `OpenManifest` (truncates), `WriteManifest`, `ReturnManifest`, `WriteFails` |
| `issue_delegation`, or its refusal | `Delegate`, `RefuseDelegation` |
| the commands `init`, `audit ls` | `Show` |
| a peer's `register_peer` | `Register` |
| the process starts; dies | `Start`, `Die` |

A file is absent, torn (truncated, or mixed from two writers) or whole. Both kinds of
torn file make `Agent.create` raise (`bad_key`, `bad_manifest`). Between the end of the
write and the return of `publish_manifest` (`ReturnManifest`) the process may die and
another publisher may write and return.

Three variables are history. `raced` becomes true when a process generates a key while
another has generated one and is not yet done writing it. `inSync` holds the processes
that opened or read `manifest.json` with no other writer at it, until their write fails, another
process opens the file, or they start again. `returned` is the manifest that
`publish_manifest` has returned to a process in sync, until the file is opened again.
`registered` is what a peer has on record: one manifest per agent id, replaced when the
peer registers the agent again. `Process` also stands for what the next start
of a program is called; nothing of a process outlives its end.

### Workers

The code of the endpoint between the request and the handler's await runs without
interruption in one event loop, but not across processes: `HasJti`, `AllEvents`,
`RecordReplay` or `Start` are the two queries of `verify_delegation` and the insert that
follows. `Free(w)` says that worker `w` is in no such section. `late` remembers whether
an execution of the token was on record when the request arrived. `Issue` puts a row
with the token's `jti` into the same log that is no replay: an agent's token for itself.

### CodingToImage

Each statement of the script is an action of `DelegationFlow` conjoined with a move of
`step`; its server is a thread, so that `Flow` (the agents' coroutines) and `ServerStarts`
run beside it, and `OneHostTick` moves both clocks together. The two polling loops
give up after a bounded number of tries, and the script goes on either way:
`AwaitServer` and `AwaitPush` have no guard.

### OutcomeExchange

`canonical_json` sorts every dict of a payload for itself, so a payload is the dicts that
stand in it, by their place (`dicts`), and the kind of value they hold in the end (plain,
`nan`, or something `json` cannot encode). A dict is as Python has it: the sequence of its
keys in insertion order. A key is a string, a number or `None`, with the text that JSON
writes for it; a number also has its place among all numbers, so that ints below zero,
floats and bools are numbers like any other. `PayloadAssumption` ties the two together only
for non-negative ints, whose order is that of what their digits write.

`Canonical` puts the keys' texts in the order in which Python compares the keys
(`SortedKeys`); `Decoded` is the way through the HTTP response, which leaves the order alone
and makes every key a string. A hash is its preimage. A token is no envelope: it is
verified over the bytes that arrive, so there is nothing to serialise again and it is
left out here.
What becomes of `nan` depends on the version of the web framework: both outcomes are
there (`Respond`).

### AgentNames

A text is a sequence of characters; the characters that mean something (`.`, `/`, `#`)
are told apart, the prefix `agent://` counts as one. `InitAgent` is `atf init` run again
and again on one host, with `keyIn` the directories under `~/.atf`. `ArgumentAssumption`
leaves out names with a slash, which only a URI could hold: `pathlib` would take them
apart and drop `.` and empty parts, where the model compares texts.

Some operators appear next to the one the actions use, under a comment
"Variant with a bug". No action uses them: each one is a plausible mistake in that
piece of code, and `PROJECT.json` pairs it with a property that rejects it.

## 3. Runs

The runs `store` and `names` check for deadlock: a process can always be started, and a
command typed. The others disable the check, because the system may really stop: an
agent that has nothing left to do, with clocks at their bound and all ids used.

| Run | Question | Properties |
|---|---|---|
| `audit_writers` | What do two concurrent writers leave of the chain and of the journal? | `TypeOK`, `ChainRooted`, `ForksBounded`, `JournalSpec` |
| `audit_chain_forks` | Is the log of a single writer one chain? No. | `ChainLinear` |
| `flow_faults` | One token, two invocations, every fault, two restarts | `TypeOK`, `AtMostOnce`, `CrossSigned`, `SameRecord`, `SameVerdict`, `CrossSignSpec` |
| `flow_terms` | Manifests, scopes, misdirected and unknown requests, two ttls, two clocks | `ExecutionAuthorised`, `AcceptedWithinManifest`, `LifetimeBounded` |
| `flow_live` | Two tokens, to another agent and to oneself; without faults, does everything finish? | `ReturnedClosed`, `CrossSignSpec`, `InvokeReturns`, `CrossSignedEventually` |
| `flow_orphan` | Does every execution leave a completion or an orphan entry? No. | `CompletionRecorded` |
| `store` | Two processes on one directory, dying between any two file operations | `TypeOK`, `TokensVerify`, `ServedRegistrable`, `ReturnedIsStored`, `MemoryIsStored`, `OneKeyUnlessRaced`, `SettledForGood` |
| `workers` | How often does a token run behind several workers? | `TypeOK`, `AtMostOncePerWorker`, `RecordedIsFinal` |
| `demo_script` | Can the demo's assertions fail, or the demo hang? | `DemoTypeOK`, `AssertionsHold`, `DemoCompletes` |
| `outcome_payloads` | Which payloads does the other side dispute? | `TypeOK`, `DisputeExplained`, `HashFollows`, `OrphanExplained` |
| `outcome_int_keys` | Is using one serialiser on both sides enough? No. | `SameFunctionSuffices` |
| `names` | Do the ways to name an agent agree, and keep agents apart? | `TypeOK`, `IdReadsBack`, `PairMeansUri`, `OwnKey` |

### What the passing runs show

- `ChainRooted`: a `prev_hash` never points at a row that was not committed, or was
  committed later, even when an insert fails after its hash was computed. Two
  writers may fork the chain; they cannot break it off.
- `ForksBounded`: as long as rows come in by the order `latest_hash` sorts by, no row has
  more successors than there are writers. One writer's log is then one chain, so that
  order is the only thing that forks it.
- `AtMostOnce`: `started` is journaled and looked up in one section of the event
  loop, it survives a restart, and `verify_token` binds the token to one agent, so
  one log is enough to find the first execution.
- `AtMostOncePerWorker` and `RecordedIsFinal`: with several workers the check and the entry
  are no longer one step, and a token may run once in each worker; but an execution
  that is on record stops every later request, whoever died in between. The design names
  duplicate detection of the `jti` as the defence against replay without that limit (lines
  323 and 371); it has it as long as there is one worker, which is how the examples start.
- `SameRecord` and `CrossSigned`: a `completed` or `failed` row without
  `pending_peer` has the signatures of both parties and the same event in the
  other's log, also when the delegatee has restarted with another key between its
  signature and the countersignature.
- `SameVerdict`: two closed records of one event pass or fail `verify_record_signatures`
  together, whatever keys the third party was given.
- `CrossSignSpec`: the two logs of a token only ever move along
  issued, started, signed, agreed or disputed, closed.
- `ReturnedClosed`: without faults, when `invoke` returns both entries are closed.
- `ExecutionAuthorised`: the executed action is covered by a scope the delegator has
  on record as delegated to this agent.
- `OneKeyUnlessRaced`, `TokensVerify`, `ServedRegistrable`: unless two processes generate a
  key at once an agent has one key for ever, and everything signed by any of its processes
  verifies under it. `SettledForGood`: after such a race the key stops changing as soon as
  nobody is about to write it, and the processes that hold another one (`Strays`) only
  become fewer.
- `ReturnedIsStored`: what `publish_manifest` has returned is what the next process loads,
  until somebody opens the file again; neither deaths nor failed writes change that. It says
  nothing of a publisher that had another one at the file while it wrote: of two
  that interleave, neither can know whose manifest has remained.
- `MemoryIsStored`: a running agent serves and checks scopes by the manifest in the file,
  unless its own write has failed or another process has opened the file since.
- `AssertionsHold`: the demo's assertions do not depend on its waiting.
- `DisputeExplained`: an honest outcome is disputed only over `nan`, or over a dict, at any
  depth, with two number keys whose texts sort the other way, such as 2 and 10, -1 and -2,
  `1e-05` and `0.5`. A payload all of whose dicts have string keys, `None`, or
  non-negative ints with equally many digits is not.
- `OrphanExplained`: once its completion is stored an outcome leaves the delegatee, unless it
  holds a `nan`; everything else that cannot be encoded has failed before.
- `IdReadsBack`: the id that `atf init` prints is read back as the agent it was printed
  for, unless a `#` was typed in a pair.
- `PairMeansUri`, `OwnKey`: for names without a dot, the pair and the URI mean one agent,
  and different agents have different directories.

### Findings

Three statements of the documentation do not hold of the code; each is a
`violation` run.

1. *"hash-chained"* (`docs/specs/2026-05-23-atf-design.md:199`). `latest_hash` sorts
   by `(ts, event_id)` with random ids. Two rows of one second may sort against
   their insertion order, and the next row continues the older one again. (The run has
   one second only, so that no row of an older second, which the peer's `ts` would
   also allow, takes part.)
2. *"B writes delegation.orphan_completed locally"* (design, line 405). The event
   type does not occur in the code; a completion that cannot be stored is gone.
3. *"enough as long as both sides serialize through this same function"*
   (`_signing.py:36`). A handler that returns `{2: .., 10: ..}`, be it inside another dict,
   is disputed: the keys are sorted as numbers when signed and as texts when verified.

Seen while modelling, where no run was needed to show it:

- `chain_hash` is described as covering "the canonical bytes of the stored record
  (signatures included)" (`audit.py:20`); `finalize_pending` adds a signature and leaves it.
- A schema mismatch is not recorded as a dispute (design, line 377), and a bad
  signature is not recorded at all (line 372).
- Two processes that create one agent at once may keep different keys until the loser
  ends (`agent.py:64`); `raced` marks those behaviours.
- A torn `manifest.json` makes every later `Agent.create` raise (`agent.py:83`).
- `issue_delegation` checks no scope when the process has no manifest in memory
  (`agent.py:166`).
- `_resolve` drops the key id of a URI (`cli.py:39`), and a manifest of another key id in
  the same directory is loaded all the same.
- The README's example publishes `code.write` and delegates `image.generate`
  (lines 70 to 74 of the top-level README), which the scope check refuses.
- A `#` in a pair passes `_resolve` (`cli.py:37`): `atf init 'x.x#x'` prints
  `agent://x/x#x#1`, which reads as the agent `x` of `x` with another kid. `IdReadsBack`
  leaves such pairs out.
- `x.x` / `x` and `x` / `x.x` share a directory (`agent.py:60`).
- `identity_document` names a `jwks_uri` per owner and name (`identity.py:105`); the
  server has one `/.well-known/jwks.json`.

### Bounds

- `AuditLog`: two writers, because the races are between two statements of two
  operations; three ids, enough for a row inserted between another's read and
  insert with a third below both. `MaxTime = 1` gives equal and
  different seconds. `rowid` is unbounded in the model and bounded by the ids.
- `DelegationFlow`: two agents are the parties of a token; a third only adds
  strangers, and a stranger is an agent that has not registered (`Known`). Two
  invocations of one token are a replay; two tokens in `flow_live` let a delegation
  run beside another, one of them possibly an agent's to itself. `MaxRestarts = 2`
  allows both agents, or one twice, to lose their keys. `flow_terms` has `MaxTime = 2`
  and lifetimes up to 2: a token is early, valid or expired on each clock, and
  `MaxTTL` seconds pass. Where clocks are not the question `MaxTime = 0`.
- `AgentStore`: two processes, since every race is between two file operations of two
  processes; two keys, the second being the one that must not be used; two key ids, so that
  manifests of two kinds meet in one file. The one capability set does not declare the
  delegated scope, so that a delegation is refused by a process that has a manifest. A
  process may end and start again without bound; new keys are bounded by `Key`.
- `Workers`: two workers, three requests with one token (one more than workers), one
  with another, which keeps a worker busy.
- `CodingToImage`: two seconds stand for the token's 60, three for the clock, so that
  it may expire at any statement.
- `OutcomeExchange`: dicts of up to three keys out of thirteen, and of up to two inside
  another dict: ints of one, two and three digits and below zero, floats with and without
  an exponent, texts of digits, a text of letters, `None`, in every insertion order. Two
  keys suffice for a swap; a third shows that one swapped pair is enough.
- `AgentNames`: owners and names of one and two characters and with a dot, pairs with a `#`,
  four malformed forms, two runs of `init`.
- Actions whose guard holds a bound: `Tick`, `OneHostTick`, `Restart`, `InitAgent`. Nothing
  else is cut off: each other action is limited by the ids.
- Symmetry: the invocations in the safety runs of the flow, processes and keys in
  `store`, workers and like requests in `workers`; they occur in no other constant.
  Liveness and the violation runs use none.

### Fairness

`FairSpec` of `DelegationFlow` assumes weak fairness, for each invocation, of serving a
request that has arrived, of a handler coming to its end, of the client taking up an
answer, of the server taking up a countersignature, and of the client's timeout. The
first four are what an asyncio event loop does with a ready task, given that handlers
terminate; the last is httpx's `timeout=10.0`. No fairness is assumed of users (to
issue, post, register), of clocks, or of faults. `flow_live` sets `Faults = FALSE`: the
push of the countersignature is not repeated, so one lost message leaves an entry
pending for good, as the module comment of `audit.py` allows.
`CrossSignedEventually` is about callers who know the delegatee, ask for the schema
it has or for none, push their signature, and are not the delegatee themselves: an
agent that delegates to itself keeps a pending row for ever.

`DemoSpec` assumes weak fairness of the script (a statement that can run does) and of the
two agents' coroutines together, but not of the server's thread coming up nor of the
clock: `DemoCompletes` starts from a server that accepts connections.

`AgentStore`, `Workers`, `AuditLog`, `OutcomeExchange` and `AgentNames` assume none: their
properties are safety properties.

## 4. Proofs

| Theorem | States |
|---|---|
| `AuditLogProofs!TypeCorrect` | `Spec => []TypeOK` |
| `AuditLogProofs!Rooted` | `Spec => []ChainRooted` |
| `AuditLogProofs!Forks` | `Spec => []ForksBounded` |
| `AuditLogProofs!Implements` | `Spec => JournalSpec` |
| `AgentStoreProofs!TypeCorrect` | `Spec => []TypeOK` |
| `AgentStoreProofs!OneKeyKept` | `Spec => OneKeyUnlessRaced` |
| `AgentStoreProofs!Verifiable` | `Spec => []TokensVerify` |
| `AgentStoreProofs!Served` | `Spec => []ServedRegistrable` |
| `AgentStoreProofs!ReturnedStored` | `Spec => []ReturnedIsStored` |
| `AgentStoreProofs!MemoryStored` | `Spec => []MemoryIsStored` |
| `AgentStoreProofs!Settles` | `Spec => SettledForGood` |
| `DelegationFlowProofs!CoversAntisymmetric` | names that cover each other are equal |
| `DelegationFlowProofs!NoEscalation` | action within scope, scope within manifest, so action within manifest |
| `DelegationFlowProofs!TypeCorrect` | `Spec => []TypeOK` |
| `DelegationFlowProofs!ExecutedOnce` | `Spec => []AtMostOnce` |
| `DelegationFlowProofs!WithinManifest` | `Spec => AcceptedWithinManifest` |
| `DelegationFlowProofs!Authorised` | `Spec => []ExecutionAuthorised` |
| `DelegationFlowProofs!Lifetime` | `Spec => LifetimeBounded` |
| `DelegationFlowProofs!BothSigned` | `Spec => []CrossSigned` |
| `DelegationFlowProofs!RecordedByBoth` | `Spec => []SameRecord` |
| `DelegationFlowProofs!SameVerdictHeld` | `Spec => []SameVerdict` |
| `ProtocolProofs!ProtocolFollowed` | `Spec => CrossSignSpec` |
| `ProtocolProofs!ClosedOnReturn` | `Spec => []ReturnedClosed` |
| `WorkersProofs!TypeCorrect` | `Spec => []TypeOK` |
| `WorkersProofs!OncePerWorker` | `Spec => []AtMostOncePerWorker` |
| `WorkersProofs!Final` | `Spec => []RecordedIsFinal` |
| `CodingToImageProofs!DemoTypeCorrect` | `DemoSpec => []DemoTypeOK` |
| `CodingToImageProofs!Asserted` | `DemoSpec => []AssertionsHold` |
| `OutcomeExchangeProofs!TypeCorrect` | `Spec => []TypeOK` |
| `OutcomeExchangeProofs!DisputesExplained` | `Spec => []DisputeExplained` |
| `OutcomeExchangeProofs!HashNeverAlone` | `Spec => []HashFollows` |
| `OutcomeExchangeProofs!OrphansExplained` | `Spec => []OrphanExplained` |
| `AgentNamesProofs!UriReadsBack` | `parse_agent_uri` undoes `_agent_uri` |
| `AgentNamesProofs!TypeCorrect` | `Spec => []TypeOK` |
| `AgentNamesProofs!ReadsBack` | `Spec => []IdReadsBack` |
| `AgentNamesProofs!BothWays` | `Spec => []PairMeansUri` |
| `AgentNamesProofs!KeysApart` | `Spec => []OwnKey` |

They hold for all values of the constants that satisfy the assumptions declared with
them: ids of the audit log are positive integers, writers and workers are finitely many,
delegations are between agents, capability names are sequences of segments, every
request carries a token, `NoKey` is no key, and the bounds are natural numbers. The keys
of a payload's dict differ in their texts within a kind, its numbers also in their places,
and its non-negative ints are in the order of their decimal digits; what is typed for an
agent is a text with at most one slash, in which the prefix `agent://` stands at the start
or nowhere. The script's agents
differ, its scope, action and capabilities are of the declared kind, its token lives for
some time, it asks for the countersignature, and there are no faults, which is how `run.py`
is written.

*Audit log.* Neither `ChainRooted` nor the refinement is inductive. `ChainRooted` needs
`RowidBound` (a new row's rowid is above all others) and `InsertReady` (a head held
between read and insert is a committed row, however many rows came since). The
refinement needs `OpenUnsigned` (a pending row has only its author's signature) and
`UpdateReady` (a row selected for an update is still there, and if another writer
finalized it in between it already is what this writer is going to write), which
make a late `Update` a countersignature or a stutter of `Journal`. `Forks` rests on
`Budget`: the successors of a row and the writers that hold it as their head are together
at most as many as the writers; an insert turns one of the second kind into one of the
first, and a new reader finds the newest row, which has no successor.

*Capabilities.* Both checks are compared segment by segment (`CoversBySegment`), from
which reflexivity, transitivity and antisymmetry follow.

*Data directory.* `Fits` ties each process's place to the file: without a race `open_key`
means no `private.pem`, `write_key` an empty one, and whoever has a key has the file's.
It is kept because of `Alone`: without a race at most one process is between `exists()` and
the end of the write, so nobody else relies on the file while it is truncated. `Owned` says
the same of what has been signed: manifest, tokens and registrations. `Agreed` is about
`manifest.json` and holds through races too: a process in sync has no other writer beside it,
finds the file torn when it is about to fill it and with its manifest afterwards, and what
was returned is in the file with nobody writing; so a later death or failure
leaves it there. The refinement maps
`WriteKey` to `Choose`, and a process's way into and out of the places where it acts as the
agent to `Adopt` and `Drop`.
For `Settles` and the refinement every step but the two that write the key is shown to be
of one kind (`Moves`): it leaves `private.pem` alone, generates a key only where there is
none, and takes a process's key from the file or keeps the one it has.

*Flow.* `AtMostOnce` needs three facts: `Posted` (a message or a busy state belongs
to an invocation that was made, with a token that exists), `RanStarted` (an
invocation that was executed was sent to the token's subject, and that agent's log
holds a `started` row for the token), and that logs only grow (`NextGrows`: every step
keeps every event, though a countersignature replaces its row). A second execution
of the token would be at the same agent, whose replay check finds the row.
`KeysCounted` bounds key versions by the restarts and is needed for the type.
`WithinManifest` combines the checks of `Accept` by `NoEscalation`. `Authorised` and `Lifetime`
add `IssuedTerms` (a token's issuer has its `issued` row, with the token's subject and scope,
and its lifetime is at most `MaxTTL`) and `RanWithinScope`.

*Cross-signing.* `CrossSigned` and `SameRecord` speak of closed rows; what makes them inductive
is about open ones and about messages. `EntryFits`: the event of a completion is the one
its call determines, and while it is pending it is the delegatee's, signed by the delegatee alone.
`MessageFits`: the event of an answer is in the delegatee's log, that of a countersignature
is closed in the delegator's. Both are kept because logs only grow and what is closed
stays closed (`ClosedKept`).

*Verdicts.* `SameVerdict` compares signatures, keys included, and a key may change between
signing and countersigning. Its invariant follows one delegation through its messages. While the
answer is on its way (`AnswerFits`) it is the only message about its call and carries exactly
the signature of the delegatee's pending row; the push (`PushFits`) carries exactly what that
row lacks of the delegator's. Both need that a completion has one row in a log (`OneRow`), and
that nothing is said about an execution before it has ended (`Once`). The other entries are in
one log only, once (`OneOther`), because what gave rise to one no longer can (`Spent`).

*Workers.* `OnePassedPerWorker` (of the requests with one token each worker has let at most
one past the replay check) is kept because a worker is in one section at a time
(`OneSection`) and what has run is on record (`RanOnRecord`), so that a worker that has
passed one request finds its row when it checks the next. `OncePerWorker` then counts by an injection
from requests to workers. `LateStopped` strengthens `RecordedIsFinal`: a late request is
stopped before it passes.

*Protocol.* The refinement reads the state of `CrossSign` off the two logs: what the
delegator's and the delegatee's rows about a token say. Beyond the invariant of the verdicts
it needs `RowsFit` (a row is about an issued token, and one about an invocation is about an
execution of that token, which a dispute finds ended) and `NeverBoth` (what is closed is
not disputed). `Readings` says what
the two logs can then read; each action of the flow changes the reading of one token at
most, as the protocol allows, and leaves the others alone (`Same`).

*Return.* `ReturnedClosed` is about runs without faults, so its invariant `Reliable` holds
under `~Faults` only: keys are the first ones (`FirstKeys`), whoever executes for a caller
knows it (`CallerKnown`), hence a push on its way is one the delegatee is going to
accept (`PushWelcome`), an acknowledgement is sent by a delegatee whose entry is closed
(`AckClosed`), and `Outcomes` ties the client's state to both entries.

*Demo.* The script's statements are actions of the flow, so the flow's invariants are kept by
every step of `DemoNext`; `OneHostTick`, which moves both clocks at once, is shown to keep
them on its own. `Progress` ties the script's place to the flow: which token and
invocation it has, and that past `await` the client has agreed. The assertions then follow
from `ClosedOnReturn`'s invariant, and `FirstSigs` gives the two signatures.

*Payloads.* The invariant follows what is signed and sent back to the payload. That it
verifies again is shown dict by dict. Texts are in a total order (`TextsTotal`, at their
first difference), so where no two numbers are swapped the order of keys is that of
their texts (`OrderKept`), the strings that arrive are sorted as the keys were (`SortKept`),
and the bytes are the same (`CanonicalKept`); strings and `None` are never swapped. For naturals
of one width `WidthKept` adds that numbers are in the order of their digits: at the first
difference one number falls behind, and a later digit never makes that good
(`BeforeMeansLess`). `UpToCounts` shows that the recursive function of the model exists and
computes the number.

*Names.* `Pieces` says what cutting a text at the first or last separator yields, and
`UriReadsBack` follows for texts of any length; `Filed` carries it to what `init` has filed.
`Numbered` bounds the keys by the runs and keeps them apart.

Induction over positions in a text is by a least counterexample (`Least`, from the
well-foundedness of the naturals): the induction theorems of the library take an operator
as a parameter, which the provers cannot instantiate.

Only model-checked: the liveness properties `InvokeReturns`, `CrossSignedEventually` and
`DemoCompletes`; liveness under fairness and ENABLED are out of the prover's reach.

## 5. Not modelled

- base64url, the split of a JWS at its dots, the fields of a JWK, PEM: encodings that
  are undone by the library functions that made them.
- Agent names with a slash: `pathlib` gives them a meaning of their own.
- Malformed requests (a missing header or field), which are answered before any
  state is read; a `ttl` outside its range, which raises before anything is signed.
- `atf verify` and `atf decode`, which change nothing; `atf serve`, which the comment of
  `cli.py` mentions and the code does not have.
- The audit log file inside `AgentStore`: opening it is part of `Chmod`'s step, what it
  holds is `AuditLog`'s subject.
- L2, L3, L5, L8, L9 and the adapters, of which the repository has a design only.
- Error classes and package exports, which have no behaviour of their own.

## 6. Plan

Done, in this order: `Journal`, `AuditLog` and its proofs; `Capability`; `CrossSign`,
`DelegationFlow` and its proofs; `OneKey`, `AgentStore` and its proofs; `Workers` and its
proofs; `CodingToImage`, `OutcomeExchange`, `AgentNames`; the refinement of `CrossSign`, the
return of `invoke`, and the proofs of those three.

Every safety property of a passing run is also a theorem. What would add most next:

1. `SortedKeys` of a payload exists and is strictly ascending, so that two dicts with the
   same keys and value have the same hash.
2. One worker process is what `DelegationFlow` takes the server to be: an abstract
   specification of the endpoint that both implement.
3. The chain of a single writer as a theorem of its own, from `Forks` and `Rooted`.
