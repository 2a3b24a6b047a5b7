------------------------------- MODULE AgentNames -------------------------------
(***************************************************************************)
(* How an agent is named: the URI and the identity document of identity.py,*)
(* the two ways cli.py lets one type it, and the directory under ~/.atf    *)
(* that Agent.create derives from it.  `atf init` is run again and again   *)
(* on one host.                                                            *)
(*                                                                         *)
(* A text is a sequence of characters; the prefix "agent://" counts as one.*)
(* Names with a slash are left out (ArgumentAssumption): pathlib would take*)
(* such a name for several parts of a path and drop "." and empty ones,    *)
(* where the model compares texts.                                         *)
(***************************************************************************)
EXTENDS Integers, SequencesExt

CONSTANTS
  Letter,     \* characters without a meaning of their own
  Argument,   \* what is typed for an agent
  MaxRuns     \* bound on the runs of `atf init`

Char == Letter \cup {".", "/", "#"}
Scheme == "agent://"

ASSUME LetterAssumption == Letter \cap {".", "/", "#", Scheme} = {} /\ "1" \in Letter
(* The prefix stands at the start or nowhere; a slash beyond the first would be in a
   name. *)
ASSUME ArgumentAssumption ==
  \A text \in Argument:
    /\ text \in Seq(Char \cup {Scheme})
    /\ \A i \in 2..Len(text): text[i] \in Char
    /\ \A i, j \in 1..Len(text): text[i] = "/" /\ text[j] = "/" => i = j
ASSUME RunsAssumption == MaxRuns \in Nat

VARIABLES
  keyIn,    \* directory under ~/.atf -> the key in its private.pem
  printed,  \* identity documents, and what was typed to get them
  rejected  \* arguments that raised

vars == <<keyIn, printed, rejected>>

--------------------------------------------------------------------------------
First(char, text) == SelectInSeq(text, LAMBDA x: x = char)
Final(char, text) == SelectLastInSeq(text, LAMBDA x: x = char)

(* text.split(char, 1) and text.rsplit(char, 1), at the place found. *)
Before(text, i) == SubSeq(text, 1, i - 1)
After(text, i) == SubSeq(text, i + 1, Len(text))

(* Variant with a bug: the pair's separator. *)
DottedUri(owner, name, kid) == <<Scheme>> \o owner \o <<".">> \o name \o <<"#">> \o kid

(* _agent_uri *)
AgentUri(owner, name, kid) == <<Scheme>> \o owner \o <<"/">> \o name \o <<"#">> \o kid

IsUri(text) == IsPrefix(<<Scheme>>, text)

(* Variant with a bug: the scheme is not cut off. *)
SchemeKept(uri) == Before(uri, First("#", uri))

(* What is between the scheme and the first "#". *)
Body(uri) == Tail(Before(uri, First("#", uri)))

(* parse_agent_uri: one that does not raise has a "#" and a "/" before it. *)
Parses(uri) ==
  /\ IsUri(uri)
  /\ First("#", uri) # 0
  /\ First("/", Body(uri)) # 0

ParseAgentUri(uri) ==
  LET slash == First("/", Body(uri)) IN
  [owner |-> Before(Body(uri), slash), name |-> After(Body(uri), slash),
   kid |-> After(uri, First("#", uri))]

(* Variant with a bug: the first dot. *)
FirstDot(text) == First(".", text)

(* "Split at the LAST dot" *)
LastDot(text) == Final(".", text)

(* _resolve raises, or returns an owner and a name; a URI's kid is dropped. *)
Resolves(text) ==
  IF IsUri(text) THEN Parses(text) ELSE First(".", text) # 0 /\ First("/", text) = 0

Resolve(text) ==
  IF IsUri(text)
  THEN [owner |-> ParseAgentUri(text).owner, name |-> ParseAgentUri(text).name]
  ELSE [owner |-> Before(text, LastDot(text)), name |-> After(text, LastDot(text))]

(* Variant with a bug: nothing between owner and name. *)
JoinedDirectory(a) == a.owner \o a.name

(* Path.home() / ".atf" / f"{owner}.{name}" *)
Directory(a) == a.owner \o <<".">> \o a.name

(* identity_document *)
Document(a, key, text) ==
  [owner |-> a.owner, name |-> a.name, id |-> AgentUri(a.owner, a.name, <<"1">>),
   key |-> key, typed |-> text]

TypeOK ==
  /\ \A dir \in DOMAIN keyIn: dir \in Seq(Char) /\ keyIn[dir] \in 1..MaxRuns
  /\ \A d \in printed: d.owner \in Seq(Char) /\ d.name \in Seq(Char) /\ d.key \in 1..MaxRuns
  /\ rejected \subseteq Argument

Init ==
  /\ keyIn = [dir \in {} |-> 0]
  /\ printed = {}
  /\ rejected = {}

--------------------------------------------------------------------------------
(* Agent.create: the key in the directory, or a new one. *)
KeyFor(dir) == IF dir \in DOMAIN keyIn THEN keyIn[dir] ELSE Cardinality(DOMAIN keyIn) + 1

(* `atf init` *)
InitAgent(text) ==
  LET a == Resolve(text)
      dir == Directory(a) IN
  /\ Cardinality(printed) < MaxRuns
  /\ Resolves(text)
  /\ keyIn' = [d \in DOMAIN keyIn \cup {dir} |-> KeyFor(d)]
  /\ printed' = printed \cup {Document(a, KeyFor(dir), text)}
  /\ UNCHANGED rejected

(* UsageError or IdentityError. *)
Reject(text) ==
  /\ ~Resolves(text)
  /\ rejected' = rejected \cup {text}
  /\ UNCHANGED <<keyIn, printed>>

Next == \E text \in Argument: InitAgent(text) \/ Reject(text)

Spec == Init /\ [][Next]_vars

--------------------------------------------------------------------------------
SameAgent(d, e) == d.owner = e.owner /\ d.name = e.name

Dotted(d) == First(".", d.name) # 0

(* parse_agent_uri returns the agent that the identity document was printed for. *)
NamesItsAgent(d) ==
  /\ Parses(d.id)
  /\ ParseAgentUri(d.id) = [owner |-> d.owner, name |-> d.name, kid |-> <<"1">>]

(* The id that is printed names the agent it was printed for, whichever way the agent
   was typed, as long as no "#" was typed in a pair: parse_agent_uri undoes _agent_uri. *)
IdReadsBack ==
  \A d \in printed: IsUri(d.typed) \/ First("#", d.typed) = 0 => NamesItsAgent(d)

(* The pair and the URI of one agent lead to one identity and one directory, as long
   as its name has no dot. *)
PairMeansUri ==
  \A d, e \in printed:
    /\ IsUri(d.typed) /\ ~Dotted(d)
    /\ e.typed = d.owner \o <<".">> \o d.name
    => SameAgent(d, e) /\ d.key = e.key

(* Two agents that live side by side under ~/.atf have keys of their own, as long as
   their names have no dot. *)
OwnKey ==
  \A d, e \in printed:
    d.key = e.key /\ ~Dotted(d) /\ ~Dotted(e) => SameAgent(d, e)
================================================================================
