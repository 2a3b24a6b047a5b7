---------------------------- MODULE AgentNamesProofs ----------------------------
(***************************************************************************)
(* For any letters, arguments and number of runs: the printed id is read   *)
(* back as the agent it was printed for, the two ways to type an agent mean*)
(* the same one, and agents whose names have no dot do not share a key.    *)
(***************************************************************************)
EXTENDS AgentNames, FiniteSetTheorems, WellFoundedInduction, TLAPS

Text == Seq(Char)
Lacks(text, char) == \A i \in 1..Len(text): text[i] # char

(* A document is of the agent its argument resolves to, with the key that is filed
   under the agent's name. *)
Filed(d) ==
  /\ d.typed \in Argument /\ Resolves(d.typed)
  /\ d.owner = Resolve(d.typed).owner /\ d.name = Resolve(d.typed).name
  /\ d.id = AgentUri(d.owner, d.name, <<"1">>)
  /\ Directory(d) \in DOMAIN keyIn /\ d.key = keyIn[Directory(d)]

(* Keys are numbered in the order of their directories, each of which was made for a
   document. *)
Numbered ==
  /\ IsFiniteSet(DOMAIN keyIn) /\ IsFiniteSet(printed)
  /\ \A dir \in DOMAIN keyIn: keyIn[dir] \in 1..Cardinality(DOMAIN keyIn)
  /\ \A x, y \in DOMAIN keyIn: keyIn[x] = keyIn[y] => x = y
  /\ Cardinality(DOMAIN keyIn) <= Cardinality(printed)
  /\ Cardinality(printed) <= MaxRuns

NInv ==
  /\ DOMAIN keyIn \subseteq Text
  /\ rejected \subseteq Argument
  /\ \A d \in printed: Filed(d)
  /\ Numbered
--------------------------------------------------------------------------------
(* Naturals have a least element, and bounded ones a greatest. *)
LEMMA Least ==
  ASSUME NEW T \in SUBSET Nat, T # {}
  PROVE  \E x \in T: \A y \in T: x <= y
<1>1. PICK R: R = {ss \in Nat \X Nat: ss[1] < ss[2]}
  OBVIOUS
<1>2. PICK x \in T: \A y \in T: ~ (<<y, x>> \in R)
  BY <1>1, NatLessThanWellFounded, WFMin DEF OpToRel
<1>3. ASSUME NEW y \in T
      PROVE  x <= y
  <2>1. <<y, x>> \in Nat \X Nat /\ <<y, x>>[1] = y /\ <<y, x>>[2] = x
    OBVIOUS
  <2>2. QED
    BY <1>1, <1>2, <2>1
<1>4. QED
  BY <1>3

LEMMA Greatest ==
  ASSUME NEW n \in Nat, NEW T \in SUBSET (1..n), T # {}
  PROVE  \E x \in T: \A y \in T: x >= y
<1>1. PICK M: M = {n - t: t \in T}
  OBVIOUS
<1>2. M \in SUBSET Nat /\ M # {}
  <2>1. \A t \in T: n - t \in Nat /\ n - t \in M
    BY <1>1
  <2>2. QED
    BY <1>1, <2>1
<1>3. PICK m \in M: \A k \in M: m <= k
  BY <1>2, Least
<1>4. PICK x \in T: m = n - x
  BY <1>1
<1>5. ASSUME NEW y \in T
      PROVE  x >= y
  <2>1. n - y \in M
    BY <1>1
  <2>2. QED
    BY <1>3, <1>4, <2>1
<1>6. QED
  BY <1>5

(* First and Final are the first and the last place of a character, or 0. *)
LEMMA FirstIs ==
  ASSUME NEW S, NEW text \in Seq(S), NEW char
  PROVE  LET at == First(char, text) IN
         \/ at = 0 /\ Lacks(text, char)
         \/ /\ at \in 1..Len(text) /\ text[at] = char
            /\ \A i \in 1..Len(text): text[i] = char => at <= i
<1> DEFINE I == {i \in 1..Len(text): text[i] = char}
<1>1. First(char, text) = IF I # {} THEN Min(I) ELSE 0
  BY DEF First, SelectInSeq
<1>2. CASE I = {}
  BY <1>1, <1>2 DEF Lacks
<1>3. CASE I # {}
  <2> I \in SUBSET Nat /\ Len(text) \in Nat
    OBVIOUS
  <2>1. \E x \in I: \A y \in I: x <= y
    <3> HIDE DEF I
    <3> QED
      BY <1>3, Least
  <2>2. Min(I) \in I /\ \A y \in I: Min(I) <= y
    BY <2>1 DEF Min
  <2>3. QED
    BY <1>1, <1>3, <2>2
<1>4. QED
  BY <1>2, <1>3

LEMMA FinalIs ==
  ASSUME NEW S, NEW text \in Seq(S), NEW char
  PROVE  LET at == Final(char, text) IN
         \/ at = 0 /\ Lacks(text, char)
         \/ /\ at \in 1..Len(text) /\ text[at] = char
            /\ \A i \in 1..Len(text): text[i] = char => at >= i
<1> DEFINE I == {i \in 1..Len(text): text[i] = char}
<1>1. Final(char, text) = IF I # {} THEN Max(I) ELSE 0
  BY DEF Final, SelectLastInSeq
<1>2. CASE I = {}
  BY <1>1, <1>2 DEF Lacks
<1>3. CASE I # {}
  <2> I \in SUBSET (1..Len(text)) /\ Len(text) \in Nat
    OBVIOUS
  <2>1. \E x \in I: \A y \in I: x >= y
    <3> HIDE DEF I
    <3> QED
      BY <1>3, Greatest
  <2>2. Max(I) \in I /\ \A y \in I: Max(I) >= y
    BY <2>1 DEF Max
  <2>3. QED
    BY <1>1, <1>3, <2>2
<1>4. QED
  BY <1>2, <1>3

(* Two texts joined by a character: their places, and what a cut at it returns. *)
LEMMA Joined ==
  ASSUME NEW S, NEW s \in Seq(S), NEW c \in S, NEW u \in Seq(S)
  PROVE  LET w == s \o <<c>> \o u IN
         /\ w \in Seq(S) /\ Len(w) = Len(s) + 1 + Len(u)
         /\ \A i \in 1..Len(s): w[i] = s[i]
         /\ w[Len(s) + 1] = c
         /\ \A i \in 1..Len(u): w[Len(s) + 1 + i] = u[i]
<1> DEFINE v == s \o <<c>>
<1>1. /\ v \in Seq(S) /\ Len(v) = Len(s) + 1
      /\ \A i \in 1..Len(s): v[i] = s[i]
      /\ v[Len(s) + 1] = c
  OBVIOUS
<1> HIDE DEF v
<1>2. /\ v \o u \in Seq(S) /\ Len(v \o u) = Len(v) + Len(u)
      /\ \A i \in 1..Len(v): (v \o u)[i] = v[i]
      /\ \A i \in 1..Len(u): (v \o u)[Len(v) + i] = u[i]
  BY <1>1
<1>3. \A i \in 1..Len(s): (v \o u)[i] = s[i]
  BY <1>1, <1>2
<1>4. (v \o u)[Len(s) + 1] = c
  BY <1>1, <1>2
<1>5. QED
  BY <1>1, <1>2, <1>3, <1>4 DEF v

LEMMA CutAt ==
  ASSUME NEW S, NEW s \in Seq(S), NEW c \in S, NEW u \in Seq(S)
  PROVE  LET w == s \o <<c>> \o u IN
         Before(w, Len(s) + 1) = s /\ After(w, Len(s) + 1) = u
<1> DEFINE w == s \o <<c>> \o u
<1>1. /\ w \in Seq(S) /\ Len(w) = Len(s) + 1 + Len(u)
      /\ \A i \in 1..Len(s): w[i] = s[i]
      /\ \A i \in 1..Len(u): w[Len(s) + 1 + i] = u[i]
  BY Joined
<1> HIDE DEF w
<1>2. Before(w, Len(s) + 1) = s
  BY <1>1 DEF Before
<1>3. After(w, Len(s) + 1) = u
  BY <1>1 DEF After
<1>4. QED
  BY <1>2, <1>3 DEF w

LEMMA FirstJoint ==
  ASSUME NEW S, NEW s \in Seq(S), NEW c \in S, NEW u \in Seq(S), Lacks(s, c)
  PROVE  First(c, s \o <<c>> \o u) = Len(s) + 1
<1> DEFINE w == s \o <<c>> \o u
<1>1. /\ w \in Seq(S) /\ Len(w) = Len(s) + 1 + Len(u)
      /\ \A i \in 1..Len(s): w[i] = s[i]
      /\ w[Len(s) + 1] = c
  BY Joined
<1> HIDE DEF w
<1>2. PICK at: at = First(c, w)
  OBVIOUS
<1>3. Len(s) + 1 \in 1..Len(w)
  BY <1>1
<1>4. ~ Lacks(w, c)
  BY <1>1, <1>3 DEF Lacks
<1>5. /\ at \in 1..Len(w) /\ w[at] = c
      /\ \A i \in 1..Len(w): w[i] = c => at <= i
  BY <1>1, <1>2, <1>4, FirstIs
<1>6. at <= Len(s) + 1
  BY <1>1, <1>3, <1>5
<1>7. ~ (at \in 1..Len(s))
  BY <1>1, <1>5 DEF Lacks
<1>8. QED
  BY <1>2, <1>5, <1>6, <1>7 DEF w

LEMMA FinalJoint ==
  ASSUME NEW S, NEW s \in Seq(S), NEW c \in S, NEW u \in Seq(S), Lacks(u, c)
  PROVE  Final(c, s \o <<c>> \o u) = Len(s) + 1
<1> DEFINE w == s \o <<c>> \o u
<1>1. /\ w \in Seq(S) /\ Len(w) = Len(s) + 1 + Len(u)
      /\ w[Len(s) + 1] = c
      /\ \A i \in 1..Len(u): w[Len(s) + 1 + i] = u[i]
  BY Joined
<1> HIDE DEF w
<1>2. PICK at: at = Final(c, w)
  OBVIOUS
<1>3. Len(s) + 1 \in 1..Len(w)
  BY <1>1
<1>4. ~ Lacks(w, c)
  BY <1>1, <1>3 DEF Lacks
<1>5. /\ at \in 1..Len(w) /\ w[at] = c
      /\ \A i \in 1..Len(w): w[i] = c => at >= i
  BY <1>1, <1>2, <1>4, FinalIs
<1>6. at >= Len(s) + 1
  BY <1>1, <1>3, <1>5
<1>7. ASSUME at # Len(s) + 1
      PROVE  FALSE
  <2>1. PICK i \in 1..Len(u): at = Len(s) + 1 + i
    <3>1. at - (Len(s) + 1) \in 1..Len(u)
      BY <1>1, <1>5, <1>6, <1>7
    <3>2. at = Len(s) + 1 + (at - (Len(s) + 1))
      BY <1>5
    <3>3. QED
      BY <3>1, <3>2
  <2>2. QED
    BY <1>1, <1>5, <2>1 DEF Lacks
<1>8. QED
  BY <1>2, <1>7 DEF w
--------------------------------------------------------------------------------
Symbol == Char \cup {Scheme}

(* The scheme is cut off. *)
LEMMA SchemeCut ==
  ASSUME NEW body \in Seq(Symbol)
  PROVE  /\ <<Scheme>> \o body \in Seq(Symbol) /\ IsUri(<<Scheme>> \o body)
         /\ Tail(<<Scheme>> \o body) = body
<1> DEFINE u == <<Scheme>> \o body
<1>1. <<Scheme>> \in Seq(Symbol) /\ Len(<<Scheme>>) = 1 /\ <<Scheme>>[1] = Scheme
  BY DEF Symbol
<1>2. /\ u \in Seq(Symbol) /\ Len(u) = 1 + Len(body) /\ u[1] = Scheme
      /\ \A i \in 1..Len(body): u[i + 1] = body[i]
  BY <1>1
<1> HIDE DEF u
<1>3. SubSeq(<<Scheme>>, 1, 1) = SubSeq(u, 1, 1)
  BY <1>1, <1>2
<1>4. IsPrefix(<<Scheme>>, u)
  BY <1>1, <1>2, <1>3 DEF IsPrefix
<1>5. Tail(u) = body
  BY <1>2
<1>6. QED
  BY <1>2, <1>4, <1>5 DEF u, IsUri

(* parse_agent_uri undoes _agent_uri, for an owner and a name without the separators
   that end them. *)
THEOREM UriReadsBack ==
  ASSUME NEW owner \in Text, NEW name \in Text, NEW kid \in Text,
         Lacks(owner, "/"), Lacks(owner, "#"), Lacks(name, "#")
  PROVE  /\ Parses(AgentUri(owner, name, kid))
         /\ ParseAgentUri(AgentUri(owner, name, kid)) =
              [owner |-> owner, name |-> name, kid |-> kid]
<1> DEFINE body == owner \o <<"/">> \o name
           front == <<Scheme>> \o body
           uri == front \o <<"#">> \o kid
<1>1. /\ owner \in Seq(Symbol) /\ name \in Seq(Symbol) /\ kid \in Seq(Symbol)
      /\ "/" \in Symbol /\ "#" \in Symbol /\ Scheme # "#" /\ Scheme # "/"
  BY DEF Text, Symbol, Char, Scheme
<1>2. /\ body \in Seq(Symbol) /\ Len(body) = Len(owner) + 1 + Len(name)
      /\ \A i \in 1..Len(owner): body[i] = owner[i]
      /\ body[Len(owner) + 1] = "/"
      /\ \A i \in 1..Len(name): body[Len(owner) + 1 + i] = name[i]
  BY <1>1, Joined
<1>3. First("/", body) = Len(owner) + 1
  BY <1>1, FirstJoint
<1>4. Before(body, Len(owner) + 1) = owner /\ After(body, Len(owner) + 1) = name
  BY <1>1, CutAt
<1>5. Lacks(body, "#")
  <2>1. ASSUME NEW i \in 1..Len(body)
        PROVE  body[i] # "#"
    <3>1. CASE i <= Len(owner)
      BY <1>2, <3>1 DEF Lacks, Text
    <3>2. CASE i = Len(owner) + 1
      BY <1>2, <3>2
    <3>3. CASE i > Len(owner) + 1
      <4>1. PICK k \in 1..Len(name): i = Len(owner) + 1 + k
        <5>1. i - (Len(owner) + 1) \in 1..Len(name)
          BY <1>1, <1>2, <3>3
        <5>2. i = Len(owner) + 1 + (i - (Len(owner) + 1))
          BY <1>1
        <5>3. QED
          BY <5>1, <5>2
      <4>2. QED
        BY <1>2, <4>1 DEF Lacks
    <3>4. QED
      BY <1>1, <3>1, <3>2, <3>3
  <2>2. QED
    BY <2>1 DEF Lacks
<1> HIDE DEF body
<1>6. /\ front \in Seq(Symbol) /\ Tail(front) = body
  BY <1>2, SchemeCut
<1>7. Lacks(front, "#")
  <2>1. /\ Len(front) = 1 + Len(body) /\ front[1] = Scheme
        /\ \A i \in 1..Len(body): front[i + 1] = body[i]
    BY <1>2
  <2>2. ASSUME NEW i \in 1..Len(front), i # 1
        PROVE  i - 1 \in 1..Len(body) /\ front[i] = body[i - 1]
    <3>1. i - 1 \in 1..Len(body) /\ i = (i - 1) + 1
      BY <1>2, <2>1, <2>2
    <3>2. QED
      BY <2>1, <3>1
  <2>3. QED
    BY <1>1, <1>5, <2>1, <2>2 DEF Lacks
<1> HIDE DEF front
<1>8. First("#", uri) = Len(front) + 1
  BY <1>1, <1>6, <1>7, FirstJoint
<1>9. Before(uri, Len(front) + 1) = front /\ After(uri, Len(front) + 1) = kid
  BY <1>1, <1>6, CutAt
<1>10. Body(uri) = body
  BY <1>6, <1>8, <1>9 DEF Body
<1>11. IsUri(uri)
  <2>1. IsUri(front)
    BY <1>2, SchemeCut DEF front
  <2>2. /\ Len(front) <= Len(uri) /\ Len(front) \in Nat /\ uri \in Seq(Symbol)
        /\ \A i \in 1..Len(front): uri[i] = front[i]
    BY <1>1, <1>6, Joined
  <2>3. QED
    BY <1>6, <2>1, <2>2 DEF IsUri, IsPrefix
<1>12. AgentUri(owner, name, kid) = uri
  BY <1>1 DEF AgentUri, front, body
<1> HIDE DEF uri
<1>13. QED
  BY <1>2, <1>3, <1>4, <1>6, <1>8, <1>9, <1>10, <1>11, <1>12 DEF Parses, ParseAgentUri
--------------------------------------------------------------------------------
(* The two parts of a text that is cut at one of its characters. *)
LEMMA Pieces ==
  ASSUME NEW S, NEW text \in Seq(S), NEW at \in 1..Len(text)
  PROVE  /\ Before(text, at) \in Seq(S) /\ After(text, at) \in Seq(S)
         /\ Len(Before(text, at)) = at - 1 /\ Len(After(text, at)) = Len(text) - at
         /\ \A i \in 1..(at - 1): Before(text, at)[i] = text[i]
         /\ \A i \in 1..(Len(text) - at): After(text, at)[i] = text[at + i]
         /\ \A char: Lacks(text, char) => /\ Lacks(Before(text, at), char)
                                         /\ Lacks(After(text, at), char)
<1>1. /\ Before(text, at) \in Seq(S) /\ After(text, at) \in Seq(S)
      /\ Len(Before(text, at)) = at - 1 /\ Len(After(text, at)) = Len(text) - at
      /\ \A i \in 1..(at - 1): Before(text, at)[i] = text[i]
      /\ \A i \in 1..(Len(text) - at): After(text, at)[i] = text[at + i]
  BY DEF Before, After
<1>2. ASSUME NEW char, Lacks(text, char)
      PROVE  Lacks(Before(text, at), char) /\ Lacks(After(text, at), char)
  <2>1. \A i \in 1..(at - 1): i \in 1..Len(text)
    OBVIOUS
  <2>2. \A i \in 1..(Len(text) - at): at + i \in 1..Len(text)
    OBVIOUS
  <2>3. QED
    BY <1>1, <1>2, <2>1, <2>2 DEF Lacks
<1>3. QED
  BY <1>1, <1>2

(* What is cut off before the first occurrence of a character lacks it, and what is cut
   off after the last one. *)
LEMMA BeforeFirst ==
  ASSUME NEW S, NEW text \in Seq(S), NEW char, First(char, text) # 0
  PROVE  /\ First(char, text) \in 1..Len(text) /\ text[First(char, text)] = char
         /\ Lacks(Before(text, First(char, text)), char)
<1>1. PICK at: at = First(char, text)
  OBVIOUS
<1>2. /\ at \in 1..Len(text) /\ text[at] = char
      /\ \A i \in 1..Len(text): text[i] = char => at <= i
  BY <1>1, FirstIs
<1>3. \A i \in 1..(at - 1): i \in 1..Len(text) /\ ~ (at <= i)
  BY <1>2
<1>4. /\ Len(Before(text, at)) = at - 1
      /\ \A i \in 1..(at - 1): Before(text, at)[i] = text[i]
  BY <1>2, Pieces
<1>5. Lacks(Before(text, at), char)
  BY <1>2, <1>3, <1>4 DEF Lacks
<1>6. QED
  BY <1>1, <1>2, <1>5

(* An owner and a name that were read from an argument. *)
Read(a, text) ==
  /\ a.owner \in Text /\ a.name \in Text /\ Lacks(a.owner, "/")
  /\ IsUri(text) \/ First("#", text) = 0 => Lacks(a.owner, "#") /\ Lacks(a.name, "#")

(* parse_agent_uri on a URI that was typed. *)
LEMMA UriRead ==
  ASSUME NEW text \in Argument, IsUri(text), Resolves(text)
  PROVE  Read(Resolve(text), text)
<1> DEFINE hash == First("#", text)
           front == Before(text, hash)
           body == Tail(front)
           slash == First("/", body)
<1>1. /\ text \in Seq(Symbol) /\ \A i \in 2..Len(text): text[i] \in Char
      /\ hash # 0 /\ slash # 0
  BY ArgumentAssumption DEF Resolves, Parses, Body, Symbol
<1>2. hash \in 1..Len(text) /\ text[hash] = "#" /\ Lacks(front, "#")
  BY <1>1, BeforeFirst
<1>3. text[1] = Scheme
  BY <1>1 DEF IsUri, IsPrefix
<1> HIDE DEF hash
<1>4. hash \in 2..Len(text)
  BY <1>2, <1>3 DEF Scheme
<1>5. /\ front \in Seq(Symbol) /\ Len(front) = hash - 1
      /\ \A i \in 1..(hash - 1): front[i] = text[i]
  BY <1>1, <1>2, Pieces
<1> HIDE DEF front
<1>6. /\ body \in Seq(Symbol) /\ Len(body) = hash - 2
      /\ \A i \in 1..(hash - 2): body[i] = front[i + 1]
  BY <1>4, <1>5
<1>7. \A i \in 1..(hash - 2): i + 1 \in 1..(hash - 1) /\ i + 1 \in 2..Len(text)
  BY <1>1, <1>4
<1> HIDE DEF body
<1>8. body \in Text /\ Lacks(body, "#")
  <2>1. ASSUME NEW i \in 1..Len(body)
        PROVE  body[i] \in Char /\ body[i] # "#"
    <3>1. i + 1 \in 1..(hash - 1) /\ i + 1 \in 2..Len(text) /\ body[i] = front[i + 1]
      BY <1>6, <1>7
    <3>2. front[i + 1] = text[i + 1] /\ front[i + 1] # "#"
      BY <1>2, <1>5, <3>1 DEF Lacks
    <3>3. QED
      BY <1>1, <3>1, <3>2
  <2>2. QED
    BY <1>6, <2>1 DEF Text, Lacks
<1>9. slash \in 1..Len(body) /\ Lacks(Before(body, slash), "/")
  BY <1>1, <1>8, BeforeFirst DEF Text
<1>10. /\ Before(body, slash) \in Text /\ After(body, slash) \in Text
       /\ Lacks(Before(body, slash), "#") /\ Lacks(After(body, slash), "#")
  BY <1>8, <1>9, Pieces DEF Text
<1>11. /\ Resolve(text).owner = Before(body, slash)
       /\ Resolve(text).name = After(body, slash)
  BY DEF Resolve, ParseAgentUri, Body, hash, front, body
<1>12. QED
  BY <1>9, <1>10, <1>11 DEF Read

(* The pair that was typed. *)
LEMMA PairText ==
  ASSUME NEW text \in Argument, ~IsUri(text)
  PROVE  text \in Text
<1>1. /\ text \in Seq(Symbol) /\ \A i \in 2..Len(text): text[i] \in Char
  BY ArgumentAssumption DEF Symbol
<1>2. ASSUME Len(text) >= 1
      PROVE  text[1] # Scheme
  <2>1. SUFFICES ASSUME text[1] = Scheme
                 PROVE  IsUri(text)
    OBVIOUS
  <2>2. SubSeq(<<Scheme>>, 1, 1) = SubSeq(text, 1, 1)
    BY <1>1, <1>2, <2>1
  <2>3. QED
    BY <1>1, <1>2, <2>2 DEF IsUri, IsPrefix
<1>3. \A i \in 1..Len(text): text[i] \in Char
  BY <1>1, <1>2 DEF Symbol
<1>4. QED
  BY <1>1, <1>3 DEF Text

LEMMA PairRead ==
  ASSUME NEW text \in Argument, ~IsUri(text), Resolves(text)
  PROVE  Read(Resolve(text), text)
<1>1. PICK dot: dot = LastDot(text)
  OBVIOUS
<1>2. text \in Text /\ First(".", text) # 0 /\ First("/", text) = 0
  BY PairText DEF Resolves
<1>3. dot \in 1..Len(text)
  <2>1. ~ Lacks(text, ".")
    BY <1>2, BeforeFirst DEF Lacks, Text
  <2>2. QED
    BY <1>1, <1>2, <2>1, FinalIs DEF LastDot, Text
<1>4. \A char: First(char, text) = 0 => Lacks(text, char)
  BY <1>2, FirstIs DEF Text
<1>5. Resolve(text).owner = Before(text, dot) /\ Resolve(text).name = After(text, dot)
  BY <1>1 DEF Resolve
<1>6. QED
  BY <1>2, <1>3, <1>4, <1>5, Pieces DEF Read, Text

LEMMA ResolvedRead ==
  ASSUME NEW text \in Argument, Resolves(text)
  PROVE  Read(Resolve(text), text)
BY UriRead, PairRead--------------------------------------------------------------------------------
(* `atf init`: the directories there were keep their keys, and the agent's directory is
   there afterwards. *)
LEMMA KeysKept ==
  ASSUME NInv, NEW text \in Argument, InitAgent(text)
  PROVE  LET dir == Directory(Resolve(text)) IN
         /\ DOMAIN keyIn' = DOMAIN keyIn \cup {dir} /\ dir \in Text
         /\ \A d \in DOMAIN keyIn: keyIn'[d] = keyIn[d]
         /\ dir \notin DOMAIN keyIn => keyIn'[dir] = Cardinality(DOMAIN keyIn) + 1
<1>1. Directory(Resolve(text)) \in Text
  <2>1. /\ Resolve(text).owner \in Text /\ Resolve(text).name \in Text /\ "." \in Char
    BY ResolvedRead DEF InitAgent, Read, Char
  <2>2. QED
    BY <2>1, Joined DEF Text, Directory
<1>2. QED
  BY <1>1 DEF InitAgent, KeyFor

(* The document that is printed is of the agent that was typed. *)
LEMMA DocumentFits ==
  ASSUME NInv, NEW text \in Argument, InitAgent(text)
  PROVE  \E doc: /\ printed' = printed \cup {doc}
                 /\ Directory(doc) = Directory(Resolve(text))
                 /\ Filed(doc)'
<1> DEFINE a == Resolve(text)
           dir == Directory(a)
           doc == Document(a, KeyFor(dir), text)
<1>1. /\ doc.owner = a.owner /\ doc.name = a.name /\ doc.typed = text
      /\ doc.id = AgentUri(a.owner, a.name, <<"1">>) /\ doc.key = KeyFor(dir)
  BY DEF Document
<1>2. printed' = printed \cup {doc} /\ Resolves(text)
  BY DEF InitAgent
<1>3. Directory(doc) = dir
  BY <1>1 DEF Directory
<1>4. dir \in DOMAIN keyIn' /\ keyIn'[dir] = KeyFor(dir)
  BY DEF InitAgent
<1> HIDE DEF doc
<1>5. PICK e: e = doc
  OBVIOUS
<1>6. Filed(e)'
  BY <1>1, <1>2, <1>3, <1>4, <1>5 DEF Filed
<1>7. QED
  BY <1>2, <1>3, <1>5, <1>6

(* A document stays filed where it was. *)
LEMMA StaysFiled ==
  ASSUME NInv, NEW text \in Argument, InitAgent(text), NEW d \in printed
  PROVE  Filed(d)'
BY KeysKept DEF NInv, Filed

LEMMA InitNInv == Init => NInv
<1>1. SUFFICES ASSUME Init
               PROVE  NInv
  OBVIOUS
<1>2. DOMAIN keyIn = {} /\ printed = {} /\ rejected = {}
  BY <1>1 DEF Init
<1>3. QED
  BY <1>2, FS_EmptySet, RunsAssumption DEF NInv, Numbered

LEMMA NextNumbered ==
  ASSUME NInv, NEW text \in Argument, InitAgent(text)
  PROVE  Numbered'
<1>1. PICK dir: dir = Directory(Resolve(text))
  OBVIOUS
<1>2. /\ DOMAIN keyIn' = DOMAIN keyIn \cup {dir}
      /\ \A d \in DOMAIN keyIn: keyIn'[d] = keyIn[d]
      /\ dir \notin DOMAIN keyIn => keyIn'[dir] = Cardinality(DOMAIN keyIn) + 1
  BY <1>1, KeysKept
<1>3. PICK doc: printed' = printed \cup {doc} /\ Directory(doc) = dir
  BY <1>1, DocumentFits
<1>4. /\ IsFiniteSet(DOMAIN keyIn) /\ IsFiniteSet(printed)
      /\ Cardinality(DOMAIN keyIn) \in Nat /\ Cardinality(printed) \in Nat
      /\ \A d \in DOMAIN keyIn: keyIn[d] \in 1..Cardinality(DOMAIN keyIn)
      /\ \A x, y \in DOMAIN keyIn: keyIn[x] = keyIn[y] => x = y
      /\ Cardinality(DOMAIN keyIn) <= Cardinality(printed)
      /\ Cardinality(printed) < MaxRuns
  BY FS_CardinalityType DEF NInv, Numbered, InitAgent
<1>5. /\ IsFiniteSet(printed')
      /\ Cardinality(printed') =
           IF doc \in printed THEN Cardinality(printed) ELSE Cardinality(printed) + 1
  BY <1>3, <1>4, FS_AddElement
<1>6. CASE dir \in DOMAIN keyIn
  <2>1. DOMAIN keyIn' = DOMAIN keyIn
    BY <1>2, <1>6
  <2>2. QED
    BY <1>2, <1>4, <1>5, <2>1, RunsAssumption DEF Numbered
<1>7. CASE dir \notin DOMAIN keyIn
  <2>1. /\ IsFiniteSet(DOMAIN keyIn')
        /\ Cardinality(DOMAIN keyIn') = Cardinality(DOMAIN keyIn) + 1
    BY <1>2, <1>4, <1>7, FS_AddElement
  <2>2. doc \notin printed
    BY <1>3, <1>7 DEF NInv, Filed
  <2>3. \A d \in DOMAIN keyIn': keyIn'[d] \in 1..Cardinality(DOMAIN keyIn')
    BY <1>2, <1>4, <1>7, <2>1
  <2>4. \A x, y \in DOMAIN keyIn': keyIn'[x] = keyIn'[y] => x = y
    BY <1>2, <1>4, <1>7
  <2>5. QED
    BY <1>4, <1>5, <2>1, <2>2, <2>3, <2>4, RunsAssumption DEF Numbered
<1>8. QED
  BY <1>6, <1>7

LEMMA NextNInv == NInv /\ [Next]_vars => NInv'
<1> SUFFICES ASSUME NInv, [Next]_vars
             PROVE  NInv'
  OBVIOUS
<1>1. ASSUME NEW text \in Argument, InitAgent(text)
      PROVE  NInv'
  <2>1. Numbered'
    BY <1>1, NextNumbered
  <2>2. \A d \in printed': Filed(d)'
    <3>1. PICK doc: printed' = printed \cup {doc} /\ Filed(doc)'
      BY <1>1, DocumentFits
    <3>2. \A d \in printed: Filed(d)'
      BY <1>1, StaysFiled
    <3>3. QED
      BY <3>1, <3>2
  <2>3. DOMAIN keyIn' \subseteq Text
    BY <1>1, KeysKept DEF NInv
  <2>4. rejected' \subseteq Argument
    BY <1>1 DEF NInv, InitAgent
  <2>5. QED
    BY <2>1, <2>2, <2>3, <2>4 DEF NInv
<1>2. ASSUME NEW text \in Argument, Reject(text)
      PROVE  NInv'
  BY <1>2 DEF NInv, Numbered, Filed, Reject
<1>3. CASE UNCHANGED vars
  BY <1>3 DEF NInv, Numbered, Filed, vars
<1>4. QED
  BY <1>1, <1>2, <1>3 DEF Next

LEMMA Invariant == Spec => []NInv
BY InitNInv, NextNInv, PTL DEF Spec
(* What is filed is a document of an agent that was read from an argument. *)
LEMMA FiledRead ==
  ASSUME NInv, NEW d \in printed
  PROVE  /\ d.typed \in Argument /\ Filed(d) /\ Read(d, d.typed)
BY ResolvedRead DEF NInv, Filed, Read

(* The type invariant: what is filed and printed is made of characters, and there are no
   more keys than runs. *)
THEOREM TypeCorrect == Spec => []TypeOK
<1>1. NInv => TypeOK
  <2>1. SUFFICES ASSUME NInv
                 PROVE  TypeOK
    OBVIOUS
  <2>2. /\ Cardinality(DOMAIN keyIn) \in Nat /\ Cardinality(DOMAIN keyIn) <= MaxRuns
        /\ MaxRuns \in Nat
    BY <2>1, FS_CardinalityType, RunsAssumption DEF NInv, Numbered
  <2>3. \A dir \in DOMAIN keyIn: dir \in Seq(Char) /\ keyIn[dir] \in 1..MaxRuns
    BY <2>1, <2>2 DEF NInv, Numbered, Text
  <2>4. \A d \in printed: d.owner \in Seq(Char) /\ d.name \in Seq(Char)
    BY <2>1, FiledRead DEF Read, Text
  <2>5. \A d \in printed: d.key \in 1..MaxRuns
    BY <2>1, <2>3 DEF NInv, Filed
  <2>6. QED
    BY <2>1, <2>3, <2>4, <2>5 DEF TypeOK, NInv
<1>2. QED
  BY <1>1, Invariant, PTL

(* parse_agent_uri reads the printed id as the agent it was printed for, unless a "#" was
   typed in a pair. *)
THEOREM ReadsBack == Spec => []IdReadsBack
<1>1. NInv => IdReadsBack
  <2>1. SUFFICES ASSUME NInv, NEW d \in printed, IsUri(d.typed) \/ First("#", d.typed) = 0
                 PROVE  NamesItsAgent(d)
    BY DEF IdReadsBack
  <2>2. /\ d.owner \in Text /\ d.name \in Text /\ Lacks(d.owner, "/")
        /\ Lacks(d.owner, "#") /\ Lacks(d.name, "#")
        /\ d.id = AgentUri(d.owner, d.name, <<"1">>)
    BY <2>1, FiledRead DEF Read, Filed
  <2>3. <<"1">> \in Text
    BY LetterAssumption DEF Text, Char
  <2>4. QED
    BY <2>2, <2>3, UriReadsBack DEF NamesItsAgent
<1>2. QED
  BY <1>1, Invariant, PTL

(* A pair is not taken for a URI. *)
LEMMA PairIsNoUri ==
  ASSUME NEW owner \in Text, NEW name \in Text
  PROVE  ~IsUri(owner \o <<".">> \o name)
<1> DEFINE pair == owner \o <<".">> \o name
<1>1. pair \in Seq(Char) /\ Len(pair) = Len(owner) + 1 + Len(name)
  BY Joined DEF Text, Char
<1> HIDE DEF pair
<1>2. Len(owner) \in Nat /\ Len(name) \in Nat
  BY DEF Text
<1>3. 1 \in 1..Len(pair)
  BY <1>1, <1>2
<1>4. pair[1] # Scheme
  BY <1>1, <1>3, LetterAssumption DEF Char, Scheme
<1>5. ~IsUri(pair)
  BY <1>1, <1>3, <1>4 DEF IsUri, IsPrefix
<1>6. QED
  BY <1>5 DEF pair

(* `owner.name` and the agent's URI lead to one identity and one key, as long as the name
   has no dot. *)
THEOREM BothWays == Spec => []PairMeansUri
<1>1. NInv => PairMeansUri
  <2>1. SUFFICES ASSUME NInv, NEW d \in printed, NEW e \in printed,
                        IsUri(d.typed), ~Dotted(d),
                        e.typed = d.owner \o <<".">> \o d.name
                 PROVE  SameAgent(d, e) /\ d.key = e.key
    BY DEF PairMeansUri
  <2>2. /\ d.owner \in Text /\ d.name \in Text /\ "." \in Char
        /\ Lacks(d.name, ".")
    BY <2>1, FiledRead, FirstIs DEF Read, Dotted, Text, Char
  <2>3. ~IsUri(e.typed)
    BY <2>1, <2>2, PairIsNoUri
  <2>4. LastDot(e.typed) = Len(d.owner) + 1
    BY <2>1, <2>2, FinalJoint DEF LastDot, Text
  <2>5. /\ Before(e.typed, Len(d.owner) + 1) = d.owner
        /\ After(e.typed, Len(d.owner) + 1) = d.name
    BY <2>1, <2>2, CutAt DEF Text
  <2>6. e.owner = d.owner /\ e.name = d.name
    BY <2>1, <2>3, <2>4, <2>5, FiledRead DEF Filed, Resolve
  <2>7. QED
    BY <2>1, <2>6, FiledRead DEF SameAgent, Filed, Directory
<1>2. QED
  BY <1>1, Invariant, PTL

(* Agents whose names have no dot have keys of their own. *)
THEOREM KeysApart == Spec => []OwnKey
<1>1. NInv => OwnKey
  <2>1. SUFFICES ASSUME NInv, NEW d \in printed, NEW e \in printed,
                        d.key = e.key, ~Dotted(d), ~Dotted(e)
                 PROVE  SameAgent(d, e)
    BY DEF OwnKey
  <2>2. /\ d.owner \in Text /\ d.name \in Text /\ Lacks(d.name, ".")
        /\ e.owner \in Text /\ e.name \in Text /\ Lacks(e.name, ".")
        /\ "." \in Char
    BY <2>1, FiledRead, FirstIs DEF Read, Dotted, Text, Char
  <2>3. Directory(d) = Directory(e)
    BY <2>1, FiledRead DEF Filed, NInv, Numbered
  <2>4. /\ Final(".", Directory(d)) = Len(d.owner) + 1
        /\ Before(Directory(d), Len(d.owner) + 1) = d.owner
        /\ After(Directory(d), Len(d.owner) + 1) = d.name
    BY <2>2, FinalJoint, CutAt DEF Directory, Text
  <2>5. /\ Final(".", Directory(e)) = Len(e.owner) + 1
        /\ Before(Directory(e), Len(e.owner) + 1) = e.owner
        /\ After(Directory(e), Len(e.owner) + 1) = e.name
    BY <2>2, FinalJoint, CutAt DEF Directory, Text
  <2>6. QED
    BY <2>3, <2>4, <2>5 DEF SameAgent
<1>2. QED
  BY <1>1, Invariant, PTL
================================================================================
